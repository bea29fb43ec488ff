----------------------------- MODULE LunrIndex -----------------------------
(***************************************************************************)
(* lunr's Builder and Index, as worker.js and prebuild-index.js use them:  *)
(* the index of a site's documents and what a query finds in it.  Of a     *)
(* score only the products of weights are modelled, a term's weight being  *)
(* its frequency in the field; results are not ordered.                    *)
(***************************************************************************)
EXTENDS LunrQuery

Fields == <<"title", "text">>

\* lunr.FieldRef: the name of a field cannot have a slash, a location may.
FieldRef(ref, field) == field \o "/" \o ref
Joint(fieldRef) == Least({i \in 1..Len(fieldRef) : At(fieldRef, i) = "/"})
DocRef(fieldRef) == SubSeq(fieldRef, Joint(fieldRef) + 1, Len(fieldRef))

-----------------------------------------------------------------------------
(* lunr.Vector: elements in the order of their indexes, from 0.            *)

\* The last step of the search in positionForIndex, among the elements from
\* `start` and before `end`.
RECURSIVE Pivot(_, _, _, _)
Pivot(v, index, start, end) ==
  LET pivotPoint == start + (end - start) \div 2
      pivotIndex == v[pivotPoint + 1].index
  IN IF end - start <= 1 \/ pivotIndex = index THEN pivotPoint
     ELSE IF pivotIndex < index THEN Pivot(v, index, pivotPoint, end)
     ELSE Pivot(v, index, start, pivotPoint)

positionForIndex(v, index) ==
  LET pivotPoint == Pivot(v, index, 0, Len(v))
  IN IF v = <<>> THEN 0
     ELSE IF v[pivotPoint + 1].index >= index THEN pivotPoint ELSE pivotPoint + 1

\* upsert, adding the values; insert is for indexes the vector does not have.
Upsert(v, index, val) ==
  LET position == positionForIndex(v, index) + 1
  IN IF position <= Len(v) /\ v[position].index = index
     THEN [v EXCEPT ![position].val = @ + val]
     ELSE InsertAt(v, position, [index |-> index, val |-> val])

RECURSIVE Dot(_, _)
Dot(a, b) ==
  IF a = <<>> \/ b = <<>> THEN 0
  ELSE CASE Head(a).index < Head(b).index -> Dot(Tail(a), b)
         [] Head(a).index > Head(b).index -> Dot(a, Tail(b))
         [] OTHER -> Head(a).val * Head(b).val + Dot(Tail(a), Tail(b))

-----------------------------------------------------------------------------
(* lunr.Builder.  The inverted index is its terms, whose places are their  *)
(* indexes, and what document has a term in what field.                    *)

NewBuilder(langs, separator) ==
  [langs |-> langs, separator |-> separator, terms |-> <<>>, postings |-> {},
   fieldTerms |-> <<>>, pipelines |-> Pipelines(langs)]

Unique(terms, seen) ==
  FoldLeft(LAMBDA s, term : IF Contains(s, term) THEN s ELSE Append(s, term), seen, terms)

\* One field of add.
AddField(b, doc, field) ==
  LET terms == Run(b.pipelines.pipeline, Tokens(doc[field], b.langs, b.separator))
  IN [b EXCEPT !.terms = Unique(terms, @),
               !.postings = @ \cup {<<term, field, doc.location>> : term \in ToSet(terms)},
               !.fieldTerms = (FieldRef(doc.location, field) :> terms) @@ @]

Add(b, doc) == FoldLeft(LAMBDA c, field : AddField(c, doc, field), b, Fields)

IndexOf(terms, term) == SelectInSeq(terms, LAMBDA t : t = term) - 1

\* createFieldVectors, for one field of a document
FieldVector(b, terms) ==
  FoldLeft(LAMBDA v, term : Upsert(v, IndexOf(b.terms, term),
                                   Cardinality({i \in DOMAIN terms : terms[i] = term})),
           <<>>, Unique(terms, <<>>))

\* build; the search pipeline becomes the index's.
Build(langs, separator, docs) ==
  LET b == FoldLeft(Add, NewBuilder(langs, separator), docs)
  IN [termIndex |-> [term \in ToSet(b.terms) |-> IndexOf(b.terms, term)],
      postings |-> b.postings,
      fieldVectors |-> [ref \in DOMAIN b.fieldTerms |-> FieldVector(b, b.fieldTerms[ref])],
      tokenSet |-> FromArray(SortSeq(b.terms, Precedes)),
      pipeline |-> b.pipelines.searchPipeline]

\* toJSON, which Node.js writes when the site is built, sorts the terms, each
\* of which keeps its index; pipeline functions are written by their labels.
Label(f) == f.name \o "-" \o (CHOOSE lang \in f.langs : TRUE)
ToJSON(ix) ==
  LET all == DOMAIN ix.termIndex
      term(n) == CHOOSE t \in all : ix.termIndex[t] = n - 1
      terms == SortSeq([n \in 1..Cardinality(all) |-> term(n)], Precedes)
  IN [invertedIndex |-> [i \in DOMAIN terms |-> <<terms[i], ix.termIndex[terms[i]]>>],
      postings |-> ix.postings, fieldVectors |-> ix.fieldVectors,
      pipeline |-> [i \in DOMAIN ix.pipeline |-> Label(ix.pipeline[i])]]

\* load
Load(serialized, langs) ==
  LET entries == serialized.invertedIndex
      registered == {Function("stemmer", {lang}) : lang \in ToSet(langs) \cup {"en"}}
  IN [termIndex |-> [term \in {entries[i][1] : i \in DOMAIN entries} |->
                       entries[SelectInSeq(entries, LAMBDA e : e[1] = term)][2]],
      postings |-> serialized.postings, fieldVectors |-> serialized.fieldVectors,
      tokenSet |-> FromArray([i \in DOMAIN entries |-> entries[i][1]]),
      pipeline |-> [i \in DOMAIN serialized.pipeline |->
                      CHOOSE f \in registered : Label(f) = serialized.pipeline[i]]]

-----------------------------------------------------------------------------
(* Index.query.  A match is the state of its loop over the clauses: the    *)
(* documents required and prohibited in each field, the fields of documents *)
(* that match, and the query's vector for each field.                      *)

Refs(ix) == {DocRef(fieldRef) : fieldRef \in DOMAIN ix.fieldVectors}

\* The terms of the index a clause stands for.  The search pipelines are of
\* stemmers, which make one term of a term.
Expanded(ix, clause) ==
  LET term == IF clause.usePipeline THEN runString(ix.pipeline, clause.term)[1] ELSE clause.term
  IN Intersect(ix.tokenSet, FromClause(term, clause.editDistance))

Holding(ix, term, field) ==
  {posting[3] : posting \in {p \in ix.postings : p[1] = term /\ p[2] = field}}

\* Faulty variant: a required term is required in every field.
RequireInEach(required, clause, found) ==
  [field \in DOMAIN required |->
     IF field \in DOMAIN found THEN required[field] \cap found[field] ELSE required[field]]

\* A required term is required in any of the clause's fields.
Require(required, clause, found) ==
  [field \in DOMAIN required |->
     IF field \in DOMAIN found THEN required[field] \cap UNION {found[f] : f \in DOMAIN found}
     ELSE required[field]]

\* The body of the loop over the clauses.
Match(ix, m, clause) ==
  LET terms == Expanded(ix, clause)
      found == [field \in ToSet(clause.fields) |->
                  UNION {Holding(ix, term, field) : term \in terms}]
      vector(field) == FoldSet(LAMBDA term, v : Upsert(v, ix.termIndex[term], clause.boost),
                               m.queryVectors[field], terms)
  IN IF clause.presence = "PROHIBITED"
     THEN [m EXCEPT !.prohibited = @ \cup UNION {found[field] : field \in DOMAIN found}]
     ELSE [m EXCEPT
             !.required = IF clause.presence = "REQUIRED" THEN Require(@, clause, found) ELSE @,
             !.fieldRefs = @ \cup UNION {{FieldRef(ref, field) : ref \in found[field]} :
                                        field \in DOMAIN found},
             !.queryVectors = [field \in DOMAIN @ |->
                                 IF field \in DOMAIN found THEN vector(field) ELSE @[field]]]

\* The documents of the results: what each has of the score, by the fields
\* that match.  A query without clauses is negated as well.
Query(ix, clauses) ==
  LET start == [required |-> [field \in ToSet(Fields) |-> Refs(ix)], prohibited |-> {},
                fieldRefs |-> {}, queryVectors |-> [field \in ToSet(Fields) |-> <<>>]]
      m == FoldLeft(LAMBDA n, clause : Match(ix, n, clause), start, clauses)
      fieldRefs == IF isNegated(clauses) THEN DOMAIN ix.fieldVectors ELSE m.fieldRefs
      kept == {ref \in {DocRef(fieldRef) : fieldRef \in fieldRefs} :
                 /\ \A field \in ToSet(Fields) : ref \in m.required[field]
                 /\ ref \notin m.prohibited}
  IN [ref \in kept |->
        [field \in {f \in ToSet(Fields) : FieldRef(ref, f) \in fieldRefs} |->
           Dot(m.queryVectors[field], ix.fieldVectors[FieldRef(ref, field)])]]
=============================================================================
