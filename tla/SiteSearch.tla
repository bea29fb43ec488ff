----------------------------- MODULE SiteSearch -----------------------------
(***************************************************************************)
(* The search of a site as a whole: SearchClient with the index that the   *)
(* server or the worker builds and the answers that lunr finds in it, and  *)
(* what these must be.                                                     *)
(***************************************************************************)
EXTENDS SearchClient, LunrIndex

-----------------------------------------------------------------------------
(* What the search of a site promises, said without indexes, vectors and   *)
(* automata: which documents a query stands for, and which data the search *)
(* may rely on.  A query is the clauses a reader means, each with a word,  *)
(* which may have wildcards or be within one edit of what is looked for.   *)

Without(w, i) == Splice(w, i - 1, i, "")
Swapped(w, i) == Splice(w, i - 1, i + 1, At(w, i + 1) \o At(w, i))

\* One letter put in, left out or replaced, or two exchanged, at most.
WithinOneEdit(v, w) ==
  \/ v = w
  \/ \E i \in 1..Len(v) : Without(v, i) = w \/ (i < Len(v) /\ Swapped(v, i) = w)
  \/ \E i \in 1..Len(w) : Without(w, i) = v
  \/ Len(v) = Len(w) /\ \E i \in 1..Len(v) : Without(v, i) = Without(w, i)

RECURSIVE Globs(_, _)
Globs(pattern, w) ==
  LET behind(s) == SubSeq(s, 2, Len(s))
  IN IF pattern = "" THEN w = ""
     ELSE IF At(pattern, 1) = "*"
     THEN Globs(behind(pattern), w) \/ (w # "" /\ Globs(pattern, behind(w)))
     ELSE w # "" /\ At(w, 1) = At(pattern, 1) /\ Globs(behind(pattern), behind(w))

\* The terms of a field of a document.
TermsOf(s, doc, field) ==
  Run(Pipelines(s.langs).pipeline, Tokens(doc[field], s.langs, s.separator))

\* Whether a term is one that a clause asks for.
Fits(s, clause, w) ==
  LET sought == runString(Pipelines(s.langs).searchPipeline, clause.word)[1]
  IN CASE clause.edits = 1 -> WithinOneEdit(sought, w)
       [] "*" \in Chars(clause.word) -> w # "" /\ Globs(clause.word, w)
       [] OTHER -> w = sought

\* How much the terms of a field are asked for: each time a term that a clause
\* asks for is there, the clause's boost.
Weight(s, clauses, doc, field) ==
  LET terms == TermsOf(s, doc, field)
  IN MapThenSumSet(LAMBDA hit : clauses[hit[1]].boost,
                   {hit \in (DOMAIN clauses) \X (DOMAIN terms) :
                      /\ clauses[hit[1]].presence # "PROHIBITED"
                      /\ field \in ToSet(clauses[hit[1]].fields)
                      /\ Fits(s, clauses[hit[1]], terms[hit[2]])})

\* The documents a query stands for, and what speaks for each, by fields.
Meant(s, clauses) ==
  LET has(doc, clause) ==
        {field \in ToSet(clause.fields) :
           \E w \in ToSet(TermsOf(s, doc, field)) : Fits(s, clause, w)}
      of(presence) == {clauses[i] : i \in {i \in DOMAIN clauses : clauses[i].presence = presence}}
      wanted == of("OPTIONAL") \cup of("REQUIRED")
      fields(doc) == IF wanted = {} THEN ToSet(Fields) ELSE UNION {has(doc, c) : c \in wanted}
      docs == {doc \in ToSet(s.docs) : /\ fields(doc) # {}
                                       /\ \A c \in of("REQUIRED") : has(doc, c) # {}
                                       /\ \A c \in of("PROHIBITED") : has(doc, c) = {}}
  IN [ref \in {doc.location : doc \in docs} |->
        LET doc == CHOOSE d \in docs : d.location = ref
        IN [field \in fields(doc) |-> Weight(s, clauses, doc, field)]]

\* The words of a document as a reader sees them, without marks around them
\* and within them, that are not left out of the index.
PlainWords(s, doc, field) ==
  LET langs == ToSet(s.langs)
  IN {w \in {trimmer(token, langs) : token \in ToSet(Tokens(doc[field], s.langs, s.separator))} :
        /\ w # "" /\ Chars(w) \subseteq UNION {wordCharacters(lang) : lang \in langs}
        /\ \A lang \in langs \ {"th"} : ~IsStopWord(lang, w)}

-----------------------------------------------------------------------------
RECURSIVE Nodes(_, _)
Nodes(set, node) ==
  {node} \cup UNION {Nodes(set, set.edges[node][label]) : label \in DOMAIN set.edges[node]}

\* No two nodes lead to the same words.
IsMinimal(set) ==
  LET nodes == Nodes(set, set.root)
  IN Cardinality({WordsFrom(set, node) : node \in nodes}) = Cardinality(nodes)

Reversed(w) ==
  LET upTo[n \in 0..Len(w)] == IF n = 0 THEN "" ELSE At(w, n) \o upTo[n - 1] IN upTo[Len(w)]

\* A table is in the order of its letters, read in one direction, in which
\* find_among finds the longest entry a word ends, or begins, with.
IsSearchable(table) ==
  \E back \in BOOLEAN :
    LET entries == DOMAIN table
        key(i) == IF back THEN Reversed(table[i][1]) ELSE table[i][1]
        beside(w) == IF back THEN "x" \o w ELSE w \o "x"
        words == {table[i][1] : i \in entries} \cup {beside(table[i][1]) : i \in entries}
        has(w, e) == IF back THEN Ends(w, e) ELSE StartsAt(w, 0, e)
        longest(w) == LET fit == {i \in entries : has(w, table[i][1])}
                      IN IF fit = {} THEN 0
                         ELSE table[CHOOSE i \in fit : \A j \in fit :
                                      Len(table[i][1]) >= Len(table[j][1])][3]
        found(w) == IF back THEN FindBackward(w, Len(w), 0, table) ELSE FindForward(w, 0, table)
    IN /\ \A i \in entries : i > 1 => Precedes(key(i - 1), key(i))
       /\ \A w \in words : found(w).result = longest(w)

-----------------------------------------------------------------------------
CONSTANT Promise(_) \* what the texts of a site mean, and the words of its documents
Promised == [s \in Searchable |-> Promise(s)]

(* The values of the constants.                                            *)

SiteScriptsLoad(s) == ~ScriptThrows(s.langs)

\* onScriptsLoaded: the index, built from the documents by the server or here.
SiteIndex(s) ==
  LET built == Build(s.langs, s.separator, s.docs)
  IN IF s.prebuilt THEN Load(ToJSON(built), s.langs) ELSE built

SiteWords(s) ==
  UNION {UNION {PlainWords(s, doc, field) \X {doc.location} : field \in ToSet(Fields)} :
         doc \in ToSet(s.docs)}

\* Index.search, of the texts and of single words.
Thrown == [throws |-> TRUE, weights |-> <<>>]
AnswerTo(ix, text) ==
  LET parsed == Parse(text, Fields)
  IN IF parsed.throws THEN Thrown ELSE [throws |-> FALSE, weights |-> Query(ix, parsed.clauses)]
SiteLunr(s) ==
  LET ix == SiteIndex(s)
  IN [index |-> ix,
      answers |-> [text \in DOMAIN s.texts \cup {w[1] : w \in SiteWords(s)} |-> AnswerTo(ix, text)]]

SitePromise(s) ==
  LET answer(said) == IF said.malformed THEN Thrown
                      ELSE [throws |-> FALSE, weights |-> Meant(s, said.clauses)]
  IN [words |-> SiteWords(s), answers |-> [text \in DOMAIN s.texts |-> answer(s.texts[text])]]

-----------------------------------------------------------------------------
(* What lunr finds for a query, by lexer, parser, automata, the inverted   *)
(* index and vectors, are the documents that the query stands for, each    *)
(* with the weight of what speaks for it, whether the index was built in   *)
(* the worker or by the server; lunr throws on what means nothing.         *)
AnswersAreExact ==
  worker = "ready" => \A text \in DOMAIN site.texts :
    Search[site].answers[text] = Promised[site].answers[text]

(* A word of a document that is no stop word finds the document when it is *)
(* searched for as it stands: what becomes of it in the pipeline of the    *)
(* index and in that of queries is the same.  Not so on sites in Japanese  *)
(* or Vietnamese alone, whose queries go through the English stemmer.      *)
WordsAreFound ==
  worker = "ready" /\ site.langs \notin {<<"ja">>, <<"vi">>} =>
    \A w \in Promised[site].words : w[2] \in Found(w[1])

(* The automaton of the index has the words of the index and no others,    *)
(* though its nodes are merged while it is built, and no two of its nodes  *)
(* lead to the same words.                                                 *)
TokenSetIsMinimal ==
  worker = "ready" => /\ WordsFrom(Search[site].index.tokenSet, 1) = DOMAIN Search[site].index.termIndex
                      /\ IsMinimal(Search[site].index.tokenSet)

(* The tables of the stemmers that the worker is loading are in the order  *)
(* that the binary search in them needs, and it finds the longest ending   *)
(* there is.                                                               *)
TablesAreInOrder ==
  worker = "loading" /\ site \in Searchable =>
    \A lang \in ToSet(site.langs) : \A table \in Tables(lang) : IsSearchable(table)
=============================================================================
