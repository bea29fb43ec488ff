------------------------------ MODULE TokenSet ------------------------------
(***************************************************************************)
(* lunr.TokenSet: the automata of words of the search index.  A token set  *)
(* is its root, the edges of each node by label, and the nodes where a     *)
(* word ends.  The nodes of the index have the numbers lunr gives them, in *)
(* the order it makes them; in the set of a query a node is the path to it.*)
(***************************************************************************)
EXTENDS Snowball, SequencesExt, TLC

Alphabet == [i \in 1..Len(Codes) |-> At(Codes, i)]
Ordered(letters) == SelectSeq(Alphabet, LAMBDA ch : ch \in letters)

\* The order of words, by the codes of their letters.
Precedes(v, w) ==
  LET n == Least({i \in 1..(Len(v) + 1) :
                    i > Len(v) \/ i > Len(w) \/ At(v, i) # At(w, i)})
  IN n <= Len(w) /\ (n > Len(v) \/ Code[At(v, n)] < Code[At(w, n)])

-----------------------------------------------------------------------------
(* lunr.TokenSet.Builder.  The unchecked nodes are those of the last word, *)
(* the end of the automaton that may still grow.                           *)

Builder == [edges |-> <<<<>>>>, final |-> {}, unchecked |-> <<>>, minimized |-> <<>>,
            previous |-> ""]

\* Faulty variant: a node is known by its edges alone, ending a word or not.
KeyOfEdges(b, node) ==
  LET labels == Ordered(DOMAIN b.edges[node])
  IN FoldLeft(LAMBDA key, label : key \o label \o ToString(b.edges[node][label]), "", labels)

\* toString: nodes with the same key are taken to be the same.
Key(b, node) ==
  LET labels == Ordered(DOMAIN b.edges[node])
  IN FoldLeft(LAMBDA key, label : key \o label \o ToString(b.edges[node][label]),
              IF node \in b.final THEN "1" ELSE "0", labels)

RECURSIVE Minimize(_, _)
Minimize(b, downTo) ==
  LET last == Last(b.unchecked)
      key == Key(b, last.child)
      rest == [b EXCEPT !.unchecked = Front(@)]
  IN IF Len(b.unchecked) <= downTo THEN b
     ELSE Minimize(IF key \in DOMAIN b.minimized
                   THEN [rest EXCEPT !.edges[last.parent][last.char] = b.minimized[key]]
                   ELSE [rest EXCEPT !.minimized = (key :> last.child) @@ @],
                   downTo)

\* What is new of a word hangs as a chain from where it leaves the last one.
Insert(b, word) ==
  LET common == Least({i \in 0..Len(word) : \/ i = Len(word) \/ i >= Len(b.previous)
                                            \/ At(word, i + 1) # At(b.previous, i + 1)})
      m == Minimize(b, common)
      made == Len(m.edges)
      new == 1..(Len(word) - common)
      node(k) == IF k > 0 THEN made + k
                 ELSE IF m.unchecked = <<>> THEN 1 ELSE Last(m.unchecked).child
      link(k) == [parent |-> node(k - 1), char |-> At(word, common + k), child |-> node(k)]
      edges(n) == LET out == {k \in new : node(k - 1) = n}
                      old == IF n <= made THEN m.edges[n] ELSE <<>>
                  IN IF out = {} THEN old
                     ELSE LET k == Least(out) IN (link(k).char :> node(k)) @@ old
  IN [m EXCEPT !.edges = [n \in 1..(made + Len(word) - common) |-> edges(n)],
               !.unchecked = @ \o [k \in new |-> link(k)],
               !.final = @ \cup {node(Len(word) - common)},
               !.previous = word]

\* fromArray, of words in their order
FromArray(words) ==
  LET b == Minimize(FoldLeft(Insert, Builder, words), 0)
  IN [root |-> 1, edges |-> b.edges, final |-> b.final]

-----------------------------------------------------------------------------
(* The token sets of query terms.                                          *)

\* A wildcard is an edge back to the node it leaves; a node is the number of
\* the letters before it.
FromString(str) ==
  LET place[i \in 0..Len(str)] ==
        IF i = 0 THEN 0 ELSE LET p == place[i - 1] IN IF At(str, i) = "*" THEN p ELSE p + 1
      after(p, ch) == {i \in 1..Len(str) : place[i - 1] = p /\ At(str, i) = ch}
  IN [root |-> 0, final |-> IF str = "" THEN {} ELSE {place[Len(str)]},
      edges |-> [p \in 0..place[Len(str)] |->
                   [ch \in {c \in Chars(str) : after(p, c) # {}} |->
                      place[Least(after(p, ch))]]]]

\* The frames pushed for a frame: its first letter as it is, a letter
\* inserted, its first left out or replaced, its first two exchanged.
Edited(f) ==
  LET s == f.str
      n == Len(s)
      frame(label, edits, str) == [node |-> f.node \o label, edits |-> edits, str |-> str]
  IN (IF n > 0 THEN {frame(At(s, 1), f.edits, SubSeq(s, 2, n))} ELSE {})
     \cup (IF f.edits = 0 THEN {} ELSE
       {frame("*", f.edits - 1, s)}
       \cup (IF n > 0 THEN {frame("*", f.edits - 1, SubSeq(s, 2, n))} ELSE {})
       \cup (IF n > 1 THEN {frame("", f.edits - 1, SubSeq(s, 2, n)),
                            frame(At(s, 2), f.edits - 1, At(s, 1) \o SubSeq(s, 3, n))}
             ELSE {}))

RECURSIVE Frames(_)
Frames(f) == {f} \cup UNION {Frames(g) : g \in Edited(f)}

\* A word ends where nothing is left, or one letter that may be left out.
FromFuzzyString(str, editDistance) ==
  LET frames == Frames([node |-> "", edits |-> editDistance, str |-> str])
      nodes == {f.node : f \in frames}
      labels(p) == {At(q, Len(q)) : q \in {q \in nodes : Len(q) = Len(p) + 1 /\ Cut(q, Len(p)) = p}}
  IN [root |-> "", edges |-> [p \in nodes |-> [label \in labels(p) |-> p \o label]],
      final |-> {f.node : f \in {g \in frames : (g.str = "" /\ g.node # "")
                                               \/ (Len(g.str) = 1 /\ g.edits > 0)}}]

\* fromClause; a clause without an edit distance has NoEdits, and 0 is one.
NoEdits == -1
FromClause(term, editDistance) ==
  IF editDistance = NoEdits THEN FromString(term) ELSE FromFuzzyString(term, editDistance)

\* intersect and toArray: the words that lead from two nodes to ends of both.
\* The label * of a query stands for any letter.
RECURSIVE Shared(_, _, _, _)
Shared(set, node, q, qNode) ==
  UNION {LET next == set.edges[node][step[1]]
             qNext == q.edges[qNode][step[2]]
             ends == next \in set.final /\ qNext \in q.final
         IN (IF ends THEN {step[1]} ELSE {}) \cup {step[1] \o w : w \in Shared(set, next, q, qNext)} :
         step \in {s \in (DOMAIN set.edges[node]) \X (DOMAIN q.edges[qNode]) :
                     s[2] \in {s[1], "*"}}}

Intersect(set, q) == Shared(set, set.root, q, q.root)

\* All words of a token set of the index.
RECURSIVE WordsFrom(_, _)
WordsFrom(set, node) ==
  (IF node \in set.final THEN {""} ELSE {})
  \cup UNION {{label \o w : w \in WordsFrom(set, set.edges[node][label])} :
              label \in DOMAIN set.edges[node]}
=============================================================================
