------------------------------ MODULE Snowball ------------------------------
(***************************************************************************)
(* The runtime of the stemmers (contrib/search/lunr-language/              *)
(* lunr.stemmer.support.js).  A word is a string, a cursor the number of   *)
(* letters before it.  Going backward a stemmer stands at the end of the   *)
(* word whenever it changes it, so that its slices are endings: a word cut *)
(* at a cursor and what is put there.                                      *)
(***************************************************************************)
EXTENDS Integers, Sequences

\* The letters and marks of the words, in the order of their codes.
Codes == " !\"#$%&'()*+,-./0123456789:;<=>?@ABCDEFGHIJKLMNOPQRSTUVWXYZ[\\]^_"
         \o "abcdefghijklmnopqrstuvwxyz{|}~ßàáâãäåæçèéêëìíîïñòóôõöøùúûüýþ"

At(s, i) == SubSeq(s, i, i)
Chars(s) == {At(s, i) : i \in 1..Len(s)}
Code == [ch \in Chars(Codes) |-> CHOOSE i \in 1..Len(Codes) : At(Codes, i) = ch]

Least(S) == CHOOSE x \in S : \A y \in S : x <= y
Greatest(S) == CHOOSE x \in S : \A y \in S : x >= y
Larger(a, b) == IF a > b THEN a ELSE b
Lesser(a, b) == IF a < b THEN a ELSE b

-----------------------------------------------------------------------------
(* Moving over letters.                                                    *)

In(w, i, S) == i \in 1..Len(w) /\ At(w, i) \in S
Out(w, i, S) == i \in 1..Len(w) /\ At(w, i) \notin S

\* in_grouping, or out_grouping, until it succeeds: the cursor behind the
\* first letter from c that is in S, or is not; Nowhere if there is none.
Nowhere == -1
Past(w, c, S, within) ==
  LET found == {i \in (c + 1)..Len(w) : (At(w, i) \in S) = within}
  IN IF c = Nowhere \/ found = {} THEN Nowhere ELSE Least(found)

OrEnd(c, w) == IF c = Nowhere THEN Len(w) ELSE c

\* Behind the first consonant that follows a vowel.
PastSyllable(w, c, vowels) == Past(w, Past(w, c, vowels, TRUE), vowels, FALSE)

\* The region pV of the Italian, Spanish, Portuguese and Romanian stemmers:
\* behind the next vowel if the second letter is a consonant, behind the next
\* consonant if the word begins with two vowels, else behind the third letter.
VerbRegion(w, vowels) ==
  IF Out(w, 2, vowels) THEN Past(w, 2, vowels, TRUE)
  ELSE IF In(w, 1, vowels) /\ In(w, 2, vowels) THEN Past(w, 2, vowels, FALSE)
  ELSE IF Len(w) > 2 THEN 3 ELSE Nowhere

\* eq_s and eq_s_b
StartsAt(w, c, s) == c + Len(s) <= Len(w) /\ SubSeq(w, c + 1, c + Len(s)) = s
EndsAt(w, c, lb, s) == c - lb >= Len(s) /\ SubSeq(w, c - Len(s) + 1, c) = s
Ends(w, s) == EndsAt(w, Len(w), 0, s)

\* replace_s on an ending, and on a part in the middle.
Cut(w, c) == SubSeq(w, 1, c)
Drop(w, n) == Cut(w, Len(w) - n)
Put(w, c, s) == Cut(w, c) \o s
Splice(w, bra, ket, s) == Put(w, bra, s) \o SubSeq(w, ket + 1, Len(w))

\* An ending goes when it lies in a region; Instead when it does not, t replaces it.
Shed(w, s, from) == IF Ends(w, s) /\ from <= Len(w) - Len(s) THEN Drop(w, Len(s)) ELSE w
Instead(w, s, from, t) ==
  IF Ends(w, s) /\ Len(w) - Len(s) < from THEN Put(w, Len(w) - Len(s), t) ELSE Shed(w, s, from)

\* What a step made of the word, and the answer it returned.
Yes(w) == [word |-> w, ok |-> TRUE]
No(w) == [word |-> w, ok |-> FALSE]

\* A pass over the letters: step(done, n) is what becomes of the n-th letter
\* when what precedes it has become done.
Pass(w, step(_, _)) ==
  LET upTo[n \in 0..Len(w)] == IF n = 0 THEN ""
                               ELSE LET done == upTo[n - 1] IN done \o step(done, n)
  IN upTo[Len(w)]

-----------------------------------------------------------------------------
(* find_among and find_among_b: a binary search in a table that is sorted, *)
(* of letters read forward or backward.  An entry is its letters, the      *)
(* index of the longest other entry that it starts (or ends) with, from 0, *)
(* or -1, and its result.                                                  *)

\* How many letters agree, from the `from` that are known to, and the sign
\* of the first that differs; there is none beyond the limit.
Compare(w, c, limit, back, key, from) ==
  LET room == IF back THEN c - limit ELSE limit - c
      here(k) == At(w, IF back THEN c - k ELSE c + k + 1)
      its(k) == At(key, IF back THEN Len(key) - k ELSE k + 1)
      n == Least({k \in from..Len(key) : k = Len(key) \/ k >= room \/ here(k) # its(k)})
  IN IF from >= Len(key) THEN [common |-> from, diff |-> 0]
     ELSE [common |-> n, diff |-> IF n = Len(key) THEN 0
                                  ELSE IF n = room THEN -1
                                  ELSE Code[here(n)] - Code[its(n)]]

\* Faulty variant: the first entry is never compared.
RECURSIVE BisectFromOne(_, _, _, _, _, _, _)
BisectFromOne(w, c, limit, back, table, lo, hi) ==
  LET k == lo.at + ((hi.at - lo.at) \div 2)
      met == Compare(w, c, limit, back, table[k + 1][1], Lesser(lo.common, hi.common))
      lo2 == IF met.diff < 0 THEN lo ELSE [lo EXCEPT !.at = k, !.common = met.common]
      hi2 == IF met.diff < 0 THEN [at |-> k, common |-> met.common] ELSE hi
  IN IF hi2.at - lo2.at > 1
     THEN BisectFromOne(w, c, limit, back, table, lo2, hi2) ELSE lo2

\* The last entry that is not behind the word.  When the search has come
\* down to the first entry, it is compared as well.
RECURSIVE Bisect(_, _, _, _, _, _, _)
Bisect(w, c, limit, back, table, lo, hi) ==
  LET k == lo.at + ((hi.at - lo.at) \div 2)
      met == Compare(w, c, limit, back, table[k + 1][1], Lesser(lo.common, hi.common))
      lo2 == IF met.diff < 0 THEN lo ELSE [lo EXCEPT !.at = k, !.common = met.common]
      hi2 == IF met.diff < 0 THEN [at |-> k, common |-> met.common] ELSE hi
  IN IF hi2.at - lo2.at > 1
     THEN Bisect(w, c, limit, back, table, lo2, hi2)
     ELSE IF lo2.at > 0 \/ hi2.at = lo2.at \/ lo2.seen THEN lo2
     ELSE Bisect(w, c, limit, back, table, [lo2 EXCEPT !.seen = TRUE], hi2)

Missed == [result |-> 0, cursor |-> Nowhere]

\* From there along the links to an entry that agrees in all its letters and
\* whose method, if it has one, does not refuse it.
RECURSIVE Follow(_, _, _, _, _, _)
Follow(c, back, table, at, common, refused) ==
  LET entry == table[at + 1]
      size == Len(entry[1])
  IN IF common >= size /\ at \notin refused
     THEN [result |-> entry[3], cursor |-> IF back THEN c - size ELSE c + size]
     ELSE IF entry[2] < 0 THEN Missed
     ELSE Follow(c, back, table, entry[2], common, refused)

FindAmong(w, c, limit, back, table, refused) ==
  LET lo == Bisect(w, c, limit, back, table, [at |-> 0, common |-> 0, seen |-> FALSE],
                   [at |-> Len(table), common |-> 0])
  IN Follow(c, back, table, lo.at, lo.common, refused)

FindForward(w, c, table) == FindAmong(w, c, Len(w), FALSE, table, {})
FindBackward(w, c, lb, table) == FindAmong(w, c, lb, TRUE, table, {})

\* The ending of a word that is in the table, no further back than lb.
Ending(w, lb, table) == IF Len(w) < lb THEN Missed ELSE FindBackward(w, Len(w), lb, table)
=============================================================================
