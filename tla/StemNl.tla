------------------------------ MODULE StemNl ------------------------------
(****************************************************************************)
(* The Dutch stemmer (lunr.nl.js).  An i between vowels and a y behind one   *)
(* are consonants, I and Y, in between.                                      *)
(****************************************************************************)
EXTENDS Snowball

g_v == Chars("aeiouyè")
g_v_I == Chars("Iaeiouyè")
g_v_j == Chars("aeijouyè")

a_0 == <<<<"", -1, 6>>, <<"á", 0, 1>>, <<"ä", 0, 1>>, <<"é", 0, 2>>, <<"ë", 0, 2>>,
  <<"í", 0, 3>>, <<"ï", 0, 3>>, <<"ó", 0, 4>>, <<"ö", 0, 4>>, <<"ú", 0, 5>>,
  <<"ü", 0, 5>>>>
a_1 == <<<<"", -1, 3>>, <<"I", 0, 2>>, <<"Y", 0, 1>>>>
a_2 == <<<<"dd", -1, -1>>, <<"kk", -1, -1>>, <<"tt", -1, -1>>>>
a_3 == <<<<"ene", -1, 2>>, <<"se", -1, 3>>, <<"en", -1, 2>>, <<"heden", 2, 1>>,
  <<"s", -1, 3>>>>
a_4 == <<<<"end", -1, 1>>, <<"ig", -1, 2>>, <<"ing", -1, 1>>, <<"lijk", -1, 3>>,
  <<"baar", -1, 4>>, <<"bar", -1, 5>>>>
a_5 == <<<<"aa", -1, -1>>, <<"ee", -1, -1>>, <<"oo", -1, -1>>, <<"uu", -1, -1>>>>
Tables == {a_0, a_1, a_2, a_3, a_4, a_5}

Marked(w, done, n) ==
  CASE At(w, n) = "y" /\ (n = 1 \/ In(done, n - 1, g_v)) -> "Y"
    [] At(w, n) = "i" /\ In(done, n - 1, g_v) /\ In(w, n + 1, g_v) -> "I"
    [] OTHER -> At(w, n)

r_prelude(w) ==
  LET x == Pass(w, LAMBDA done, n :
             <<"a", "e", "i", "o", "u", At(w, n)>>[FindForward(w, n - 1, a_0).result])
  IN Pass(x, LAMBDA done, n : Marked(x, done, n))

\* p1 lies beyond a word of one or two letters that has a syllable.
r_mark_regions(w) ==
  LET first == PastSyllable(w, 0, g_v)
      second == PastSyllable(w, first, g_v)
  IN [p1 |-> IF first = Nowhere THEN Len(w) ELSE Larger(first, 3),
      p2 |-> IF second = Nowhere THEN Len(w) ELSE second]

r_postlude(w) ==
  Pass(w, LAMBDA done, n : <<"y", "i", At(w, n)>>[FindForward(w, n - 1, a_1).result])

r_undouble(w) == IF Ending(w, 0, a_2).result # 0 THEN Drop(w, 1) ELSE w

r_e_ending(w, r) ==
  LET n == Len(w) - 1
      found == Ends(w, "e") /\ r.p1 <= n /\ Out(w, n, g_v)
  IN [word |-> IF found THEN r_undouble(Cut(w, n)) ELSE w, found |-> found]

\* The ending from c on is "en", "ene" or what is left of "enheid".
r_en_ending(w, c, r) ==
  IF r.p1 <= c /\ Out(w, c, g_v) /\ ~EndsAt(w, c, 0, "gem") THEN r_undouble(Cut(w, c)) ELSE w

\* The parts of r_standard_suffix.
Inflection(w, r) ==
  LET e == Ending(w, 0, a_3)
  IN CASE e.result = 1 /\ r.p1 <= e.cursor -> Put(w, e.cursor, "heid")
       [] e.result = 2 -> r_en_ending(w, e.cursor, r)
       [] e.result = 3 /\ r.p1 <= e.cursor /\ Out(w, e.cursor, g_v_j) -> Cut(w, e.cursor)
       [] OTHER -> w

Heid(w, r) ==
  LET n == Len(w) - 4
      x == Cut(w, n)
  IN IF ~Ends(w, "heid") \/ n < r.p2 \/ In(w, n, {"c"}) THEN w
     ELSE IF Ends(x, "en") THEN r_en_ending(x, n - 2, r) ELSE x

Derivation(w, e_found, r) ==
  LET e == Ending(w, 0, a_4)
      x == Cut(w, e.cursor)
      n == Len(x) - 2
  IN IF e.result = 0 \/ e.cursor < r.p2 THEN w
     ELSE CASE e.result = 1 -> IF Ends(x, "ig") /\ r.p2 <= n /\ ~In(x, n, {"e"})
                               THEN Cut(x, n) ELSE r_undouble(x)
            [] e.result = 2 -> IF In(w, e.cursor, {"e"}) THEN w ELSE x
            [] e.result = 3 -> r_e_ending(x, r).word
            [] e.result = 4 -> x
            [] e.result = 5 -> IF e_found THEN x ELSE w

\* A double vowel between consonants at the end becomes a single one.
Shorten(w) ==
  LET n == Len(w)
      double == FindBackward(w, n - 1, 0, a_5)
  IN IF Out(w, n, g_v_I) /\ double.result # 0 /\ Out(w, double.cursor, g_v)
     THEN Splice(w, n - 2, n - 1, "") ELSE w

r_standard_suffix(w, r) ==
  LET x == r_e_ending(Inflection(w, r), r)
  IN Shorten(Derivation(Heid(x.word, r), x.found, r))

stem(w) ==
  LET x == r_prelude(w)
  IN r_postlude(r_standard_suffix(x, r_mark_regions(x)))

\* lunr.nl: the pipelines of the index and of queries.
pipeline == <<"trimmer", "stopWordFilter", "stemmer">>
searchPipeline == <<"stemmer">>
===========================================================================
