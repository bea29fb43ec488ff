------------------------------ MODULE StemDe ------------------------------
(****************************************************************************)
(* The German stemmer (lunr.de.js).  A u or y between vowels is a consonant, *)
(* U or Y, in between.                                                       *)
(****************************************************************************)
EXTENDS Snowball

g_v == Chars("aeiouyäöü")
g_s_ending == Chars("bdfghklmnrt")
g_st_ending == Chars("bdfghklmnt")

a_0 == <<<<"", -1, 6>>, <<"U", 0, 2>>, <<"Y", 0, 1>>, <<"ä", 0, 3>>, <<"ö", 0, 4>>,
  <<"ü", 0, 5>>>>
a_1 == <<<<"e", -1, 2>>, <<"em", -1, 1>>, <<"en", -1, 2>>, <<"ern", -1, 1>>,
  <<"er", -1, 1>>, <<"s", -1, 3>>, <<"es", 5, 2>>>>
a_2 == <<<<"en", -1, 1>>, <<"er", -1, 1>>, <<"st", -1, 2>>, <<"est", 2, 1>>>>
a_3 == <<<<"ig", -1, 1>>, <<"lich", -1, 1>>>>
a_4 == <<<<"end", -1, 1>>, <<"ig", -1, 2>>, <<"ung", -1, 1>>, <<"lich", -1, 3>>,
  <<"isch", -1, 2>>, <<"ik", -1, 2>>, <<"heit", -1, 3>>, <<"keit", -1, 4>>>>
Tables == {a_0, a_1, a_2, a_3, a_4}

\* habr1
Marked(w, done, n) ==
  IF In(done, n - 1, g_v) /\ In(w, n + 1, g_v)
  THEN CASE At(w, n) = "u" -> "U" [] At(w, n) = "y" -> "Y" [] OTHER -> At(w, n)
  ELSE At(w, n)

r_prelude(w) ==
  LET x == Pass(w, LAMBDA done, n : IF At(w, n) = "ß" THEN "ss" ELSE At(w, n))
  IN Pass(x, LAMBDA done, n : Marked(x, done, n))

r_mark_regions(w) ==
  LET first == PastSyllable(w, 0, g_v)
      second == PastSyllable(w, first, g_v)
      n == Len(w)
  IN [p1 |-> IF n < 3 \/ first = Nowhere THEN n ELSE Larger(first, 3),
      p2 |-> IF n < 3 \/ second = Nowhere THEN n ELSE second]

r_postlude(w) ==
  Pass(w, LAMBDA done, n :
            <<"y", "u", "a", "o", "u", At(w, n)>>[FindForward(w, n - 1, a_0).result])

\* The three parts of r_standard_suffix.
Inflection(w, r) ==
  LET e == Ending(w, 0, a_1)
      x == Cut(w, e.cursor)
  IN IF e.result = 0 \/ e.cursor < r.p1 THEN w
     ELSE CASE e.result = 1 -> x
            [] e.result = 2 -> IF Ends(x, "niss") THEN Drop(x, 1) ELSE x
            [] e.result = 3 -> IF In(w, e.cursor, g_s_ending) THEN x ELSE w

Comparison(w, r) ==
  LET e == Ending(w, 0, a_2)
      goes == e.result = 1 \/ (In(w, e.cursor, g_st_ending) /\ e.cursor >= 4)
  IN IF e.result # 0 /\ e.cursor >= r.p1 /\ goes THEN Cut(w, e.cursor) ELSE w

Derivation(w, r) ==
  LET e == Ending(w, 0, a_4)
      x == Cut(w, e.cursor)
      n == Len(x) - 2
      third == Ending(x, 0, a_3)
      \* without its last two letters, if they are among these and may go
      Without(ends, may) == IF may /\ \E s \in ends : Ends(x, s) THEN Cut(x, n) ELSE x
  IN IF e.result = 0 \/ e.cursor < r.p2 THEN w
     ELSE CASE e.result = 1 -> Without({"ig"}, ~In(x, n, {"e"}) /\ r.p2 <= n)
            [] e.result = 2 -> IF In(w, e.cursor, {"e"}) THEN w ELSE x
            [] e.result = 3 -> Without({"er", "en"}, r.p1 <= n)
            [] e.result = 4 -> IF third.result = 1 /\ r.p2 <= third.cursor
                               THEN Cut(x, third.cursor) ELSE x

r_standard_suffix(w, r) == Derivation(Comparison(Inflection(w, r), r), r)

stem(w) ==
  LET x == r_prelude(w)
  IN r_postlude(r_standard_suffix(x, r_mark_regions(x)))

\* lunr.de: the pipelines of the index and of queries.
pipeline == <<"trimmer", "stopWordFilter", "stemmer">>
searchPipeline == <<"stemmer">>
===========================================================================
