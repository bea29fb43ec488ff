------------------------------ MODULE StemNo ------------------------------
(****************************************************************************)
(* The Norwegian stemmer (lunr.no.js).                                       *)
(****************************************************************************)
EXTENDS Snowball

g_v == Chars("aeiouyæåø")
g_s_ending == Chars("bcdfghjlmnoprtvyz")

a_0 == <<<<"a", -1, 1>>, <<"e", -1, 1>>, <<"ede", 1, 1>>, <<"ande", 1, 1>>,
  <<"ende", 1, 1>>, <<"ane", 1, 1>>, <<"ene", 1, 1>>, <<"hetene", 6, 1>>,
  <<"erte", 1, 3>>, <<"en", -1, 1>>, <<"heten", 9, 1>>, <<"ar", -1, 1>>,
  <<"er", -1, 1>>, <<"heter", 12, 1>>, <<"s", -1, 2>>, <<"as", 14, 1>>,
  <<"es", 14, 1>>, <<"edes", 16, 1>>, <<"endes", 16, 1>>, <<"enes", 16, 1>>,
  <<"hetenes", 19, 1>>, <<"ens", 14, 1>>, <<"hetens", 21, 1>>, <<"ers", 14, 1>>,
  <<"ets", 14, 1>>, <<"et", -1, 1>>, <<"het", 25, 1>>, <<"ert", -1, 3>>,
  <<"ast", -1, 1>>>>
a_1 == <<<<"dt", -1, -1>>, <<"vt", -1, -1>>>>
a_2 == <<<<"leg", -1, 1>>, <<"eleg", 0, 1>>, <<"ig", -1, 1>>, <<"eig", 2, 1>>,
  <<"lig", 2, 1>>, <<"elig", 4, 1>>, <<"els", -1, 1>>, <<"lov", -1, 1>>,
  <<"elov", 7, 1>>, <<"slov", 7, 1>>, <<"hetslov", 9, 1>>>>
Tables == {a_0, a_1, a_2}

\* I_p1, which lies beyond a word of one or two letters that has a syllable.
r_mark_regions(w) ==
  LET behind == PastSyllable(w, 0, g_v)
  IN IF behind = Nowhere THEN Len(w) ELSE Larger(behind, 3)

\* An s goes behind some consonants, and behind a k that follows another.
r_main_suffix(w, p1) ==
  LET e == Ending(w, p1, a_0)
      s_goes == \/ In(w, e.cursor, g_s_ending)
                \/ In(w, e.cursor, {"k"}) /\ Out(w, e.cursor - 1, g_v)
  IN CASE e.result = 1 \/ (e.result = 2 /\ s_goes) -> Cut(w, e.cursor)
       [] e.result = 3 -> Put(w, e.cursor, "er")
       [] OTHER -> w

r_consonant_pair(w, p1) == IF Ending(w, p1, a_1).result # 0 THEN Drop(w, 1) ELSE w

r_other_suffix(w, p1) ==
  LET e == Ending(w, p1, a_2)
  IN IF e.result = 1 THEN Cut(w, e.cursor) ELSE w

stem(w) ==
  LET p1 == r_mark_regions(w)
  IN r_other_suffix(r_consonant_pair(r_main_suffix(w, p1), p1), p1)

\* lunr.no: the pipelines of the index and of queries.
pipeline == <<"trimmer", "stopWordFilter", "stemmer">>
searchPipeline == <<"stemmer">>
===========================================================================
