------------------------------ MODULE StemSv ------------------------------
(****************************************************************************)
(* The Swedish stemmer (lunr.sv.js).                                         *)
(****************************************************************************)
EXTENDS Snowball

g_v == Chars("aeiouyäåö")
g_s_ending == Chars("bcdfghjklmnoprtvy")

a_0 == <<<<"a", -1, 1>>, <<"arna", 0, 1>>, <<"erna", 0, 1>>, <<"heterna", 2, 1>>,
  <<"orna", 0, 1>>, <<"ad", -1, 1>>, <<"e", -1, 1>>, <<"ade", 6, 1>>,
  <<"ande", 6, 1>>, <<"arne", 6, 1>>, <<"are", 6, 1>>, <<"aste", 6, 1>>,
  <<"en", -1, 1>>, <<"anden", 12, 1>>, <<"aren", 12, 1>>, <<"heten", 12, 1>>,
  <<"ern", -1, 1>>, <<"ar", -1, 1>>, <<"er", -1, 1>>, <<"heter", 18, 1>>,
  <<"or", -1, 1>>, <<"s", -1, 2>>, <<"as", 21, 1>>, <<"arnas", 22, 1>>,
  <<"ernas", 22, 1>>, <<"ornas", 22, 1>>, <<"es", 21, 1>>, <<"ades", 26, 1>>,
  <<"andes", 26, 1>>, <<"ens", 21, 1>>, <<"arens", 29, 1>>, <<"hetens", 29, 1>>,
  <<"erns", 21, 1>>, <<"at", -1, 1>>, <<"andet", -1, 1>>, <<"het", -1, 1>>,
  <<"ast", -1, 1>>>>
a_1 == <<<<"dd", -1, -1>>, <<"gd", -1, -1>>, <<"nn", -1, -1>>, <<"dt", -1, -1>>,
  <<"gt", -1, -1>>, <<"kt", -1, -1>>, <<"tt", -1, -1>>>>
a_2 == <<<<"ig", -1, 1>>, <<"lig", 0, 1>>, <<"els", -1, 1>>, <<"fullt", -1, 3>>,
  <<"löst", -1, 2>>>>
Tables == {a_0, a_1, a_2}

\* I_p1, which lies beyond a word of one or two letters that has a syllable.
r_mark_regions(w) ==
  LET behind == PastSyllable(w, 0, g_v)
  IN IF behind = Nowhere THEN Len(w) ELSE Larger(behind, 3)

r_main_suffix(w, p1) ==
  LET e == Ending(w, p1, a_0)
  IN IF e.result = 1 \/ (e.result = 2 /\ In(w, e.cursor, g_s_ending))
     THEN Cut(w, e.cursor) ELSE w

r_consonant_pair(w, p1) == IF Ending(w, p1, a_1).result # 0 THEN Drop(w, 1) ELSE w

r_other_suffix(w, p1) ==
  LET e == Ending(w, p1, a_2)
  IN IF e.result = 0 THEN w ELSE Put(w, e.cursor, <<"", "lös", "full">>[e.result])

stem(w) ==
  LET p1 == r_mark_regions(w)
  IN r_other_suffix(r_consonant_pair(r_main_suffix(w, p1), p1), p1)

\* lunr.sv: the pipelines of the index and of queries.
pipeline == <<"trimmer", "stopWordFilter", "stemmer">>
searchPipeline == <<"stemmer">>
===========================================================================
