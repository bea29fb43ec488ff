------------------------------ MODULE StemDa ------------------------------
(****************************************************************************)
(* The Danish stemmer (lunr.da.js).  What may be removed lies behind p1, but *)
(* for the "st" of "igst".                                                   *)
(****************************************************************************)
EXTENDS Snowball

g_v == Chars("aeiouyæåø")
g_s_ending == Chars("abcdfghjklmnoprtvyzå")

a_0 == <<<<"hed", -1, 1>>, <<"ethed", 0, 1>>, <<"ered", -1, 1>>, <<"e", -1, 1>>,
  <<"erede", 3, 1>>, <<"ende", 3, 1>>, <<"erende", 5, 1>>, <<"ene", 3, 1>>,
  <<"erne", 3, 1>>, <<"ere", 3, 1>>, <<"en", -1, 1>>, <<"heden", 10, 1>>,
  <<"eren", 10, 1>>, <<"er", -1, 1>>, <<"heder", 13, 1>>, <<"erer", 13, 1>>,
  <<"s", -1, 2>>, <<"heds", 16, 1>>, <<"es", 16, 1>>, <<"endes", 18, 1>>,
  <<"erendes", 19, 1>>, <<"enes", 18, 1>>, <<"ernes", 18, 1>>, <<"eres", 18, 1>>,
  <<"ens", 16, 1>>, <<"hedens", 24, 1>>, <<"erens", 24, 1>>, <<"ers", 16, 1>>,
  <<"ets", 16, 1>>, <<"erets", 28, 1>>, <<"et", -1, 1>>, <<"eret", 30, 1>>>>
a_1 == <<<<"gd", -1, -1>>, <<"dt", -1, -1>>, <<"gt", -1, -1>>, <<"kt", -1, -1>>>>
a_2 == <<<<"ig", -1, 1>>, <<"lig", 0, 1>>, <<"elig", 1, 1>>, <<"els", -1, 1>>,
  <<"løst", -1, 2>>>>
Tables == {a_0, a_1, a_2}

\* I_p1
r_mark_regions(w) ==
  LET behind == PastSyllable(w, 0, g_v)
  IN IF Len(w) < 3 \/ behind = Nowhere THEN Len(w) ELSE Larger(behind, 3)

r_main_suffix(w, p1) ==
  LET e == Ending(w, p1, a_0)
  IN IF e.result = 1 \/ (e.result = 2 /\ In(w, e.cursor, g_s_ending))
     THEN Cut(w, e.cursor) ELSE w

r_consonant_pair(w, p1) == IF Ending(w, p1, a_1).result # 0 THEN Drop(w, 1) ELSE w

r_other_suffix(w, p1) ==
  LET x == IF Ends(w, "igst") THEN Drop(w, 2) ELSE w
      e == Ending(x, p1, a_2)
  IN CASE e.result = 1 -> r_consonant_pair(Cut(x, e.cursor), p1)
       [] e.result = 2 -> Put(x, e.cursor, "løs")
       [] OTHER -> x

r_undouble(w, p1) ==
  LET n == Len(w)
  IN IF n > p1 /\ Out(w, n, g_v) /\ n > 1 /\ At(w, n - 1) = At(w, n) THEN Drop(w, 1) ELSE w

stem(w) ==
  LET p1 == r_mark_regions(w)
  IN r_undouble(r_other_suffix(r_consonant_pair(r_main_suffix(w, p1), p1), p1), p1)

\* lunr.da: the pipelines of the index and of queries.
pipeline == <<"trimmer", "stopWordFilter", "stemmer">>
searchPipeline == <<"stemmer">>
===========================================================================
