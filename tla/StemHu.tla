------------------------------ MODULE StemHu ------------------------------
(****************************************************************************)
(* The Hungarian stemmer (lunr.hu.js).  Its tables write the long umlauts as *)
(* o with a tilde and u with a circumflex, which are not the letters of      *)
(* Hungarian texts.                                                          *)
(****************************************************************************)
EXTENDS Snowball

g_v == Chars("aeiouáéíóõöúûü")

a_0 == <<<<"cs", -1, -1>>, <<"dzs", -1, -1>>, <<"gy", -1, -1>>, <<"ly", -1, -1>>,
  <<"ny", -1, -1>>, <<"sz", -1, -1>>, <<"ty", -1, -1>>, <<"zs", -1, -1>>>>
a_1 == <<<<"á", -1, 1>>, <<"é", -1, 2>>>>
a_2 == <<<<"bb", -1, -1>>, <<"cc", -1, -1>>, <<"dd", -1, -1>>, <<"ff", -1, -1>>,
  <<"gg", -1, -1>>, <<"jj", -1, -1>>, <<"kk", -1, -1>>, <<"ll", -1, -1>>,
  <<"mm", -1, -1>>, <<"nn", -1, -1>>, <<"pp", -1, -1>>, <<"rr", -1, -1>>,
  <<"ccs", -1, -1>>, <<"ss", -1, -1>>, <<"zzs", -1, -1>>, <<"tt", -1, -1>>,
  <<"vv", -1, -1>>, <<"ggy", -1, -1>>, <<"lly", -1, -1>>, <<"nny", -1, -1>>,
  <<"tty", -1, -1>>, <<"ssz", -1, -1>>, <<"zz", -1, -1>>>>
a_3 == <<<<"al", -1, 1>>, <<"el", -1, 2>>>>
a_4 == <<<<"ba", -1, -1>>, <<"ra", -1, -1>>, <<"be", -1, -1>>, <<"re", -1, -1>>,
  <<"ig", -1, -1>>, <<"nak", -1, -1>>, <<"nek", -1, -1>>, <<"val", -1, -1>>,
  <<"vel", -1, -1>>, <<"ul", -1, -1>>, <<"nál", -1, -1>>, <<"nél", -1, -1>>,
  <<"ból", -1, -1>>, <<"ról", -1, -1>>, <<"tól", -1, -1>>, <<"bõl", -1, -1>>,
  <<"rõl", -1, -1>>, <<"tõl", -1, -1>>, <<"ül", -1, -1>>, <<"n", -1, -1>>,
  <<"an", 19, -1>>, <<"ban", 20, -1>>, <<"en", 19, -1>>, <<"ben", 22, -1>>,
  <<"képpen", 22, -1>>, <<"on", 19, -1>>, <<"ön", 19, -1>>, <<"képp", -1, -1>>,
  <<"kor", -1, -1>>, <<"t", -1, -1>>, <<"at", 29, -1>>, <<"et", 29, -1>>,
  <<"ként", 29, -1>>, <<"anként", 32, -1>>, <<"enként", 32, -1>>,
  <<"onként", 32, -1>>, <<"ot", 29, -1>>, <<"ért", 29, -1>>, <<"öt", 29, -1>>,
  <<"hez", -1, -1>>, <<"hoz", -1, -1>>, <<"höz", -1, -1>>, <<"vá", -1, -1>>,
  <<"vé", -1, -1>>>>
a_5 == <<<<"án", -1, 2>>, <<"én", -1, 1>>, <<"ánként", -1, 3>>>>
a_6 == <<<<"stul", -1, 2>>, <<"astul", 0, 1>>, <<"ástul", 0, 3>>, <<"stül", -1, 2>>,
  <<"estül", 3, 1>>, <<"éstül", 3, 4>>>>
a_7 == <<<<"á", -1, 1>>, <<"é", -1, 2>>>>
a_8 == <<<<"k", -1, 7>>, <<"ak", 0, 4>>, <<"ek", 0, 6>>, <<"ok", 0, 5>>,
  <<"ák", 0, 1>>, <<"ék", 0, 2>>, <<"ök", 0, 3>>>>
a_9 == <<<<"éi", -1, 7>>, <<"áéi", 0, 6>>, <<"ééi", 0, 5>>, <<"é", -1, 9>>,
  <<"ké", 3, 4>>, <<"aké", 4, 1>>, <<"eké", 4, 1>>, <<"oké", 4, 1>>, <<"áké", 4, 3>>,
  <<"éké", 4, 2>>, <<"öké", 4, 1>>, <<"éé", 3, 8>>>>
a_10 == <<<<"a", -1, 18>>, <<"ja", 0, 17>>, <<"d", -1, 16>>, <<"ad", 2, 13>>,
  <<"ed", 2, 13>>, <<"od", 2, 13>>, <<"ád", 2, 14>>, <<"éd", 2, 15>>, <<"öd", 2, 13>>,
  <<"e", -1, 18>>, <<"je", 9, 17>>, <<"nk", -1, 4>>, <<"unk", 11, 1>>,
  <<"ánk", 11, 2>>, <<"énk", 11, 3>>, <<"ünk", 11, 1>>, <<"uk", -1, 8>>,
  <<"juk", 16, 7>>, <<"ájuk", 17, 5>>, <<"ük", -1, 8>>, <<"jük", 19, 7>>,
  <<"éjük", 20, 6>>, <<"m", -1, 12>>, <<"am", 22, 9>>, <<"em", 22, 9>>,
  <<"om", 22, 9>>, <<"ám", 22, 10>>, <<"ém", 22, 11>>, <<"o", -1, 18>>,
  <<"á", -1, 19>>, <<"é", -1, 20>>>>
a_11 == <<<<"id", -1, 10>>, <<"aid", 0, 9>>, <<"jaid", 1, 6>>, <<"eid", 0, 9>>,
  <<"jeid", 3, 6>>, <<"áid", 0, 7>>, <<"éid", 0, 8>>, <<"i", -1, 15>>,
  <<"ai", 7, 14>>, <<"jai", 8, 11>>, <<"ei", 7, 14>>, <<"jei", 10, 11>>,
  <<"ái", 7, 12>>, <<"éi", 7, 13>>, <<"itek", -1, 24>>, <<"eitek", 14, 21>>,
  <<"jeitek", 15, 20>>, <<"éitek", 14, 23>>, <<"ik", -1, 29>>, <<"aik", 18, 26>>,
  <<"jaik", 19, 25>>, <<"eik", 18, 26>>, <<"jeik", 21, 25>>, <<"áik", 18, 27>>,
  <<"éik", 18, 28>>, <<"ink", -1, 20>>, <<"aink", 25, 17>>, <<"jaink", 26, 16>>,
  <<"eink", 25, 17>>, <<"jeink", 28, 16>>, <<"áink", 25, 18>>, <<"éink", 25, 19>>,
  <<"aitok", -1, 21>>, <<"jaitok", 32, 20>>, <<"áitok", -1, 22>>, <<"im", -1, 5>>,
  <<"aim", 35, 4>>, <<"jaim", 36, 1>>, <<"eim", 35, 4>>, <<"jeim", 38, 1>>,
  <<"áim", 35, 2>>, <<"éim", 35, 3>>>>
Tables == {a_0, a_1, a_2, a_3, a_4, a_5, a_6, a_7, a_8, a_9, a_10, a_11}

\* I_p1: behind the first consonant, which may be of several letters, of a word
\* that begins with a vowel, or behind the first vowel of one that does not.
r_mark_regions(w) ==
  LET c == Past(w, 1, g_v, FALSE)
      double == FindForward(w, c - 1, a_0)
  IN IF In(w, 1, g_v) /\ c # Nowhere /\ double.result # 0 THEN double.cursor
     ELSE IF In(w, 1, g_v) THEN OrEnd(c, w) ELSE OrEnd(Past(w, 1, g_v, TRUE), w)

\* What becomes of an ending of a table: "a" or "e", or else nothing.
Turn(w, p1, table, to_a, to_e) ==
  LET e == Ending(w, 0, table)
  IN IF e.result = 0 \/ e.cursor < p1 THEN w
     ELSE Put(w, e.cursor, IF e.result \in to_a THEN "a" ELSE IF e.result \in to_e THEN "e" ELSE "")

r_v_ending(w, p1) == Turn(w, p1, a_1, {1}, {2})
r_double(w) == Ending(w, 0, a_2).result # 0
r_undouble(w) == IF Len(w) > 1 THEN Splice(w, Len(w) - 2, Len(w) - 1, "") ELSE w

\* r_instrum and r_factive, of their tables
Doubled(w, p1, table) ==
  LET x == Turn(w, p1, table, {}, {})
  IN IF x # w /\ r_double(x) THEN r_undouble(x) ELSE w
r_instrum(w, p1) == Doubled(w, p1, a_3)
r_factive(w, p1) == Doubled(w, p1, a_7)

r_case(w, p1) ==
  LET x == Turn(w, p1, a_4, {}, {}) IN IF x = w THEN w ELSE r_v_ending(x, p1)
r_case_special(w, p1) == Turn(w, p1, a_5, {2, 3}, {1})
r_case_other(w, p1) == Turn(w, p1, a_6, {3}, {4})
r_plural(w, p1) == Turn(w, p1, a_8, {1}, {2})
r_owned(w, p1) == Turn(w, p1, a_9, {3, 6}, {2, 5, 8})
r_sing_owner(w, p1) == Turn(w, p1, a_10, {2, 5, 10, 14, 19}, {3, 6, 11, 15, 20})
r_plur_owner(w, p1) == Turn(w, p1, a_11, {2, 7, 12, 18, 22, 27}, {3, 8, 13, 19, 23, 28})

stem(w) ==
  LET p1 == r_mark_regions(w)
      cased == r_case_other(r_case_special(r_case(r_instrum(w, p1), p1), p1), p1)
      owned == r_owned(r_factive(cased, p1), p1)
  IN r_plural(r_plur_owner(r_sing_owner(owned, p1), p1), p1)

\* lunr.hu: the pipelines of the index and of queries.
pipeline == <<"trimmer", "stopWordFilter", "stemmer">>
searchPipeline == <<"stemmer">>
===========================================================================
