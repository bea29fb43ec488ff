------------------------------ MODULE StemFi ------------------------------
(****************************************************************************)
(* The Finnish stemmer (lunr.fi.js).                                         *)
(****************************************************************************)
EXTENDS Snowball

g_AEI == Chars("aeiä")
g_V1 == Chars("aeiouyäö")
g_V2 == Chars("aeiouäö")
g_particle_end == Chars("aeinotuyäö")

a_0 == <<<<"pa", -1, 1>>, <<"sti", -1, 2>>, <<"kaan", -1, 1>>, <<"han", -1, 1>>,
  <<"kin", -1, 1>>, <<"hän", -1, 1>>, <<"kään", -1, 1>>, <<"ko", -1, 1>>,
  <<"pä", -1, 1>>, <<"kö", -1, 1>>>>
a_1 == <<<<"lla", -1, -1>>, <<"na", -1, -1>>, <<"ssa", -1, -1>>, <<"ta", -1, -1>>,
  <<"lta", 3, -1>>, <<"sta", 3, -1>>>>
a_2 == <<<<"llä", -1, -1>>, <<"nä", -1, -1>>, <<"ssä", -1, -1>>, <<"tä", -1, -1>>,
  <<"ltä", 3, -1>>, <<"stä", 3, -1>>>>
a_3 == <<<<"lle", -1, -1>>, <<"ine", -1, -1>>>>
a_4 == <<<<"nsa", -1, 3>>, <<"mme", -1, 3>>, <<"nne", -1, 3>>, <<"ni", -1, 2>>,
  <<"si", -1, 1>>, <<"an", -1, 4>>, <<"en", -1, 6>>, <<"än", -1, 5>>,
  <<"nsä", -1, 3>>>>
a_5 == <<<<"aa", -1, -1>>, <<"ee", -1, -1>>, <<"ii", -1, -1>>, <<"oo", -1, -1>>,
  <<"uu", -1, -1>>, <<"ää", -1, -1>>, <<"öö", -1, -1>>>>
a_6 == <<<<"a", -1, 8>>, <<"lla", 0, -1>>, <<"na", 0, -1>>, <<"ssa", 0, -1>>,
  <<"ta", 0, -1>>, <<"lta", 4, -1>>, <<"sta", 4, -1>>, <<"tta", 4, 9>>,
  <<"lle", -1, -1>>, <<"ine", -1, -1>>, <<"ksi", -1, -1>>, <<"n", -1, 7>>,
  <<"han", 11, 1>>, <<"den", 11, -1>>, <<"seen", 11, -1>>,
  <<"hen", 11, 2>>, <<"tten", 11, -1>>, <<"hin", 11, 3>>,
  <<"siin", 11, -1>>, <<"hon", 11, 4>>, <<"hän", 11, 5>>, <<"hön", 11, 6>>,
  <<"ä", -1, 8>>, <<"llä", 22, -1>>, <<"nä", 22, -1>>, <<"ssä", 22, -1>>,
  <<"tä", 22, -1>>, <<"ltä", 26, -1>>, <<"stä", 26, -1>>, <<"ttä", 26, 9>>>>
a_7 == <<<<"eja", -1, -1>>, <<"mma", -1, 1>>, <<"imma", 1, -1>>, <<"mpa", -1, 1>>,
  <<"impa", 3, -1>>, <<"mmi", -1, 1>>, <<"immi", 5, -1>>, <<"mpi", -1, 1>>,
  <<"impi", 7, -1>>, <<"ejä", -1, -1>>, <<"mmä", -1, 1>>, <<"immä", 10, -1>>,
  <<"mpä", -1, 1>>, <<"impä", 12, -1>>>>
a_8 == <<<<"i", -1, -1>>, <<"j", -1, -1>>>>
a_9 == <<<<"mma", -1, 1>>, <<"imma", 0, -1>>>>
Tables == {a_0, a_1, a_2, a_3, a_4, a_5, a_6, a_7, a_8, a_9}

r_mark_regions(w) ==
  LET first == PastSyllable(w, 0, g_V1)
  IN [p1 |-> OrEnd(first, w), p2 |-> OrEnd(PastSyllable(w, first, g_V1), w)]

r_particle_etc(w, r) ==
  LET e == Ending(w, r.p1, a_0)
      goes == \/ e.result = 1 /\ In(w, e.cursor, g_particle_end)
              \/ e.result = 2 /\ r.p2 <= e.cursor
  IN IF goes THEN Cut(w, e.cursor) ELSE w

r_possessive(w, r) ==
  LET e == Ending(w, r.p1, a_4)
      x == Cut(w, e.cursor)
      Behind(table) == IF Ending(x, 0, table).result # 0 THEN x ELSE w
  IN CASE e.result = 0 -> w
       [] e.result = 1 -> IF Ends(x, "k") THEN w ELSE x
       [] e.result = 2 -> IF Ends(x, "kse") THEN Drop(x, 3) \o "ksi" ELSE x
       [] e.result = 3 -> x
       [] e.result = 4 -> Behind(a_1)
       [] e.result = 5 -> Behind(a_2)
       [] e.result = 6 -> Behind(a_3)

r_LONG(w, c, lb) == c >= lb /\ FindBackward(w, c, lb, a_5).result # 0
r_VI(w, c, lb) == EndsAt(w, c, lb, "i") /\ lb < c - 1 /\ In(w, c - 1, g_V2)

\* The entries of a_6 whose method says no.
Refused(w, p1) ==
  LET Before(k) == Len(w) - Len(a_6[k + 1][1])
  IN {k \in {13, 16, 18} : ~r_VI(w, Before(k), p1)} \cup {k \in {14} : ~r_LONG(w, Before(k), p1)}

\* ok is B_ending_removed
r_case_ending(w, r) ==
  LET e == IF Len(w) < r.p1 THEN Missed
           ELSE FindAmong(w, Len(w), r.p1, TRUE, a_6, Refused(w, r.p1))
      k == e.result
      c == e.cursor
      long == r_LONG(w, c, 0) \/ EndsAt(w, c, 0, "ie")
      stays == \/ k = 0
               \/ k \in 1..6 /\ ~In(w, c, {<<"a", "e", "i", "o", "ä", "ö">>[k]})
               \/ k = 8 /\ ~(In(w, c, g_V1) /\ Out(w, c - 1, g_V1))
               \/ k = 9 /\ ~In(w, c, {"e"})
  IN IF stays THEN No(w) ELSE Yes(Cut(w, IF k = 7 /\ long THEN c - 1 ELSE c))

\* An ending of a comparative, but not "po" and it.
Comparative(w, p2, table) ==
  LET e == Ending(w, p2, table)
  IN IF e.result = 0 \/ (e.result = 1 /\ EndsAt(w, e.cursor, 0, "po")) THEN w
     ELSE Cut(w, e.cursor)

r_other_endings(w, r) == Comparative(w, r.p2, a_7)

r_i_plural(w, r) == IF Ending(w, r.p1, a_8).result # 0 THEN Drop(w, 1) ELSE w

r_t_plural(w, r) ==
  LET n == Len(w) - 1
  IN IF EndsAt(w, n + 1, r.p1, "t") /\ r.p1 < n /\ In(w, n, g_V1)
     THEN Comparative(Cut(w, n), r.p2, a_9) ELSE w

\* The last letter goes if the word, from p1 on, ends in one of these.
Trim(w, p1, ends) == IF \E s \in ends : EndsAt(w, Len(w), p1, s) THEN Drop(w, 1) ELSE w

r_tidy(w, r) ==
  LET x == IF r_LONG(w, Len(w), r.p1) THEN Drop(w, 1) ELSE w
      n == Len(x)
      y == IF r.p1 < n - 1 /\ In(x, n, g_AEI) /\ Out(x, n - 1, g_V1) THEN Drop(x, 1) ELSE x
      z == Trim(Trim(y, r.p1, {"oj", "uj"}), r.p1, {"jo"})
      k == Greatest({0} \cup {i \in 1..Len(z) : At(z, i) \notin g_V1})
  IN IF Len(w) < r.p1 THEN w
     ELSE IF k > 1 /\ At(z, k - 1) = At(z, k) THEN Splice(z, k - 1, k, "") ELSE z

stem(w) ==
  LET r == r_mark_regions(w)
      cased == r_case_ending(r_possessive(r_particle_etc(w, r), r), r)
      x == r_other_endings(cased.word, r)
  IN r_tidy(IF cased.ok THEN r_i_plural(x, r) ELSE r_t_plural(x, r), r)

\* lunr.fi: the pipelines of the index and of queries.
pipeline == <<"trimmer", "stopWordFilter", "stemmer">>
searchPipeline == <<"stemmer">>
===========================================================================
