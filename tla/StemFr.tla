------------------------------ MODULE StemFr ------------------------------
(****************************************************************************)
(* The French stemmer (lunr.fr.js).  U, I and Y are a u, i and y that are    *)
(* consonants.                                                               *)
(****************************************************************************)
EXTENDS Snowball

g_v == Chars("aeiouyàâèéêëîïôùû")
g_keep_with_s == Chars("aiosuè")

a_0 == <<<<"col", -1, -1>>, <<"par", -1, -1>>, <<"tap", -1, -1>>>>
a_1 == <<<<"", -1, 4>>, <<"I", 0, 1>>, <<"U", 0, 2>>, <<"Y", 0, 3>>>>
a_2 == <<<<"iqU", -1, 3>>, <<"abl", -1, 3>>, <<"Ièr", -1, 4>>, <<"ièr", -1, 4>>,
  <<"eus", -1, 2>>, <<"iv", -1, 1>>>>
a_3 == <<<<"ic", -1, 2>>, <<"abil", -1, 1>>, <<"iv", -1, 3>>>>
a_4 == <<<<"iqUe", -1, 1>>, <<"atrice", -1, 2>>, <<"ance", -1, 1>>, <<"ence", -1, 5>>,
  <<"logie", -1, 3>>, <<"able", -1, 1>>, <<"isme", -1, 1>>, <<"euse", -1, 11>>,
  <<"iste", -1, 1>>, <<"ive", -1, 8>>, <<"if", -1, 8>>, <<"usion", -1, 4>>,
  <<"ation", -1, 2>>, <<"ution", -1, 4>>, <<"ateur", -1, 2>>, <<"iqUes", -1, 1>>,
  <<"atrices", -1, 2>>, <<"ances", -1, 1>>, <<"ences", -1, 5>>, <<"logies", -1, 3>>,
  <<"ables", -1, 1>>, <<"ismes", -1, 1>>, <<"euses", -1, 11>>, <<"istes", -1, 1>>,
  <<"ives", -1, 8>>, <<"ifs", -1, 8>>, <<"usions", -1, 4>>, <<"ations", -1, 2>>,
  <<"utions", -1, 4>>, <<"ateurs", -1, 2>>, <<"ments", -1, 15>>, <<"ements", 30, 6>>,
  <<"issements", 31, 12>>, <<"ités", -1, 7>>, <<"ment", -1, 15>>, <<"ement", 34, 6>>,
  <<"issement", 35, 12>>, <<"amment", 34, 13>>, <<"emment", 34, 14>>,
  <<"aux", -1, 10>>, <<"eaux", 39, 9>>, <<"eux", -1, 1>>, <<"ité", -1, 7>>>>
a_5 == <<<<"ira", -1, 1>>, <<"ie", -1, 1>>, <<"isse", -1, 1>>, <<"issante", -1, 1>>,
  <<"i", -1, 1>>, <<"irai", 4, 1>>, <<"ir", -1, 1>>, <<"iras", -1, 1>>,
  <<"ies", -1, 1>>, <<"îmes", -1, 1>>, <<"isses", -1, 1>>, <<"issantes", -1, 1>>,
  <<"îtes", -1, 1>>, <<"is", -1, 1>>, <<"irais", 13, 1>>, <<"issais", 13, 1>>,
  <<"irions", -1, 1>>, <<"issions", -1, 1>>, <<"irons", -1, 1>>, <<"issons", -1, 1>>,
  <<"issants", -1, 1>>, <<"it", -1, 1>>, <<"irait", 21, 1>>, <<"issait", 21, 1>>,
  <<"issant", -1, 1>>, <<"iraIent", -1, 1>>, <<"issaIent", -1, 1>>,
  <<"irent", -1, 1>>, <<"issent", -1, 1>>, <<"iront", -1, 1>>, <<"ît", -1, 1>>,
  <<"iriez", -1, 1>>, <<"issiez", -1, 1>>, <<"irez", -1, 1>>, <<"issez", -1, 1>>>>
a_6 == <<<<"a", -1, 3>>, <<"era", 0, 2>>, <<"asse", -1, 3>>, <<"ante", -1, 3>>,
  <<"ée", -1, 2>>, <<"ai", -1, 3>>, <<"erai", 5, 2>>, <<"er", -1, 2>>,
  <<"as", -1, 3>>, <<"eras", 8, 2>>, <<"âmes", -1, 3>>, <<"asses", -1, 3>>,
  <<"antes", -1, 3>>, <<"âtes", -1, 3>>, <<"ées", -1, 2>>, <<"ais", -1, 3>>,
  <<"erais", 15, 2>>, <<"ions", -1, 1>>, <<"erions", 17, 2>>, <<"assions", 17, 3>>,
  <<"erons", -1, 2>>, <<"ants", -1, 3>>, <<"és", -1, 2>>, <<"ait", -1, 3>>,
  <<"erait", 23, 2>>, <<"ant", -1, 3>>, <<"aIent", -1, 3>>, <<"eraIent", 26, 2>>,
  <<"èrent", -1, 2>>, <<"assent", -1, 3>>, <<"eront", -1, 2>>, <<"ât", -1, 3>>,
  <<"ez", -1, 2>>, <<"iez", 32, 2>>, <<"eriez", 33, 2>>, <<"assiez", 33, 3>>,
  <<"erez", 32, 2>>, <<"é", -1, 2>>>>
a_7 == <<<<"e", -1, 3>>, <<"Ière", 0, 2>>, <<"ière", 0, 2>>, <<"ion", -1, 1>>,
  <<"Ier", -1, 2>>, <<"ier", -1, 2>>, <<"ë", -1, 4>>>>
a_8 == <<<<"ell", -1, -1>>, <<"eill", -1, -1>>, <<"enn", -1, -1>>, <<"onn", -1, -1>>,
  <<"ett", -1, -1>>>>
Tables == {a_0, a_1, a_2, a_3, a_4, a_5, a_6, a_7, a_8}

\* habr1 and habr2 behind a vowel or a q, ...
Marked(w, done, n) ==
  LET ch == At(w, n)
      between == In(done, n - 1, g_v) /\ In(w, n + 1, g_v)
  IN CASE ch = "u" /\ (between \/ In(done, n - 1, {"q"})) -> "U"
       [] ch = "i" /\ between -> "I"
       [] ch = "y" /\ In(done, n - 1, g_v) -> "Y"
       [] OTHER -> ch

\* ... which a y is still when it is marked for the vowel behind it.
r_prelude(w) ==
  LET x == Pass(w, LAMBDA done, n : Marked(w, done, n))
  IN Pass(x, LAMBDA done, n : IF At(x, n) = "y" /\ In(x, n + 1, g_v) THEN "Y" ELSE At(x, n))

r_mark_regions(w) ==
  LET first == PastSyllable(w, 0, g_v)
      second == PastSyllable(w, first, g_v)
      prefix == FindForward(w, 0, a_0)
      vowel == Past(w, 1, g_v, TRUE)
  IN [p1 |-> OrEnd(first, w), p2 |-> OrEnd(second, w),
      pV |-> IF In(w, 1, g_v) /\ In(w, 2, g_v) /\ Len(w) > 2 THEN 3
             ELSE IF prefix.result # 0 THEN prefix.cursor ELSE OrEnd(vowel, w)]

r_postlude(w) ==
  Pass(w, LAMBDA done, n : <<"i", "u", "y", At(w, n)>>[FindForward(w, n - 1, a_1).result])

\* What goes before "ement" ...
BeforeEment(w, r) ==
  LET e == Ending(w, 0, a_2)
      x == Cut(w, e.cursor)
  IN CASE e.result = 1 /\ r.p2 <= e.cursor -> Shed(x, "at", r.p2)
       [] e.result \in {2, 3} /\ r.p2 <= e.cursor -> x
       [] e.result = 2 /\ r.p1 <= e.cursor -> x \o "eux"
       [] e.result = 4 /\ r.pV <= e.cursor -> x \o "i"
       [] OTHER -> w

\* ... and before "ité".
BeforeIte(w, r) ==
  LET e == Ending(w, 0, a_3)
  IN IF e.result = 0 THEN w
     ELSE IF r.p2 <= e.cursor THEN Cut(w, e.cursor)
     ELSE Put(w, e.cursor, <<"abl", "iqU", SubSeq(w, e.cursor + 1, Len(w))>>[e.result])

r_standard_suffix(w, r) ==
  LET e == Ending(w, 0, a_4)
      k == e.result
      c == e.cursor
      x == Cut(w, c)
  IN CASE k = 0 \/ (k \in {1, 2, 3, 4, 5, 7, 8} /\ c < r.p2)
            \/ (k \in {10, 11, 12} /\ c < r.p1) \/ (k \in {6, 13, 14, 15} /\ c < r.pV) -> No(w)
       [] k = 1 -> Yes(x)
       [] k = 2 -> Yes(Instead(x, "ic", r.p2, "iqU"))
       [] k \in {3, 4, 5} -> Yes(x \o <<"log", "u", "ent">>[k - 2])
       [] k = 6 -> Yes(BeforeEment(x, r))
       [] k = 7 -> Yes(BeforeIte(x, r))
       [] k = 8 -> Yes(IF Ends(x, "at") /\ r.p2 <= c - 2
                       THEN Instead(Drop(x, 2), "ic", r.p2, "iqU") ELSE x)
       [] k \in {9, 10} -> Yes(x \o <<"eau", "al">>[k - 8])
       [] k = 11 -> Yes(IF r.p2 <= c THEN x ELSE x \o "eux")
       [] k = 12 -> IF Out(w, c, g_v) THEN Yes(x) ELSE No(w)
       [] k \in {13, 14} -> No(x \o <<"ant", "ent">>[k - 12])
       [] k = 15 -> No(IF In(w, c, g_v) /\ r.pV < c THEN x ELSE w)

r_i_verb_suffix(w, r) ==
  LET e == Ending(w, r.pV, a_5)
  IN IF e.result # 0 /\ r.pV < e.cursor /\ Out(w, e.cursor, g_v)
     THEN Yes(Cut(w, e.cursor)) ELSE No(w)

r_verb_suffix(w, r) ==
  LET e == Ending(w, r.pV, a_6)
  IN IF e.result = 0 \/ (e.result = 1 /\ e.cursor < r.p2) THEN No(w)
     ELSE Yes(IF e.result = 3 THEN Shed(Cut(w, e.cursor), "e", r.pV) ELSE Cut(w, e.cursor))

r_residual_suffix(w, r) ==
  LET x == IF Ends(w, "s") /\ Out(w, Len(w) - 1, g_keep_with_s) THEN Drop(w, 1) ELSE w
      e == Ending(x, r.pV, a_7)
      Behind(s) == EndsAt(x, e.cursor, r.pV, s)
      goes == CASE e.result = 1 -> r.p2 <= e.cursor /\ (Behind("s") \/ Behind("t"))
                [] e.result = 3 -> TRUE
                [] e.result = 4 -> Behind("gu")
                [] OTHER -> FALSE
  IN IF e.result = 2 THEN Put(x, e.cursor, "i") ELSE IF goes THEN Cut(x, e.cursor) ELSE x

r_un_double(w) == IF Ending(w, 0, a_8).result # 0 THEN Drop(w, 1) ELSE w

r_un_accent(w) ==
  LET i == Greatest({0} \cup {j \in 1..Len(w) : At(w, j) \in g_v})
  IN IF i < Len(w) /\ In(w, i, {"é", "è"}) THEN Splice(w, i - 1, i, "e") ELSE w

\* The first of the suffixes that is there, or the residual one.
habr5(w, r) ==
  LET standard == r_standard_suffix(w, r)
      i_verb == r_i_verb_suffix(standard.word, r)
      verb == r_verb_suffix(i_verb.word, r)
      x == IF standard.ok THEN standard.word ELSE IF i_verb.ok THEN i_verb.word ELSE verb.word
      last == Len(x) - 1
  IN IF ~(standard.ok \/ i_verb.ok \/ verb.ok) THEN r_residual_suffix(x, r)
     ELSE IF Ends(x, "Y") THEN Put(x, last, "i")
     ELSE IF Ends(x, "ç") THEN Put(x, last, "c") ELSE x

stem(w) ==
  LET x == r_prelude(w)
  IN r_postlude(r_un_accent(r_un_double(habr5(x, r_mark_regions(x)))))

\* lunr.fr: the pipelines of the index and of queries.
pipeline == <<"trimmer", "stopWordFilter", "stemmer">>
searchPipeline == <<"stemmer">>
===========================================================================
