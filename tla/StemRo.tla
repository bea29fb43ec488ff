------------------------------ MODULE StemRo ------------------------------
(****************************************************************************)
(* The Romanian stemmer (lunr.ro.js).  U and I are a u and i that are        *)
(* consonants; the letters a with a breve, s and t with a cedilla, which a   *)
(* string of TLA+ cannot hold, are written ñ, ò and ó, which stand in the    *)
(* same order.                                                               *)
(****************************************************************************)
EXTENDS Snowball

g_v == Chars("aeiouâîñ")

a_0 == <<<<"", -1, 3>>, <<"I", 0, 1>>, <<"U", 0, 2>>>>
a_1 == <<<<"ea", -1, 3>>, <<"aóia", -1, 7>>, <<"aua", -1, 2>>, <<"iua", -1, 4>>,
  <<"aóie", -1, 7>>, <<"ele", -1, 3>>, <<"ile", -1, 5>>, <<"iile", 6, 4>>,
  <<"iei", -1, 4>>, <<"atei", -1, 6>>, <<"ii", -1, 4>>, <<"ului", -1, 1>>,
  <<"ul", -1, 1>>, <<"elor", -1, 3>>, <<"ilor", -1, 4>>, <<"iilor", 14, 4>>>>
a_2 == <<<<"icala", -1, 4>>, <<"iciva", -1, 4>>, <<"ativa", -1, 5>>,
  <<"itiva", -1, 6>>, <<"icale", -1, 4>>, <<"aóiune", -1, 5>>, <<"ióiune", -1, 6>>,
  <<"atoare", -1, 5>>, <<"itoare", -1, 6>>, <<"ñtoare", -1, 5>>, <<"icitate", -1, 4>>,
  <<"abilitate", -1, 1>>, <<"ibilitate", -1, 2>>, <<"ivitate", -1, 3>>,
  <<"icive", -1, 4>>, <<"ative", -1, 5>>, <<"itive", -1, 6>>, <<"icali", -1, 4>>,
  <<"atori", -1, 5>>, <<"icatori", 18, 4>>, <<"itori", -1, 6>>, <<"ñtori", -1, 5>>,
  <<"icitati", -1, 4>>, <<"abilitati", -1, 1>>, <<"ivitati", -1, 3>>,
  <<"icivi", -1, 4>>, <<"ativi", -1, 5>>, <<"itivi", -1, 6>>, <<"icitñi", -1, 4>>,
  <<"abilitñi", -1, 1>>, <<"ivitñi", -1, 3>>, <<"icitñói", -1, 4>>,
  <<"abilitñói", -1, 1>>, <<"ivitñói", -1, 3>>, <<"ical", -1, 4>>, <<"ator", -1, 5>>,
  <<"icator", 35, 4>>, <<"itor", -1, 6>>, <<"ñtor", -1, 5>>, <<"iciv", -1, 4>>,
  <<"ativ", -1, 5>>, <<"itiv", -1, 6>>, <<"icalñ", -1, 4>>, <<"icivñ", -1, 4>>,
  <<"ativñ", -1, 5>>, <<"itivñ", -1, 6>>>>
a_3 == <<<<"ica", -1, 1>>, <<"abila", -1, 1>>, <<"ibila", -1, 1>>, <<"oasa", -1, 1>>,
  <<"ata", -1, 1>>, <<"ita", -1, 1>>, <<"anta", -1, 1>>, <<"ista", -1, 3>>,
  <<"uta", -1, 1>>, <<"iva", -1, 1>>, <<"ic", -1, 1>>, <<"ice", -1, 1>>,
  <<"abile", -1, 1>>, <<"ibile", -1, 1>>, <<"isme", -1, 3>>, <<"iune", -1, 2>>,
  <<"oase", -1, 1>>, <<"ate", -1, 1>>, <<"itate", 17, 1>>, <<"ite", -1, 1>>,
  <<"ante", -1, 1>>, <<"iste", -1, 3>>, <<"ute", -1, 1>>, <<"ive", -1, 1>>,
  <<"ici", -1, 1>>, <<"abili", -1, 1>>, <<"ibili", -1, 1>>, <<"iuni", -1, 2>>,
  <<"atori", -1, 1>>, <<"osi", -1, 1>>, <<"ati", -1, 1>>, <<"itati", 30, 1>>,
  <<"iti", -1, 1>>, <<"anti", -1, 1>>, <<"isti", -1, 3>>, <<"uti", -1, 1>>,
  <<"iòti", -1, 3>>, <<"ivi", -1, 1>>, <<"itñi", -1, 1>>, <<"oòi", -1, 1>>,
  <<"itñói", -1, 1>>, <<"abil", -1, 1>>, <<"ibil", -1, 1>>, <<"ism", -1, 3>>,
  <<"ator", -1, 1>>, <<"os", -1, 1>>, <<"at", -1, 1>>, <<"it", -1, 1>>,
  <<"ant", -1, 1>>, <<"ist", -1, 3>>, <<"ut", -1, 1>>, <<"iv", -1, 1>>,
  <<"icñ", -1, 1>>, <<"abilñ", -1, 1>>, <<"ibilñ", -1, 1>>, <<"oasñ", -1, 1>>,
  <<"atñ", -1, 1>>, <<"itñ", -1, 1>>, <<"antñ", -1, 1>>, <<"istñ", -1, 3>>,
  <<"utñ", -1, 1>>, <<"ivñ", -1, 1>>>>
a_4 == <<<<"ea", -1, 1>>, <<"ia", -1, 1>>, <<"esc", -1, 1>>, <<"ñsc", -1, 1>>,
  <<"ind", -1, 1>>, <<"ând", -1, 1>>, <<"are", -1, 1>>, <<"ere", -1, 1>>,
  <<"ire", -1, 1>>, <<"âre", -1, 1>>, <<"se", -1, 2>>, <<"ase", 10, 1>>,
  <<"sese", 10, 2>>, <<"ise", 10, 1>>, <<"use", 10, 1>>, <<"âse", 10, 1>>,
  <<"eòte", -1, 1>>, <<"ñòte", -1, 1>>, <<"eze", -1, 1>>, <<"ai", -1, 1>>,
  <<"eai", 19, 1>>, <<"iai", 19, 1>>, <<"sei", -1, 2>>, <<"eòti", -1, 1>>,
  <<"ñòti", -1, 1>>, <<"ui", -1, 1>>, <<"ezi", -1, 1>>, <<"âi", -1, 1>>,
  <<"aòi", -1, 1>>, <<"seòi", -1, 2>>, <<"aseòi", 29, 1>>, <<"seseòi", 29, 2>>,
  <<"iseòi", 29, 1>>, <<"useòi", 29, 1>>, <<"âseòi", 29, 1>>, <<"iòi", -1, 1>>,
  <<"uòi", -1, 1>>, <<"âòi", -1, 1>>, <<"aói", -1, 2>>, <<"eaói", 38, 1>>,
  <<"iaói", 38, 1>>, <<"eói", -1, 2>>, <<"iói", -1, 2>>, <<"âói", -1, 2>>,
  <<"arñói", -1, 1>>, <<"serñói", -1, 2>>, <<"aserñói", 45, 1>>,
  <<"seserñói", 45, 2>>, <<"iserñói", 45, 1>>, <<"userñói", 45, 1>>,
  <<"âserñói", 45, 1>>, <<"irñói", -1, 1>>, <<"urñói", -1, 1>>, <<"ârñói", -1, 1>>,
  <<"am", -1, 1>>, <<"eam", 54, 1>>, <<"iam", 54, 1>>, <<"em", -1, 2>>,
  <<"asem", 57, 1>>, <<"sesem", 57, 2>>, <<"isem", 57, 1>>, <<"usem", 57, 1>>,
  <<"âsem", 57, 1>>, <<"im", -1, 2>>, <<"âm", -1, 2>>, <<"ñm", -1, 2>>,
  <<"arñm", 65, 1>>, <<"serñm", 65, 2>>, <<"aserñm", 67, 1>>, <<"seserñm", 67, 2>>,
  <<"iserñm", 67, 1>>, <<"userñm", 67, 1>>, <<"âserñm", 67, 1>>, <<"irñm", 65, 1>>,
  <<"urñm", 65, 1>>, <<"ârñm", 65, 1>>, <<"au", -1, 1>>, <<"eau", 76, 1>>,
  <<"iau", 76, 1>>, <<"indu", -1, 1>>, <<"ându", -1, 1>>, <<"ez", -1, 1>>,
  <<"eascñ", -1, 1>>, <<"arñ", -1, 1>>, <<"serñ", -1, 2>>, <<"aserñ", 84, 1>>,
  <<"seserñ", 84, 2>>, <<"iserñ", 84, 1>>, <<"userñ", 84, 1>>, <<"âserñ", 84, 1>>,
  <<"irñ", -1, 1>>, <<"urñ", -1, 1>>, <<"ârñ", -1, 1>>, <<"eazñ", -1, 1>>>>
a_5 == <<<<"a", -1, 1>>, <<"e", -1, 1>>, <<"ie", 1, 1>>, <<"i", -1, 1>>,
  <<"ñ", -1, 1>>>>
Tables == {a_0, a_1, a_2, a_3, a_4, a_5}

\* habr1
Marked(w, done, n) ==
  IF In(done, n - 1, g_v) /\ In(w, n + 1, g_v)
  THEN CASE At(w, n) = "u" -> "U" [] At(w, n) = "i" -> "I" [] OTHER -> At(w, n)
  ELSE At(w, n)

r_prelude(w) == Pass(w, LAMBDA done, n : Marked(w, done, n))

\* pV is behind a first letter that only consonants follow.
r_mark_regions(w) ==
  LET first == PastSyllable(w, 0, g_v)
      second == PastSyllable(w, first, g_v)
      verb == VerbRegion(w, g_v)
  IN [pV |-> IF verb = Nowhere /\ Out(w, 2, g_v) THEN 1 ELSE OrEnd(verb, w),
      p1 |-> OrEnd(first, w), p2 |-> OrEnd(second, w)]

r_postlude(w) ==
  Pass(w, LAMBDA done, n : <<"i", "u", At(w, n)>>[FindForward(w, n - 1, a_0).result])

r_step_0(w, r) ==
  LET e == Ending(w, 0, a_1)
  IN IF e.result = 0 \/ e.cursor < r.p1 \/ (e.result = 5 /\ EndsAt(w, e.cursor, 0, "ab"))
     THEN w ELSE Put(w, e.cursor, <<"", "a", "e", "i", "i", "at", "aói">>[e.result])

r_combo_suffix(w, r) ==
  LET e == Ending(w, 0, a_2)
  IN IF e.result = 0 \/ e.cursor < r.p1 THEN No(w)
     ELSE Yes(Put(w, e.cursor, <<"abil", "ibil", "iv", "ic", "at", "it">>[e.result]))

\* As often as there is one.
RECURSIVE Combos(_, _)
Combos(w, r) == LET x == r_combo_suffix(w, r) IN IF x.ok THEN Combos(x.word, r) ELSE w

\* ok is B_standard_suffix_removed
r_standard_suffix(w, r) ==
  LET x == Combos(w, r)
      e == Ending(x, 0, a_3)
      c == e.cursor
      short == Cut(x, c)
  IN IF e.result = 0 \/ c < r.p2 THEN [word |-> x, ok |-> x # w]
     ELSE CASE e.result = 1 -> Yes(short)
            [] e.result = 2 -> Yes(IF Ends(short, "ó") THEN Put(x, c - 1, "t") ELSE x)
            [] e.result = 3 -> Yes(short \o "ist")

r_verb_suffix(w, r) ==
  LET e == Ending(w, r.pV, a_4)
      c == e.cursor
      stays == e.result = 1 /\ ~(r.pV < c /\ (Out(w, c, g_v) \/ In(w, c, {"u"})))
  IN IF e.result = 0 \/ stays THEN w ELSE Cut(w, c)

r_vowel_suffix(w, r) ==
  LET e == Ending(w, 0, a_5)
  IN IF e.result = 1 /\ r.pV <= e.cursor THEN Cut(w, e.cursor) ELSE w

stem(w) ==
  LET x == r_prelude(w)
      r == r_mark_regions(x)
      standard == r_standard_suffix(r_step_0(x, r), r)
      y == IF standard.ok THEN standard.word ELSE r_verb_suffix(standard.word, r)
  IN r_postlude(r_vowel_suffix(y, r))

\* lunr.ro: the pipelines of the index and of queries.
pipeline == <<"trimmer", "stopWordFilter", "stemmer">>
searchPipeline == <<"stemmer">>
===========================================================================
