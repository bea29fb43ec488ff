------------------------------ MODULE StemIt ------------------------------
(****************************************************************************)
(* The Italian stemmer (lunr.it.js).  U and I are a u and i that are         *)
(* consonants.                                                               *)
(****************************************************************************)
EXTENDS Snowball

g_v == Chars("aeiouàèìòù")
g_AEIO == Chars("aeioàèìò")
g_CG == Chars("cg")

a_0 == <<<<"", -1, 7>>, <<"qu", 0, 6>>, <<"á", 0, 1>>, <<"é", 0, 2>>, <<"í", 0, 3>>,
  <<"ó", 0, 4>>, <<"ú", 0, 5>>>>
a_1 == <<<<"", -1, 3>>, <<"I", 0, 1>>, <<"U", 0, 2>>>>
a_2 == <<<<"la", -1, -1>>, <<"cela", 0, -1>>, <<"gliela", 0, -1>>, <<"mela", 0, -1>>,
  <<"tela", 0, -1>>, <<"vela", 0, -1>>, <<"le", -1, -1>>, <<"cele", 6, -1>>,
  <<"gliele", 6, -1>>, <<"mele", 6, -1>>, <<"tele", 6, -1>>, <<"vele", 6, -1>>,
  <<"ne", -1, -1>>, <<"cene", 12, -1>>, <<"gliene", 12, -1>>, <<"mene", 12, -1>>,
  <<"sene", 12, -1>>, <<"tene", 12, -1>>, <<"vene", 12, -1>>, <<"ci", -1, -1>>,
  <<"li", -1, -1>>, <<"celi", 20, -1>>, <<"glieli", 20, -1>>, <<"meli", 20, -1>>,
  <<"teli", 20, -1>>, <<"veli", 20, -1>>, <<"gli", 20, -1>>, <<"mi", -1, -1>>,
  <<"si", -1, -1>>, <<"ti", -1, -1>>, <<"vi", -1, -1>>, <<"lo", -1, -1>>,
  <<"celo", 31, -1>>, <<"glielo", 31, -1>>, <<"melo", 31, -1>>, <<"telo", 31, -1>>,
  <<"velo", 31, -1>>>>
a_3 == <<<<"ando", -1, 1>>, <<"endo", -1, 1>>, <<"ar", -1, 2>>, <<"er", -1, 2>>,
  <<"ir", -1, 2>>>>
a_4 == <<<<"ic", -1, -1>>, <<"abil", -1, -1>>, <<"os", -1, -1>>, <<"iv", -1, 1>>>>
a_5 == <<<<"ic", -1, 1>>, <<"abil", -1, 1>>, <<"iv", -1, 1>>>>
a_6 == <<<<"ica", -1, 1>>, <<"logia", -1, 3>>, <<"osa", -1, 1>>, <<"ista", -1, 1>>,
  <<"iva", -1, 9>>, <<"anza", -1, 1>>, <<"enza", -1, 5>>, <<"ice", -1, 1>>,
  <<"atrice", 7, 1>>, <<"iche", -1, 1>>, <<"logie", -1, 3>>, <<"abile", -1, 1>>,
  <<"ibile", -1, 1>>, <<"usione", -1, 4>>, <<"azione", -1, 2>>, <<"uzione", -1, 4>>,
  <<"atore", -1, 2>>, <<"ose", -1, 1>>, <<"ante", -1, 1>>, <<"mente", -1, 1>>,
  <<"amente", 19, 7>>, <<"iste", -1, 1>>, <<"ive", -1, 9>>, <<"anze", -1, 1>>,
  <<"enze", -1, 5>>, <<"ici", -1, 1>>, <<"atrici", 25, 1>>, <<"ichi", -1, 1>>,
  <<"abili", -1, 1>>, <<"ibili", -1, 1>>, <<"ismi", -1, 1>>, <<"usioni", -1, 4>>,
  <<"azioni", -1, 2>>, <<"uzioni", -1, 4>>, <<"atori", -1, 2>>, <<"osi", -1, 1>>,
  <<"anti", -1, 1>>, <<"amenti", -1, 6>>, <<"imenti", -1, 6>>, <<"isti", -1, 1>>,
  <<"ivi", -1, 9>>, <<"ico", -1, 1>>, <<"ismo", -1, 1>>, <<"oso", -1, 1>>,
  <<"amento", -1, 6>>, <<"imento", -1, 6>>, <<"ivo", -1, 9>>, <<"ità", -1, 8>>,
  <<"istà", -1, 1>>, <<"istè", -1, 1>>, <<"istì", -1, 1>>>>
a_7 == <<<<"isca", -1, 1>>, <<"enda", -1, 1>>, <<"ata", -1, 1>>, <<"ita", -1, 1>>,
  <<"uta", -1, 1>>, <<"ava", -1, 1>>, <<"eva", -1, 1>>, <<"iva", -1, 1>>,
  <<"erebbe", -1, 1>>, <<"irebbe", -1, 1>>, <<"isce", -1, 1>>, <<"ende", -1, 1>>,
  <<"are", -1, 1>>, <<"ere", -1, 1>>, <<"ire", -1, 1>>, <<"asse", -1, 1>>,
  <<"ate", -1, 1>>, <<"avate", 16, 1>>, <<"evate", 16, 1>>, <<"ivate", 16, 1>>,
  <<"ete", -1, 1>>, <<"erete", 20, 1>>, <<"irete", 20, 1>>, <<"ite", -1, 1>>,
  <<"ereste", -1, 1>>, <<"ireste", -1, 1>>, <<"ute", -1, 1>>, <<"erai", -1, 1>>,
  <<"irai", -1, 1>>, <<"isci", -1, 1>>, <<"endi", -1, 1>>, <<"erei", -1, 1>>,
  <<"irei", -1, 1>>, <<"assi", -1, 1>>, <<"ati", -1, 1>>, <<"iti", -1, 1>>,
  <<"eresti", -1, 1>>, <<"iresti", -1, 1>>, <<"uti", -1, 1>>, <<"avi", -1, 1>>,
  <<"evi", -1, 1>>, <<"ivi", -1, 1>>, <<"isco", -1, 1>>, <<"ando", -1, 1>>,
  <<"endo", -1, 1>>, <<"Yamo", -1, 1>>, <<"iamo", -1, 1>>, <<"avamo", -1, 1>>,
  <<"evamo", -1, 1>>, <<"ivamo", -1, 1>>, <<"eremo", -1, 1>>, <<"iremo", -1, 1>>,
  <<"assimo", -1, 1>>, <<"ammo", -1, 1>>, <<"emmo", -1, 1>>, <<"eremmo", 54, 1>>,
  <<"iremmo", 54, 1>>, <<"immo", -1, 1>>, <<"ano", -1, 1>>, <<"iscano", 58, 1>>,
  <<"avano", 58, 1>>, <<"evano", 58, 1>>, <<"ivano", 58, 1>>, <<"eranno", -1, 1>>,
  <<"iranno", -1, 1>>, <<"ono", -1, 1>>, <<"iscono", 65, 1>>, <<"arono", 65, 1>>,
  <<"erono", 65, 1>>, <<"irono", 65, 1>>, <<"erebbero", -1, 1>>,
  <<"irebbero", -1, 1>>, <<"assero", -1, 1>>, <<"essero", -1, 1>>,
  <<"issero", -1, 1>>, <<"ato", -1, 1>>, <<"ito", -1, 1>>, <<"uto", -1, 1>>,
  <<"avo", -1, 1>>, <<"evo", -1, 1>>, <<"ivo", -1, 1>>, <<"ar", -1, 1>>,
  <<"ir", -1, 1>>, <<"erà", -1, 1>>, <<"irà", -1, 1>>, <<"erò", -1, 1>>,
  <<"irò", -1, 1>>>>
Tables == {a_0, a_1, a_2, a_3, a_4, a_5, a_6, a_7}

\* The accents of the table, and the u of qu.
Accented(w, n) ==
  IF At(w, n) = "u" /\ In(w, n - 1, {"q"}) THEN "U"
  ELSE <<"à", "è", "ì", "ò", "ù", "q", At(w, n)>>[FindForward(w, n - 1, a_0).result]

\* habr1
Marked(w, done, n) ==
  IF In(done, n - 1, g_v) /\ In(w, n + 1, g_v)
  THEN CASE At(w, n) = "u" -> "U" [] At(w, n) = "i" -> "I" [] OTHER -> At(w, n)
  ELSE At(w, n)

r_prelude(w) ==
  LET x == Pass(w, LAMBDA done, n : Accented(w, n))
  IN Pass(x, LAMBDA done, n : Marked(x, done, n))

r_mark_regions(w) ==
  LET first == PastSyllable(w, 0, g_v)
      second == PastSyllable(w, first, g_v)
  IN [pV |-> OrEnd(VerbRegion(w, g_v), w), p1 |-> OrEnd(first, w), p2 |-> OrEnd(second, w)]

r_postlude(w) ==
  Pass(w, LAMBDA done, n : <<"i", "u", At(w, n)>>[FindForward(w, n - 1, a_1).result])

r_attached_pronoun(w, r) ==
  LET pronoun == Ending(w, 0, a_2)
      verb == FindBackward(w, pronoun.cursor, 0, a_3)
  IN IF pronoun.result = 0 \/ verb.result = 0 \/ verb.cursor < r.pV THEN w
     ELSE Put(w, pronoun.cursor, <<"", "e">>[verb.result])

\* What goes before "amente"
BeforeAmente(w, r) ==
  LET e == Ending(w, 0, a_4)
      x == Cut(w, e.cursor)
  IN IF e.result = 0 \/ e.cursor < r.p2 THEN w
     ELSE IF e.result = 1 THEN Shed(x, "at", r.p2) ELSE x

r_standard_suffix(w, r) ==
  LET e == Ending(w, 0, a_6)
      k == e.result
      c == e.cursor
      x == Cut(w, c)
      ita == Ending(x, 0, a_5)
      at == Shed(x, "at", r.p2)
  IN CASE k = 0 \/ (k = 6 /\ c < r.pV) \/ (k = 7 /\ c < r.p1)
            \/ (k \notin {6, 7} /\ c < r.p2) -> No(w)
       [] k \in {1, 6} -> Yes(x)
       [] k = 2 -> Yes(Shed(x, "ic", r.p2))
       [] k \in {3, 4, 5} -> Yes(x \o <<"log", "u", "ente">>[k - 2])
       [] k = 7 -> Yes(BeforeAmente(x, r))
       [] k = 8 -> Yes(IF ita.result = 1 /\ r.p2 <= ita.cursor THEN Cut(x, ita.cursor) ELSE x)
       [] k = 9 -> Yes(IF at = x THEN x ELSE Shed(at, "ic", r.p2))

r_verb_suffix(w, r) ==
  LET e == Ending(w, r.pV, a_7)
  IN IF e.result = 1 THEN Cut(w, e.cursor) ELSE w

\* habr6
FinalVowel(w, r) ==
  IF In(w, Len(w), g_AEIO) /\ r.pV < Len(w) THEN Shed(Drop(w, 1), "i", r.pV) ELSE w

r_vowel_suffix(w, r) ==
  LET x == FinalVowel(w, r)
      n == Len(x) - 1
  IN IF Ends(x, "h") /\ In(x, n, g_CG) /\ r.pV < n THEN Cut(x, n) ELSE x

stem(w) ==
  LET x == r_prelude(w)
      r == r_mark_regions(x)
      standard == r_standard_suffix(r_attached_pronoun(x, r), r)
      y == IF standard.ok THEN standard.word ELSE r_verb_suffix(standard.word, r)
  IN r_postlude(r_vowel_suffix(y, r))

\* lunr.it: the pipelines of the index and of queries.
pipeline == <<"trimmer", "stopWordFilter", "stemmer">>
searchPipeline == <<"stemmer">>
===========================================================================
