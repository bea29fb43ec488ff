------------------------------ MODULE StemEs ------------------------------
(****************************************************************************)
(* The Spanish stemmer (lunr.es.js).                                         *)
(****************************************************************************)
EXTENDS Snowball

g_v == Chars("aeiouáéíóúü")

a_0 == <<<<"", -1, 6>>, <<"á", 0, 1>>, <<"é", 0, 2>>, <<"í", 0, 3>>, <<"ó", 0, 4>>,
  <<"ú", 0, 5>>>>
a_1 == <<<<"la", -1, -1>>, <<"sela", 0, -1>>, <<"le", -1, -1>>, <<"me", -1, -1>>,
  <<"se", -1, -1>>, <<"lo", -1, -1>>, <<"selo", 5, -1>>, <<"las", -1, -1>>,
  <<"selas", 7, -1>>, <<"les", -1, -1>>, <<"los", -1, -1>>, <<"selos", 10, -1>>,
  <<"nos", -1, -1>>>>
a_2 == <<<<"ando", -1, 6>>, <<"iendo", -1, 6>>, <<"yendo", -1, 7>>, <<"ándo", -1, 2>>,
  <<"iéndo", -1, 1>>, <<"ar", -1, 6>>, <<"er", -1, 6>>, <<"ir", -1, 6>>,
  <<"ár", -1, 3>>, <<"ér", -1, 4>>, <<"ír", -1, 5>>>>
a_3 == <<<<"ic", -1, -1>>, <<"ad", -1, -1>>, <<"os", -1, -1>>, <<"iv", -1, 1>>>>
a_4 == <<<<"able", -1, 1>>, <<"ible", -1, 1>>, <<"ante", -1, 1>>>>
a_5 == <<<<"ic", -1, 1>>, <<"abil", -1, 1>>, <<"iv", -1, 1>>>>
a_6 == <<<<"ica", -1, 1>>, <<"ancia", -1, 2>>, <<"encia", -1, 5>>, <<"adora", -1, 2>>,
  <<"osa", -1, 1>>, <<"ista", -1, 1>>, <<"iva", -1, 9>>, <<"anza", -1, 1>>,
  <<"logía", -1, 3>>, <<"idad", -1, 8>>, <<"able", -1, 1>>, <<"ible", -1, 1>>,
  <<"ante", -1, 2>>, <<"mente", -1, 7>>, <<"amente", 13, 6>>, <<"ación", -1, 2>>,
  <<"ución", -1, 4>>, <<"ico", -1, 1>>, <<"ismo", -1, 1>>, <<"oso", -1, 1>>,
  <<"amiento", -1, 1>>, <<"imiento", -1, 1>>, <<"ivo", -1, 9>>, <<"ador", -1, 2>>,
  <<"icas", -1, 1>>, <<"ancias", -1, 2>>, <<"encias", -1, 5>>, <<"adoras", -1, 2>>,
  <<"osas", -1, 1>>, <<"istas", -1, 1>>, <<"ivas", -1, 9>>, <<"anzas", -1, 1>>,
  <<"logías", -1, 3>>, <<"idades", -1, 8>>, <<"ables", -1, 1>>, <<"ibles", -1, 1>>,
  <<"aciones", -1, 2>>, <<"uciones", -1, 4>>, <<"adores", -1, 2>>, <<"antes", -1, 2>>,
  <<"icos", -1, 1>>, <<"ismos", -1, 1>>, <<"osos", -1, 1>>, <<"amientos", -1, 1>>,
  <<"imientos", -1, 1>>, <<"ivos", -1, 9>>>>
a_7 == <<<<"ya", -1, 1>>, <<"ye", -1, 1>>, <<"yan", -1, 1>>, <<"yen", -1, 1>>,
  <<"yeron", -1, 1>>, <<"yendo", -1, 1>>, <<"yo", -1, 1>>, <<"yas", -1, 1>>,
  <<"yes", -1, 1>>, <<"yais", -1, 1>>, <<"yamos", -1, 1>>, <<"yó", -1, 1>>>>
a_8 == <<<<"aba", -1, 2>>, <<"ada", -1, 2>>, <<"ida", -1, 2>>, <<"ara", -1, 2>>,
  <<"iera", -1, 2>>, <<"ía", -1, 2>>, <<"aría", 5, 2>>, <<"ería", 5, 2>>,
  <<"iría", 5, 2>>, <<"ad", -1, 2>>, <<"ed", -1, 2>>, <<"id", -1, 2>>,
  <<"ase", -1, 2>>, <<"iese", -1, 2>>, <<"aste", -1, 2>>, <<"iste", -1, 2>>,
  <<"an", -1, 2>>, <<"aban", 16, 2>>, <<"aran", 16, 2>>, <<"ieran", 16, 2>>,
  <<"ían", 16, 2>>, <<"arían", 20, 2>>, <<"erían", 20, 2>>, <<"irían", 20, 2>>,
  <<"en", -1, 1>>, <<"asen", 24, 2>>, <<"iesen", 24, 2>>, <<"aron", -1, 2>>,
  <<"ieron", -1, 2>>, <<"arán", -1, 2>>, <<"erán", -1, 2>>, <<"irán", -1, 2>>,
  <<"ado", -1, 2>>, <<"ido", -1, 2>>, <<"ando", -1, 2>>, <<"iendo", -1, 2>>,
  <<"ar", -1, 2>>, <<"er", -1, 2>>, <<"ir", -1, 2>>, <<"as", -1, 2>>,
  <<"abas", 39, 2>>, <<"adas", 39, 2>>, <<"idas", 39, 2>>, <<"aras", 39, 2>>,
  <<"ieras", 39, 2>>, <<"ías", 39, 2>>, <<"arías", 45, 2>>, <<"erías", 45, 2>>,
  <<"irías", 45, 2>>, <<"es", -1, 1>>, <<"ases", 49, 2>>, <<"ieses", 49, 2>>,
  <<"abais", -1, 2>>, <<"arais", -1, 2>>, <<"ierais", -1, 2>>, <<"íais", -1, 2>>,
  <<"aríais", 55, 2>>, <<"eríais", 55, 2>>, <<"iríais", 55, 2>>, <<"aseis", -1, 2>>,
  <<"ieseis", -1, 2>>, <<"asteis", -1, 2>>, <<"isteis", -1, 2>>, <<"áis", -1, 2>>,
  <<"éis", -1, 1>>, <<"aréis", 64, 2>>, <<"eréis", 64, 2>>, <<"iréis", 64, 2>>,
  <<"ados", -1, 2>>, <<"idos", -1, 2>>, <<"amos", -1, 2>>, <<"ábamos", 70, 2>>,
  <<"áramos", 70, 2>>, <<"iéramos", 70, 2>>, <<"íamos", 70, 2>>, <<"aríamos", 74, 2>>,
  <<"eríamos", 74, 2>>, <<"iríamos", 74, 2>>, <<"emos", -1, 1>>, <<"aremos", 78, 2>>,
  <<"eremos", 78, 2>>, <<"iremos", 78, 2>>, <<"ásemos", 78, 2>>, <<"iésemos", 78, 2>>,
  <<"imos", -1, 2>>, <<"arás", -1, 2>>, <<"erás", -1, 2>>, <<"irás", -1, 2>>,
  <<"ís", -1, 2>>, <<"ará", -1, 2>>, <<"erá", -1, 2>>, <<"irá", -1, 2>>,
  <<"aré", -1, 2>>, <<"eré", -1, 2>>, <<"iré", -1, 2>>, <<"ió", -1, 2>>>>
a_9 == <<<<"a", -1, 1>>, <<"e", -1, 2>>, <<"o", -1, 1>>, <<"os", -1, 1>>,
  <<"á", -1, 1>>, <<"é", -1, 2>>, <<"í", -1, 1>>, <<"ó", -1, 1>>>>
Tables == {a_0, a_1, a_2, a_3, a_4, a_5, a_6, a_7, a_8, a_9}

r_mark_regions(w) ==
  LET first == PastSyllable(w, 0, g_v)
      second == PastSyllable(w, first, g_v)
  IN [pV |-> OrEnd(VerbRegion(w, g_v), w), p1 |-> OrEnd(first, w), p2 |-> OrEnd(second, w)]

r_postlude(w) ==
  Pass(w, LAMBDA done, n :
            <<"a", "e", "i", "o", "u", At(w, n)>>[FindForward(w, n - 1, a_0).result])

\* The accent of the verb goes with the pronoun.
r_attached_pronoun(w, r) ==
  LET pronoun == Ending(w, 0, a_1)
      verb == FindBackward(w, pronoun.cursor, 0, a_2)
      k == verb.result
  IN IF pronoun.result = 0 \/ k = 0 \/ verb.cursor < r.pV THEN w
     ELSE IF k <= 5 THEN Put(w, verb.cursor, <<"iendo", "ando", "ar", "er", "ir">>[k])
     ELSE IF k = 6 \/ In(w, verb.cursor, {"u"}) THEN Cut(w, pronoun.cursor) ELSE w

\* habr5
ShedOf(w, table, r) ==
  LET e == Ending(w, 0, table)
  IN IF e.result = 1 /\ r.p2 <= e.cursor THEN Cut(w, e.cursor) ELSE w

\* What goes before "amente"
BeforeAmente(w, r) ==
  LET e == Ending(w, 0, a_3)
      x == Cut(w, e.cursor)
  IN IF e.result = 0 \/ e.cursor < r.p2 THEN w
     ELSE IF e.result = 1 THEN Shed(x, "at", r.p2) ELSE x

r_standard_suffix(w, r) ==
  LET e == Ending(w, 0, a_6)
      k == e.result
      x == Cut(w, e.cursor)
  IN CASE k = 0 \/ e.cursor < (IF k = 6 THEN r.p1 ELSE r.p2) -> No(w)
       [] k = 1 -> Yes(x)
       [] k = 2 -> Yes(Shed(x, "ic", r.p2))
       [] k \in {3, 4, 5} -> Yes(x \o <<"log", "u", "ente">>[k - 2])
       [] k = 6 -> Yes(BeforeAmente(x, r))
       [] k = 7 -> Yes(ShedOf(x, a_4, r))
       [] k = 8 -> Yes(ShedOf(x, a_5, r))
       [] k = 9 -> Yes(Shed(x, "at", r.p2))

r_y_verb_suffix(w, r) ==
  LET e == Ending(w, r.pV, a_7)
  IN IF e.result = 1 /\ In(w, e.cursor, {"u"}) THEN Yes(Cut(w, e.cursor)) ELSE No(w)

r_verb_suffix(w, r) ==
  LET e == Ending(w, r.pV, a_8)
      c == IF e.result = 1 /\ EndsAt(w, e.cursor, 0, "gu") THEN e.cursor - 1 ELSE e.cursor
  IN IF e.result = 0 THEN w ELSE Cut(w, c)

r_residual_suffix(w, r) ==
  LET e == Ending(w, 0, a_9)
      x == Cut(w, e.cursor)
  IN IF e.result = 0 \/ e.cursor < r.pV THEN w
     ELSE IF e.result = 2 /\ Ends(x, "gu") THEN Shed(x, "u", r.pV) ELSE x

stem(w) ==
  LET r == r_mark_regions(w)
      standard == r_standard_suffix(r_attached_pronoun(w, r), r)
      y_verb == r_y_verb_suffix(standard.word, r)
      x == IF standard.ok THEN standard.word
           ELSE IF y_verb.ok THEN y_verb.word ELSE r_verb_suffix(y_verb.word, r)
  IN r_postlude(r_residual_suffix(x, r))

\* lunr.es: the pipelines of the index and of queries.
pipeline == <<"trimmer", "stopWordFilter", "stemmer">>
searchPipeline == <<"stemmer">>
===========================================================================
