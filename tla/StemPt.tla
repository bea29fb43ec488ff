------------------------------ MODULE StemPt ------------------------------
(****************************************************************************)
(* The Portuguese stemmer (lunr.pt.js).  In between a vowel with a tilde is  *)
(* two letters.                                                              *)
(****************************************************************************)
EXTENDS Snowball

g_v == Chars("aeiouáâéêíóôú")

a_0 == <<<<"", -1, 3>>, <<"ã", 0, 1>>, <<"õ", 0, 2>>>>
a_1 == <<<<"", -1, 3>>, <<"a~", 0, 1>>, <<"o~", 0, 2>>>>
a_2 == <<<<"ic", -1, -1>>, <<"ad", -1, -1>>, <<"os", -1, -1>>, <<"iv", -1, 1>>>>
a_3 == <<<<"ante", -1, 1>>, <<"avel", -1, 1>>, <<"ível", -1, 1>>>>
a_4 == <<<<"ic", -1, 1>>, <<"abil", -1, 1>>, <<"iv", -1, 1>>>>
a_5 == <<<<"ica", -1, 1>>, <<"ância", -1, 1>>, <<"ência", -1, 4>>, <<"ira", -1, 9>>,
  <<"adora", -1, 1>>, <<"osa", -1, 1>>, <<"ista", -1, 1>>, <<"iva", -1, 8>>,
  <<"eza", -1, 1>>, <<"logía", -1, 2>>, <<"idade", -1, 7>>, <<"ante", -1, 1>>,
  <<"mente", -1, 6>>, <<"amente", 12, 5>>, <<"ável", -1, 1>>, <<"ível", -1, 1>>,
  <<"ución", -1, 3>>, <<"ico", -1, 1>>, <<"ismo", -1, 1>>, <<"oso", -1, 1>>,
  <<"amento", -1, 1>>, <<"imento", -1, 1>>, <<"ivo", -1, 8>>, <<"aça~o", -1, 1>>,
  <<"ador", -1, 1>>, <<"icas", -1, 1>>, <<"ências", -1, 4>>, <<"iras", -1, 9>>,
  <<"adoras", -1, 1>>, <<"osas", -1, 1>>, <<"istas", -1, 1>>, <<"ivas", -1, 8>>,
  <<"ezas", -1, 1>>, <<"logías", -1, 2>>, <<"idades", -1, 7>>, <<"uciones", -1, 3>>,
  <<"adores", -1, 1>>, <<"antes", -1, 1>>, <<"aço~es", -1, 1>>, <<"icos", -1, 1>>,
  <<"ismos", -1, 1>>, <<"osos", -1, 1>>, <<"amentos", -1, 1>>, <<"imentos", -1, 1>>,
  <<"ivos", -1, 8>>>>
a_6 == <<<<"ada", -1, 1>>, <<"ida", -1, 1>>, <<"ia", -1, 1>>, <<"aria", 2, 1>>,
  <<"eria", 2, 1>>, <<"iria", 2, 1>>, <<"ara", -1, 1>>, <<"era", -1, 1>>,
  <<"ira", -1, 1>>, <<"ava", -1, 1>>, <<"asse", -1, 1>>, <<"esse", -1, 1>>,
  <<"isse", -1, 1>>, <<"aste", -1, 1>>, <<"este", -1, 1>>, <<"iste", -1, 1>>,
  <<"ei", -1, 1>>, <<"arei", 16, 1>>, <<"erei", 16, 1>>, <<"irei", 16, 1>>,
  <<"am", -1, 1>>, <<"iam", 20, 1>>, <<"ariam", 21, 1>>, <<"eriam", 21, 1>>,
  <<"iriam", 21, 1>>, <<"aram", 20, 1>>, <<"eram", 20, 1>>, <<"iram", 20, 1>>,
  <<"avam", 20, 1>>, <<"em", -1, 1>>, <<"arem", 29, 1>>, <<"erem", 29, 1>>,
  <<"irem", 29, 1>>, <<"assem", 29, 1>>, <<"essem", 29, 1>>, <<"issem", 29, 1>>,
  <<"ado", -1, 1>>, <<"ido", -1, 1>>, <<"ando", -1, 1>>, <<"endo", -1, 1>>,
  <<"indo", -1, 1>>, <<"ara~o", -1, 1>>, <<"era~o", -1, 1>>, <<"ira~o", -1, 1>>,
  <<"ar", -1, 1>>, <<"er", -1, 1>>, <<"ir", -1, 1>>, <<"as", -1, 1>>,
  <<"adas", 47, 1>>, <<"idas", 47, 1>>, <<"ias", 47, 1>>, <<"arias", 50, 1>>,
  <<"erias", 50, 1>>, <<"irias", 50, 1>>, <<"aras", 47, 1>>, <<"eras", 47, 1>>,
  <<"iras", 47, 1>>, <<"avas", 47, 1>>, <<"es", -1, 1>>, <<"ardes", 58, 1>>,
  <<"erdes", 58, 1>>, <<"irdes", 58, 1>>, <<"ares", 58, 1>>, <<"eres", 58, 1>>,
  <<"ires", 58, 1>>, <<"asses", 58, 1>>, <<"esses", 58, 1>>, <<"isses", 58, 1>>,
  <<"astes", 58, 1>>, <<"estes", 58, 1>>, <<"istes", 58, 1>>, <<"is", -1, 1>>,
  <<"ais", 71, 1>>, <<"eis", 71, 1>>, <<"areis", 73, 1>>, <<"ereis", 73, 1>>,
  <<"ireis", 73, 1>>, <<"áreis", 73, 1>>, <<"éreis", 73, 1>>, <<"íreis", 73, 1>>,
  <<"ásseis", 73, 1>>, <<"ésseis", 73, 1>>, <<"ísseis", 73, 1>>, <<"áveis", 73, 1>>,
  <<"íeis", 73, 1>>, <<"aríeis", 84, 1>>, <<"eríeis", 84, 1>>, <<"iríeis", 84, 1>>,
  <<"ados", -1, 1>>, <<"idos", -1, 1>>, <<"amos", -1, 1>>, <<"áramos", 90, 1>>,
  <<"éramos", 90, 1>>, <<"íramos", 90, 1>>, <<"ávamos", 90, 1>>, <<"íamos", 90, 1>>,
  <<"aríamos", 95, 1>>, <<"eríamos", 95, 1>>, <<"iríamos", 95, 1>>, <<"emos", -1, 1>>,
  <<"aremos", 99, 1>>, <<"eremos", 99, 1>>, <<"iremos", 99, 1>>, <<"ássemos", 99, 1>>,
  <<"êssemos", 99, 1>>, <<"íssemos", 99, 1>>, <<"imos", -1, 1>>, <<"armos", -1, 1>>,
  <<"ermos", -1, 1>>, <<"irmos", -1, 1>>, <<"ámos", -1, 1>>, <<"arás", -1, 1>>,
  <<"erás", -1, 1>>, <<"irás", -1, 1>>, <<"eu", -1, 1>>, <<"iu", -1, 1>>,
  <<"ou", -1, 1>>, <<"ará", -1, 1>>, <<"erá", -1, 1>>, <<"irá", -1, 1>>>>
a_7 == <<<<"a", -1, 1>>, <<"i", -1, 1>>, <<"o", -1, 1>>, <<"os", -1, 1>>,
  <<"á", -1, 1>>, <<"í", -1, 1>>, <<"ó", -1, 1>>>>
a_8 == <<<<"e", -1, 1>>, <<"ç", -1, 2>>, <<"é", -1, 1>>, <<"ê", -1, 1>>>>
Tables == {a_0, a_1, a_2, a_3, a_4, a_5, a_6, a_7, a_8}

r_prelude(w) ==
  Pass(w, LAMBDA done, n : <<"a~", "o~", At(w, n)>>[FindForward(w, n - 1, a_0).result])

\* pV is behind a first vowel that only consonants follow.
r_mark_regions(w) ==
  LET first == PastSyllable(w, 0, g_v)
      second == PastSyllable(w, first, g_v)
      verb == VerbRegion(w, g_v)
  IN [pV |-> IF verb = Nowhere /\ In(w, 1, g_v) /\ Out(w, 2, g_v) THEN 1 ELSE OrEnd(verb, w),
      p1 |-> OrEnd(first, w), p2 |-> OrEnd(second, w)]

r_postlude(w) ==
  Pass(w, LAMBDA done, n : IF At(w, n) = "~" /\ In(w, n - 1, {"a", "o"}) THEN ""
            ELSE <<"ã", "õ", At(w, n)>>[FindForward(w, n - 1, a_1).result])

\* What goes before an ending is the first kind of ending in a table.
ShedOf(w, table, r) ==
  LET e == Ending(w, 0, table)
  IN IF e.result = 1 /\ r.p2 <= e.cursor THEN Cut(w, e.cursor) ELSE w

BeforeAmente(w, r) ==
  LET e == Ending(w, 0, a_2)
      x == Cut(w, e.cursor)
  IN IF e.result = 0 \/ e.cursor < r.p2 THEN w
     ELSE IF e.result = 1 THEN Shed(x, "at", r.p2) ELSE x

r_standard_suffix(w, r) ==
  LET e == Ending(w, 0, a_5)
      k == e.result
      c == e.cursor
      x == Cut(w, c)
  IN CASE k = 0 \/ (k = 5 /\ c < r.p1) \/ (k = 9 /\ (c < r.pV \/ ~In(w, c, {"e"})))
            \/ (k \notin {5, 9} /\ c < r.p2) -> No(w)
       [] k = 1 -> Yes(x)
       [] k \in {2, 3, 4} -> Yes(x \o <<"log", "u", "ente">>[k - 1])
       [] k = 5 -> Yes(BeforeAmente(x, r))
       [] k = 6 -> Yes(ShedOf(x, a_3, r))
       [] k = 7 -> Yes(ShedOf(x, a_4, r))
       [] k = 8 -> Yes(Shed(x, "at", r.p2))
       [] k = 9 -> Yes(x \o "ir")

r_verb_suffix(w, r) ==
  LET e == Ending(w, r.pV, a_6)
  IN IF e.result = 1 THEN Yes(Cut(w, e.cursor)) ELSE No(w)

r_residual_suffix(w, r) ==
  LET e == Ending(w, 0, a_7)
  IN IF e.result = 1 /\ r.pV <= e.cursor THEN Cut(w, e.cursor) ELSE w

\* A u behind a g goes, or the i behind a c and what follows it: the search
\* for "ci" begins before a u that no g precedes.
r_residual_form(w, r) ==
  LET e == Ending(w, 0, a_8)
      x == Cut(w, e.cursor)
      n == IF Ends(x, "u") THEN Len(x) - 1 ELSE Len(x)
  IN CASE e.result = 1 /\ r.pV <= e.cursor ->
            IF Ends(x, "gu") THEN Shed(x, "u", r.pV)
            ELSE IF EndsAt(x, n, 0, "ci") /\ r.pV < n THEN Cut(x, n - 1) ELSE x
       [] e.result = 2 -> x \o "c"
       [] OTHER -> w

\* habr1
Suffixes(w, r) ==
  LET standard == r_standard_suffix(w, r)
      verb == r_verb_suffix(standard.word, r)
      x == IF standard.ok THEN standard.word ELSE verb.word
  IN IF ~standard.ok /\ ~verb.ok THEN r_residual_suffix(x, r)
     ELSE IF Ends(x, "ci") /\ r.pV <= Len(x) THEN Drop(x, 1) ELSE x

stem(w) ==
  LET x == r_prelude(w)
      r == r_mark_regions(x)
  IN r_postlude(r_residual_form(Suffixes(x, r), r))

\* lunr.pt: the pipelines of the index and of queries.
pipeline == <<"trimmer", "stopWordFilter", "stemmer">>
searchPipeline == <<"stemmer">>
===========================================================================
