------------------------------ MODULE StemEn ------------------------------
(****************************************************************************)
(* The English stemmer of lunr itself (lunr.stemmer in                       *)
(* contrib/search/templates/search/lunr.js), the one of Porter.              *)
(****************************************************************************)
EXTENDS Snowball

vowels == Chars("aeiou")
vowelsY == Chars("aeiouy")

\* The matches of a regular expression as the cursors behind them: a letter of S,
\* or not of S, and as many of them as there are.
One(w, from, S, within) == {c + 1 : c \in {b \in from : b < Len(w) /\ (At(w, b + 1) \in S) = within}}
Star(w, from, S, within) ==
  {c \in 0..Len(w) : \E b \in from : b <= c /\ \A i \in (b + 1)..c : (At(w, i) \in S) = within}

C(w, from) == Star(w, One(w, from, vowels, FALSE), vowelsY, FALSE)
V(w, from) == Star(w, One(w, from, vowelsY, TRUE), vowels, TRUE)
Start(w) == {0} \cup C(w, {0})
VC(w) == C(w, V(w, Start(w)))

mgr0(w) == VC(w) # {}
mgr1(w) == C(w, V(w, VC(w))) # {}
meq1(w) == Len(w) \in VC(w) \cup V(w, VC(w))
s_v(w) == One(w, Start(w), vowelsY, TRUE) # {}
\* re4_1b_2 and re3_5
Short(w) == Len(w) \in One(w, One(w, C(w, {0}), vowelsY, TRUE), Chars("aeiouwxy"), FALSE)

\* The longest of some endings before which there is a letter.
Suffix(w, endings) ==
  LET found == {s \in endings : Ends(w, s) /\ Len(w) > Len(s)}
  IN IF found = {} THEN "" ELSE CHOOSE s \in found : \A t \in found : Len(t) <= Len(s)
Stem(w, s) == Drop(w, Len(s))

step2list ==
  [ational |-> "ate", tional |-> "tion", enci |-> "ence", anci |-> "ance", izer |-> "ize",
   bli |-> "ble", alli |-> "al", entli |-> "ent", eli |-> "e", ousli |-> "ous",
   ization |-> "ize", ation |-> "ate", ator |-> "ate", alism |-> "al", iveness |-> "ive",
   fulness |-> "ful", ousness |-> "ous", aliti |-> "al", iviti |-> "ive", biliti |-> "ble",
   logi |-> "log"]
step3list ==
  [icate |-> "ic", ative |-> "", alize |-> "al", iciti |-> "ic", ical |-> "ic", ful |-> "",
   ness |-> ""]
step4list ==
  {"al", "ance", "ence", "er", "ic", "able", "ible", "ant", "ement", "ment", "ent", "ou",
   "ism", "ate", "iti", "ous", "ive", "ize"}

Step1a(w) ==
  IF Suffix(w, {"sses", "ies"}) # "" THEN Drop(w, 2)
  ELSE IF Suffix(w, {"s"}) # "" /\ Len(w) > 2 /\ ~Ends(w, "ss") THEN Drop(w, 1) ELSE w

\* What is left before "ed" or "ing".
Mended(w) ==
  IF \E s \in {"at", "bl", "iz"} : Ends(w, s) THEN w \o "e"
  ELSE IF Len(w) > 1 /\ At(w, Len(w) - 1) = At(w, Len(w)) /\ Out(w, Len(w), Chars("aeiouylsz"))
       THEN Drop(w, 1)
  ELSE IF Short(w) THEN w \o "e" ELSE w

Step1b(w) ==
  LET s == Suffix(w, {"ed", "ing"})
  IN IF Suffix(w, {"eed"}) # "" THEN IF mgr0(Drop(w, 3)) THEN Drop(w, 1) ELSE w
     ELSE IF s # "" /\ s_v(Stem(w, s)) THEN Mended(Stem(w, s)) ELSE w

Step1c(w) ==
  IF Len(w) > 2 /\ Ends(w, "y") /\ Out(w, Len(w) - 1, vowels) THEN Drop(w, 1) \o "i" ELSE w

Replaced(w, list) ==
  LET s == Suffix(w, DOMAIN list)
  IN IF s # "" /\ mgr0(Stem(w, s)) THEN Stem(w, s) \o list[s] ELSE w

Step4(w) ==
  LET s == Suffix(w, step4list)
  IN IF s # "" THEN IF mgr1(Stem(w, s)) THEN Stem(w, s) ELSE w
     ELSE IF Suffix(w, {"sion", "tion"}) # "" /\ mgr1(Drop(w, 3)) THEN Drop(w, 3) ELSE w

Step5(w) ==
  LET e == Drop(w, 1)
      x == IF Suffix(w, {"e"}) # "" /\ (mgr1(e) \/ (meq1(e) /\ ~Short(e))) THEN e ELSE w
  IN IF Ends(x, "ll") /\ mgr1(x) THEN Drop(x, 1) ELSE x

\* porterStemmer; a y at the beginning is a consonant.
stem(w) ==
  LET First(x, ch) == IF At(w, 1) = "y" THEN ch \o SubSeq(x, 2, Len(x)) ELSE x
      x == Step1c(Step1b(Step1a(First(w, "Y"))))
  IN IF Len(w) < 3 THEN w
     ELSE First(Step5(Step4(Replaced(Replaced(x, step2list), step3list))), "y")
===========================================================================
