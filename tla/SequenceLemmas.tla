--------------------------- MODULE SequenceLemmas ---------------------------
(***************************************************************************)
(* Lemmas that the proofs share.  An induction is over a set of numbers,   *)
(* and rests on the library's theorem that a well-founded order has least  *)
(* elements.  FoldLeft chooses a function on the sets of positions that    *)
(* goes from the last position to the first: that there is one, is shown   *)
(* by induction, and a component's proof names the steps.                  *)
(***************************************************************************)
EXTENDS Integers, Sequences, SequencesExt, SequenceTheorems, WellFoundedInduction, TLAPS

-----------------------------------------------------------------------------
(* Induction over numbers, for sets.                                       *)
Less == {ss \in Nat \X Nat : ss[1] < ss[2]}

LEMMA LessWellFounded == IsWellFoundedOn(Less, Nat)
<1>1. Less = OpToRel(<, Nat)
  BY Zenon DEF OpToRel, Less
<1> QED
  BY <1>1, NatLessThanWellFounded

LEMMA LeastNumber ==
  ASSUME NEW T, T \subseteq Nat, T # {}
  PROVE  \E m \in T : \A k \in T : m <= k
<1>1. PICK m \in T : \A k \in T : <<k, m>> \notin Less
  BY LessWellFounded, WFMin
<1>2. \A k \in Nat : k < m => <<k, m>> \in Less
  BY DEF Less
<1>3. \A k \in T : k \in Nat /\ m \in Nat /\ ~(k < m)
  BY <1>1, <1>2
<1>4. \A k \in T : m <= k
  BY <1>3
<1> QED
  BY <1>4

LEMMA MinIn ==
  ASSUME NEW T, T \subseteq Nat, T # {}
  PROVE  Min(T) \in T
<1>1. PICK m \in T : \A k \in T : m <= k
  BY LeastNumber
<1>2. \E x \in T : \A y \in T : x <= y
  BY <1>1
<1> QED
  BY <1>2 DEF Min

LEMMA NumbersBySteps ==
  ASSUME NEW S, 0 \in S, \A n \in Nat : n \in S => n + 1 \in S
  PROVE  Nat \subseteq S
<1> DEFINE T == Nat \ S
<1> SUFFICES ASSUME T # {} PROVE FALSE
  OBVIOUS
<1>1. PICK m \in T : \A k \in T : m <= k
  BY LeastNumber
<1>2. m - 1 \in Nat /\ (m - 1) + 1 = m /\ ~(m <= m - 1)
  OBVIOUS
<1> QED
  BY <1>1, <1>2

\* The same up to a bound.
LEMMA StepsUpTo ==
  ASSUME NEW n \in Nat, NEW S, 0 \in S,
         \A k \in Nat : k < n /\ k \in S => k + 1 \in S
  PROVE  \A k \in 0..n : k \in S
<1> DEFINE T == {k \in Nat : k <= n => k \in S}
<1>1. 0 \in T
  OBVIOUS
<1>2. \A k \in Nat : k \in T => k + 1 \in T
  OBVIOUS
<1> HIDE DEF T
<1>3. Nat \subseteq T
  BY <1>1, <1>2, NumbersBySteps
<1> QED
  BY <1>3 DEF T

-----------------------------------------------------------------------------
(* Folds.                                                                  *)
LEMMA MaxIs ==
  ASSUME NEW s, NEW m \in s, s \subseteq Int, \A x \in s : x <= m
  PROVE  Max(s) = m
<1>1. \A x \in s : (\A y \in s : x >= y) => x = m
  BY Z3
<1>2. \A y \in s : m >= y
  OBVIOUS
<1> QED
  BY <1>1, <1>2 DEF Max

\* Sets of positions have a greatest.
LEMMA MaxIn ==
  ASSUME NEW n \in Nat, NEW s \in SUBSET (1..n), s # {}
  PROVE  Max(s) \in s
<1> DEFINE T == {n - x : x \in s}
<1>1. T \subseteq Nat /\ T # {}
  <2>1. \A x \in s : n - x \in Nat
    OBVIOUS
  <2> QED
    BY <2>1
<1>2. PICK k \in T : \A j \in T : k <= j
  BY <1>1, LeastNumber
<1>3. PICK m \in s : k = n - m
  BY <1>2
<1>4. \A x \in s : n - m <= n - x
  BY <1>2, <1>3
<1>5. s \subseteq Int /\ \A x \in s : x <= m
  BY <1>4
<1>6. Max(s) = m
  BY <1>5, MaxIs
<1> QED
  BY <1>6

\* The first k positions, as a fold takes them away.
LEMMA FirstPositions ==
  ASSUME NEW n \in Nat
  PROVE  /\ 1..0 = {}
         /\ \A k \in 0..n : 1..k \in SUBSET (1..n)
         /\ \A k \in 1..n : 1..k # {} /\ Max(1..k) = k /\ (1..k) \ {Max(1..k)} = 1..(k - 1)
<1>1. 1..0 = {} /\ \A k \in 0..n : 1..k \in SUBSET (1..n)
  OBVIOUS
<1>2. ASSUME NEW k \in 1..n
      PROVE  1..k # {} /\ Max(1..k) = k /\ (1..k) \ {Max(1..k)} = 1..(k - 1)
  <2>1. k \in 1..k /\ 1..k \subseteq Int /\ \A x \in 1..k : x <= k
    OBVIOUS
  <2>2. Max(1..k) = k
    BY <2>1, MaxIs
  <2>3. (1..k) \ {k} = 1..(k - 1)
    OBVIOUS
  <2> QED
    BY <2>1, <2>2, <2>3
<1> QED
  BY <1>1, <1>2

\* A function that goes from the last of the positions in each set to the first.
Folds(g, T, base, step, c, n) ==
  /\ g \in [SUBSET (1..n) -> T]
  /\ \A s \in SUBSET (1..n) :
       g[s] = IF s = {} THEN base ELSE step[<<g[s \ {Max(s)}], c[Max(s)]>>]

(* There is one for each number of positions, if every step leads from T   *)
(* to T.                                                                   *)
LEMMA FoldExists ==
  ASSUME NEW T, NEW X, NEW base \in T, NEW step \in [T \X X -> T],
         NEW n \in Nat, NEW c \in [1..n -> X]
  PROVE  \E g : Folds(g, T, base, step, c, n)
<1> DEFINE IsOne(g, k) == Folds(g, T, base, step, c, k)
           S == {k \in Nat : \E g : IsOne(g, k)}
<1>1. 0 \in S
  <2>1. SUBSET (1..0) = {{}}
    OBVIOUS
  <2> DEFINE g == [s \in {{}} |-> base]
  <2>2. IsOne(g, 0)
    BY <2>1 DEF Folds
  <2> QED
    BY <2>2
<1>2. ASSUME NEW k \in Nat, k < n, k \in S PROVE k + 1 \in S
  <2> PICK g : Folds(g, T, base, step, c, k)
    BY <1>2
  <2> DEFINE h == [s \in SUBSET (1..(k + 1)) |->
                     IF k + 1 \in s THEN step[<<g[s \ {k + 1}], c[k + 1]>>] ELSE g[s]]
  <2>1. \A s \in SUBSET (1..(k + 1)) : s \ {k + 1} \in SUBSET (1..k)
    OBVIOUS
  <2>2. \A s \in SUBSET (1..k) : s \in SUBSET (1..(k + 1)) /\ k + 1 \notin s
    OBVIOUS
  <2>3. \A s \in SUBSET (1..k) :
          /\ h[s] = g[s] /\ g[s] \in T
          /\ g[s] = IF s = {} THEN base ELSE step[<<g[s \ {Max(s)}], c[Max(s)]>>]
    BY <2>2 DEF Folds
  <2>4. \A s \in SUBSET (1..(k + 1)) : k + 1 \notin s => s \in SUBSET (1..k)
    <3>1. \A x \in 1..(k + 1) : x # k + 1 => x \in 1..k
      OBVIOUS
    <3> QED
      BY <3>1
  <2>5. c[k + 1] \in X
    BY <1>2
  <2>6. ASSUME NEW s \in SUBSET (1..(k + 1))
        PROVE  /\ h[s] = IF s = {} THEN base ELSE step[<<h[s \ {Max(s)}], c[Max(s)]>>]
               /\ h[s] \in T
    <3>1. CASE k + 1 \in s
      <4>1. Max(s) = k + 1
        <5>1. s \subseteq Int /\ \A x \in s : x <= k + 1
          OBVIOUS
        <5> QED
          BY <3>1, <5>1, MaxIs
      <4>2. h[s \ {k + 1}] = g[s \ {k + 1}] /\ g[s \ {k + 1}] \in T
        BY <2>1, <2>3
      <4>3. h[s] = step[<<g[s \ {k + 1}], c[k + 1]>>] /\ s # {}
        BY <3>1
      <4>4. step[<<g[s \ {k + 1}], c[k + 1]>>] \in T
        BY <2>5, <4>2
      <4> QED
        BY <4>1, <4>2, <4>3, <4>4
    <3>2. CASE k + 1 \notin s
      <4>1. s \in SUBSET (1..k) /\ s \ {Max(s)} \in SUBSET (1..k)
        BY <2>4, <3>2
      <4>2. h[s] = g[s] /\ h[s \ {Max(s)}] = g[s \ {Max(s)}] /\ g[s] \in T
        BY <2>3, <4>1
      <4> QED
        BY <2>3, <4>1, <4>2
    <3> QED
      BY <3>1, <3>2
  <2>7. IsOne(h, k + 1)
    <3>1. \A s \in SUBSET (1..(k + 1)) : h[s] \in T
      BY <2>6
    <3>2. h \in [SUBSET (1..(k + 1)) -> T]
      BY <3>1
    <3> QED
      BY <2>6, <3>2 DEF Folds
  <2> HIDE DEF h
  <2> QED
    BY <2>7
<1> HIDE DEF S
<1>3. \A k \in 0..n : k \in S
  BY <1>1, <1>2, StepsUpTo
<1>4. n \in S
  BY <1>3
<1> QED
  BY <1>4 DEF S

-----------------------------------------------------------------------------
(* Removing from sequences.                                                *)

\* t is s without what is at j.
Without(t, s, j, S) ==
  /\ t \in Seq(S) /\ Len(t) = Len(s) - 1
  /\ \A i \in 1..(Len(s) - 1) : t[i] = IF i < j THEN s[i] ELSE s[i + 1]

LEMMA RemoveAtIs ==
  ASSUME NEW S, NEW s \in Seq(S), NEW j \in 1..Len(s)
  PROVE  Without(RemoveAt(s, j), s, j, S)
<1> DEFINE n == Len(s)
           front == SubSeq(s, 1, j - 1)
           back  == SubSeq(s, j + 1, n)
<1>1. n \in Nat /\ j \in 1..n /\ \A i \in 1..n : s[i] \in S
  BY LenProperties, ElementOfSeq
<1> HIDE DEF n
<1>2. /\ front \in Seq(S) /\ Len(front) = j - 1
      /\ \A i \in 1..(j - 1) : front[i] = s[i]
  <2>1. \A i \in 1..(j - 1) : s[i] \in S
    BY <1>1
  <2>2. 1 \in Int /\ j - 1 \in Int
    BY <1>1
  <2>3. /\ front \in Seq(S)
        /\ Len(front) = IF 1 <= j - 1 THEN (j - 1) - 1 + 1 ELSE 0
        /\ \A i \in 1..((j - 1) - 1 + 1) : front[i] = s[1 + i - 1]
    BY <2>1, <2>2, SubSeqProperties
  <2> QED
    BY <1>1, <2>3
<1>3. /\ back \in Seq(S) /\ Len(back) = n - j
      /\ \A i \in 1..(n - j) : back[i] = s[j + i]
  <2>1. \A i \in (j + 1)..n : s[i] \in S
    BY <1>1
  <2>2. j + 1 \in Int /\ n \in Int
    BY <1>1
  <2>3. /\ back \in Seq(S)
        /\ Len(back) = IF j + 1 <= n THEN n - (j + 1) + 1 ELSE 0
        /\ \A i \in 1..(n - (j + 1) + 1) : back[i] = s[(j + 1) + i - 1]
    BY <2>1, <2>2, SubSeqProperties
  <2> QED
    BY <1>1, <2>3
<1>4. RemoveAt(s, j) = front \o back
  BY DEF RemoveAt, n
<1> HIDE DEF front, back
<1>5. /\ front \o back \in Seq(S) /\ Len(front \o back) = Len(front) + Len(back)
      /\ \A i \in 1..(Len(front) + Len(back)) :
           (front \o back)[i] = IF i <= Len(front) THEN front[i] ELSE back[i - Len(front)]
  BY <1>2, <1>3, ConcatProperties
<1>6. Len(front) + Len(back) = n - 1
  BY <1>1, <1>2, <1>3
<1>7. ASSUME NEW i \in 1..(n - 1)
      PROVE  (front \o back)[i] = IF i < j THEN s[i] ELSE s[i + 1]
  <2>1. CASE i < j
    BY <1>1, <1>2, <1>5, <1>6, <2>1
  <2>2. CASE ~(i < j)
    <3>1. i - (j - 1) \in 1..(n - j) /\ j + (i - (j - 1)) = i + 1 /\ ~(i <= j - 1)
      BY <1>1, <2>2
    <3>2. (front \o back)[i] = back[i - (j - 1)]
      BY <1>2, <1>5, <1>6, <3>1
    <3> QED
      BY <1>3, <2>2, <3>1, <3>2
  <2> QED
    BY <2>1, <2>2
<1> QED
  BY <1>4, <1>5, <1>6, <1>7 DEF Without, n

LEMMA RemoveFirstIs ==
  ASSUME NEW S, NEW s \in Seq(S), NEW e
  PROVE  \/ (\A i \in 1..Len(s) : s[i] # e) /\ RemoveFirst(s, e) = s
         \/ \E j \in 1..Len(s) : s[j] = e /\ Without(RemoveFirst(s, e), s, j, S)
<1>1. CASE \A i \in 1..Len(s) : s[i] # e
  BY <1>1 DEF RemoveFirst
<1>2. CASE \E i \in 1..Len(s) : s[i] = e
  <2> DEFINE I == {i \in 1..Len(s) : s[i] = e}
  <2>1. I \subseteq Nat /\ I # {}
    BY <1>2, LenProperties
  <2>2. RemoveFirst(s, e) = RemoveAt(s, Min(I))
    BY <1>2, <2>1 DEF RemoveFirst, SelectInSeq
  <2>3. Min(I) \in I
    <3> HIDE DEF I
    <3> QED
      BY <2>1, MinIn
  <2> DEFINE j == Min(I)
  <2>4. j \in 1..Len(s) /\ s[j] = e
    BY <2>3
  <2> HIDE DEF j
  <2>5. Without(RemoveAt(s, j), s, j, S)
    BY <2>4, RemoveAtIs
  <2> QED
    BY <2>2, <2>4, <2>5 DEF j
<1> QED
  BY <1>1, <1>2
=============================================================================
