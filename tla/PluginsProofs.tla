--------------------------- MODULE PluginsProofs ---------------------------
(***************************************************************************)
(* Proofs about Plugins, for any plugins, priorities and mkdocs.yml files. *)
(* The methods of an event are put in order one by one, in a fold: what is *)
(* shown of it is shown by induction.                                      *)
(***************************************************************************)
EXTENDS Plugins, SequenceLemmas, FiniteSetTheorems, SequenceTheorems

-----------------------------------------------------------------------------
Objects == [name : Names, num : Nat, made : Nat]

Prio(o) == Priority[o.name]

LEMMA PrioType == \A o \in Objects : Prio(o) \in Int
BY PriorityAssumption DEF Objects, Prio

(* p goes before q, for its priority or because it is before q among the   *)
(* first k of the list.                                                    *)
Before(c, k, p, q) ==
  \/ Prio(p) > Prio(q)
  \/ Prio(p) = Prio(q) /\ \E a, b \in 1..k : a < b /\ c[a] = p /\ c[b] = q

(* The methods of those of the first k plugins that have one, in order.    *)
InOrder(methods, c, k, having) ==
  /\ methods \in Seq(Objects)
  /\ ToSet(methods) = {o \in {c[a] : a \in 1..k} : o.name \in having}
  /\ \A i, j \in DOMAIN methods : i < j => Before(c, k, methods[i], methods[j])

\* An insertion moves what is behind it by one place.
LEMMA InsertedAt ==
  ASSUME NEW m \in Seq(Objects), NEW o \in Objects, NEW q \in 0..Len(m)
  PROVE  /\ InsertAt(m, q + 1, o) \in Seq(Objects)
         /\ Len(InsertAt(m, q + 1, o)) = Len(m) + 1
         /\ \A i \in 1..(Len(m) + 1) :
              InsertAt(m, q + 1, o)[i] = IF i <= q THEN m[i]
                                         ELSE IF i = q + 1 THEN o ELSE m[i - 1]
<1> DEFINE front == SubSeq(m, 1, q)
           back  == SubSeq(m, q + 1, Len(m))
<1>1. Len(m) \in Nat /\ \A i \in 1..Len(m) : m[i] \in Objects
  BY LenProperties, ElementOfSeq
<1>2. /\ front \in Seq(Objects) /\ Len(front) = q
      /\ \A i \in 1..q : front[i] = m[i]
  <2>1. \A i \in 1..q : m[i] \in Objects
    BY <1>1
  <2> QED
    BY <2>1, SubSeqProperties
<1>3. /\ back \in Seq(Objects) /\ Len(back) = Len(m) - q
      /\ \A i \in 1..(Len(m) - q) : back[i] = m[q + i]
  <2>1. \A i \in (q + 1)..Len(m) : m[i] \in Objects
    BY <1>1
  <2>2. q + 1 \in Int /\ Len(m) \in Int
    BY <1>1
  <2>3. /\ back \in Seq(Objects)
        /\ Len(back) = IF q + 1 <= Len(m) THEN Len(m) - (q + 1) + 1 ELSE 0
        /\ \A i \in 1..(Len(m) - (q + 1) + 1) : back[i] = m[(q + 1) + i - 1]
    BY <2>1, <2>2, SubSeqProperties
  <2> QED
    BY <1>1, <2>3
<1>4. <<o>> \in Seq(Objects) /\ Len(<<o>>) = 1 /\ <<o>>[1] = o
  OBVIOUS
<1>5. /\ front \o <<o>> \in Seq(Objects) /\ Len(front \o <<o>>) = q + 1
      /\ \A i \in 1..(q + 1) : (front \o <<o>>)[i] = IF i <= q THEN m[i] ELSE o
  BY <1>2, <1>4, ConcatProperties
<1> DEFINE head == front \o <<o>>
           all  == head \o back
<1>6. /\ head \in Seq(Objects) /\ Len(head) = q + 1
      /\ \A i \in 1..(q + 1) : head[i] = IF i <= q THEN m[i] ELSE o
  BY <1>5
<1>7. /\ all \in Seq(Objects) /\ Len(all) = Len(m) + 1
      /\ \A i \in 1..(Len(m) + 1) : all[i] = IF i <= q + 1 THEN head[i] ELSE back[i - (q + 1)]
  <2> HIDE DEF front, back, head
  <2>1. /\ all \in Seq(Objects) /\ Len(all) = Len(head) + Len(back)
        /\ \A i \in 1..(Len(head) + Len(back)) :
             all[i] = IF i <= Len(head) THEN head[i] ELSE back[i - Len(head)]
    BY <1>3, <1>6, ConcatProperties
  <2>2. Len(head) + Len(back) = Len(m) + 1
    BY <1>1, <1>3, <1>6
  <2> QED
    BY <1>6, <2>1, <2>2
<1>8. InsertAt(m, q + 1, o) = all
  <2>1. (q + 1) - 1 = q
    BY <1>1
  <2> QED
    BY <2>1 DEF InsertAt
<1>9. ASSUME NEW i \in 1..(Len(m) + 1)
      PROVE  all[i] = IF i <= q THEN m[i] ELSE IF i = q + 1 THEN o ELSE m[i - 1]
  <2> HIDE DEF front, back, head, all
  <2>1. CASE i <= q + 1
    BY <1>1, <1>6, <1>7, <2>1
  <2>2. CASE ~(i <= q + 1)
    <3>1. i - (q + 1) \in 1..(Len(m) - q) /\ q + (i - (q + 1)) = i - 1
      BY <1>1, <2>2
    <3>2. back[i - (q + 1)] = m[i - 1]
      BY <1>3, <3>1
    <3> QED
      BY <1>1, <1>7, <2>2, <3>2
  <2> QED
    BY <2>1, <2>2
<1> HIDE DEF front, back, head, all
<1> QED
  BY <1>7, <1>8, <1>9

-----------------------------------------------------------------------------
(* Methods as the function that FoldLeft chooses: the methods of the       *)
(* plugins whose places are in s.                                          *)
IsFold(g, c, having, S) ==
  g = [s \in SUBSET S |->
         IF s = {} THEN <<>> ELSE Register(g[s \ {Max(s)}], c[Max(s)], having)]

LEMMA MethodsChosen ==
  ASSUME NEW c, NEW having, \E g : IsFold(g, c, having, DOMAIN c)
  PROVE  \E g : IsFold(g, c, having, DOMAIN c) /\ Methods(c, having) = g[DOMAIN c]
<1>1. Methods(c, having) =
        (CHOOSE g : g = [s \in SUBSET DOMAIN c |->
           IF s = {} THEN <<>> ELSE Register(g[s \ {Max(s)}], c[Max(s)], having)])[DOMAIN c]
  BY DEF Methods, FoldLeft, MapThenFoldSet
<1> QED
  BY <1>1 DEF IsFold

LEMMA RegisterIn ==
  ASSUME NEW m \in Seq(Objects), NEW o \in Objects, NEW having
  PROVE  Register(m, o, having) \in Seq(Objects)
<1> DEFINE places == {i \in DOMAIN m : Priority[m[i].name] >= Priority[o.name]}
           q == Cardinality(places)
<1>1. Len(m) \in Nat /\ DOMAIN m = 1..Len(m) /\ places \subseteq 1..Len(m)
  BY LenProperties
<1>2. q \in 0..Len(m)
  <2>1. IsFiniteSet(1..Len(m)) /\ Cardinality(1..Len(m)) = Len(m)
    <3>1. \A k \in Nat : IsFiniteSet(1..k) /\ Cardinality(1..k) = IF 1 > k THEN 0 ELSE k - 1 + 1
      BY FS_Interval
    <3> HIDE DEF places
    <3>2. \A k \in Nat : (IF 1 > k THEN 0 ELSE k - 1 + 1) = k
      OBVIOUS
    <3> QED
      BY <1>1, <3>1, <3>2
  <2>2. IsFiniteSet(places) /\ q <= Len(m) /\ q \in Nat
    BY <1>1, <2>1, FS_Subset, FS_CardinalityType
  <2> QED
    BY <1>1, <2>2
<1>3. InsertAt(m, q + 1, o) \in Seq(Objects)
  BY <1>2, InsertedAt
<1>4. Insort(m, o) = InsertAt(m, q + 1, o)
  <2>1. 1 + q = q + 1
    BY <1>1, <1>2
  <2> QED
    BY <2>1 DEF Insort
<1> QED
  BY <1>3, <1>4 DEF Register

(* The methods of the first k plugins, for each k.                         *)
LEMMA MethodsBySteps ==
  ASSUME NEW c \in Seq(Objects), NEW having
  PROVE  \E r : /\ r[0] = <<>> /\ r[Len(c)] = Methods(c, having)
                /\ \A k \in 1..Len(c) : r[k] = Register(r[k - 1], c[k], having)
<1> DEFINE n == Len(c)
           T == Seq(Objects)
           step == [p \in Seq(Objects) \X Objects |-> Register(p[1], p[2], having)]
<1>1. n \in Nat /\ c \in [1..n -> Objects] /\ DOMAIN c = 1..n
  BY LenProperties
<1>2. step \in [T \X Objects -> T] /\ <<>> \in T
  BY RegisterIn
<1>3. \A m \in T, o \in Objects : step[<<m, o>>] = Register(m, o, having)
  OBVIOUS
<1> HIDE DEF n, step, T
<1>4. PICK g : Folds(g, T, <<>>, step, c, n)
  BY <1>1, <1>2, FoldExists
<1>5. \E f : IsFold(f, c, having, 1..n)
  <2>1. \A s \in SUBSET (1..n) : s # {} => Max(s) \in 1..n /\ s \ {Max(s)} \in SUBSET (1..n)
    BY <1>1, MaxIn
  <2>2. \A s \in SUBSET (1..n) :
          g[s] = IF s = {} THEN <<>> ELSE Register(g[s \ {Max(s)}], c[Max(s)], having)
    BY <1>1, <1>3, <1>4, <2>1 DEF Folds
  <2>3. IsFold(g, c, having, 1..n)
    BY <1>4, <2>2 DEF IsFold, Folds
  <2> QED
    BY <2>3
<1>6. PICK f : IsFold(f, c, having, 1..n) /\ Methods(c, having) = f[1..n]
  BY <1>1, <1>5, MethodsChosen
<1> DEFINE r == [k \in 0..n |-> f[1..k]]
<1>7. f[{}] = <<>> /\ \A k \in 1..n : f[1..k] = Register(f[1..(k - 1)], c[k], having)
  <2>1. \A s \in SUBSET (1..n) :
          f[s] = IF s = {} THEN <<>> ELSE Register(f[s \ {Max(s)}], c[Max(s)], having)
    BY <1>6 DEF IsFold
  <2>2. f[{}] = <<>>
    BY <2>1
  <2>3. ASSUME NEW k \in 1..n PROVE f[1..k] = Register(f[1..(k - 1)], c[k], having)
    <3>1. 1..k \in SUBSET (1..n) /\ 1..k # {} /\ Max(1..k) = k /\ (1..k) \ {k} = 1..(k - 1)
      BY <1>1, FirstPositions
    <3> QED
      BY <2>1, <3>1
  <2> QED
    BY <2>2, <2>3
<1>8. r[0] = <<>> /\ r[n] = f[1..n]
  BY <1>1, <1>7, FirstPositions
<1>9. \A k \in 1..n : r[k] = Register(r[k - 1], c[k], having)
  BY <1>1, <1>7
<1> HIDE DEF r
<1> QED
  BY <1>6, <1>8, <1>9 DEF n

\* insort finds the place behind all that have at least the same priority.
LEMMA InsertionPoint ==
  ASSUME NEW m \in Seq(Objects), NEW o \in Objects,
         \A i, j \in 1..Len(m) : i < j => Prio(m[i]) >= Prio(m[j])
  PROVE  \E q \in 0..Len(m) :
           /\ \A i \in 1..q : Prio(m[i]) >= Prio(o)
           /\ \A i \in (q + 1)..Len(m) : Prio(m[i]) < Prio(o)
           /\ Insort(m, o) = InsertAt(m, q + 1, o)
<1>1. Len(m) \in Nat /\ DOMAIN m = 1..Len(m) /\ \A i \in 1..Len(m) : Prio(m[i]) \in Int
  BY LenProperties, ElementOfSeq, PrioType
<1>2. Prio(o) \in Int
  BY PrioType
<1> DEFINE T == {i \in 1..(Len(m) + 1) : i = Len(m) + 1 \/ Prio(m[i]) < Prio(o)}
<1>3. PICK t \in T : \A k \in T : t <= k
  <2>1. T \subseteq Nat /\ Len(m) + 1 \in T
    BY <1>1
  <2> QED
    BY <2>1, LeastNumber
<1> DEFINE q == t - 1
<1>4. q \in 0..Len(m) /\ t = q + 1
  BY <1>1
<1>5. \A i \in 1..q : Prio(m[i]) >= Prio(o)
  <2> SUFFICES ASSUME NEW i \in 1..q PROVE Prio(m[i]) >= Prio(o)
    OBVIOUS
  <2>1. i \in 1..Len(m) /\ ~(t <= i) /\ i \in 1..(Len(m) + 1)
    BY <1>1, <1>4
  <2>2. i \notin T
    BY <1>3, <2>1
  <2> QED
    BY <1>1, <1>2, <2>1, <2>2
<1>6. \A i \in (q + 1)..Len(m) : Prio(m[i]) < Prio(o)
  <2> SUFFICES ASSUME NEW i \in t..Len(m) PROVE Prio(m[i]) < Prio(o)
    BY <1>4
  <2>1. t \in 1..Len(m) /\ i \in 1..Len(m)
    BY <1>1, <1>4
  <2>2. Prio(m[t]) < Prio(o)
    BY <1>1, <2>1
  <2>3. t = i \/ Prio(m[t]) >= Prio(m[i])
    BY <2>1
  <2> QED
    BY <1>1, <1>2, <2>1, <2>2, <2>3
<1>7. {i \in DOMAIN m : Prio(m[i]) >= Prio(o)} = 1..q
  <2>1. ASSUME NEW i \in 1..Len(m) PROVE Prio(m[i]) >= Prio(o) <=> i \in 1..q
    BY <1>1, <1>2, <1>4, <1>5, <1>6
  <2>2. 1..q \subseteq 1..Len(m)
    BY <1>1, <1>4
  <2> QED
    BY <1>1, <2>1, <2>2
<1>8. Cardinality(1..q) = q
  BY <1>1, <1>4, FS_Interval
<1>9. Insort(m, o) = InsertAt(m, q + 1, o)
  <2>1. Insort(m, o) = InsertAt(m, 1 + Cardinality({i \in DOMAIN m : Prio(m[i]) >= Prio(o)}), o)
    BY DEF Insort, Prio
  <2>2. 1 + q = q + 1
    BY <1>1, <1>4
  <2> QED
    BY <1>7, <1>8, <2>1, <2>2
<1> QED
  BY <1>4, <1>5, <1>6, <1>9

\* One more plugin of the list has its method registered, if it has one.
LEMMA RegisterInOrder ==
  ASSUME NEW c, NEW k \in Nat, NEW m, NEW having, InOrder(m, c, k, having),
         c[k + 1] \in Objects
  PROVE  InOrder(Register(m, c[k + 1], having), c, k + 1, having)
<1> DEFINE o == c[k + 1]
<1>1. /\ m \in Seq(Objects) /\ Len(m) \in Nat /\ DOMAIN m = 1..Len(m)
      /\ \A i \in 1..Len(m) : m[i] \in Objects /\ m[i] \in {c[a] : a \in 1..k}
  <2>1. m \in Seq(Objects) /\ Len(m) \in Nat /\ DOMAIN m = 1..Len(m)
    BY LenProperties DEF InOrder
  <2>2. \A i \in 1..Len(m) : m[i] \in ToSet(m) /\ m[i] \in Objects
    BY <2>1, ElementOfSeq DEF ToSet
  <2> QED
    BY <2>1, <2>2 DEF InOrder
<1>2. 1..(k + 1) = (1..k) \cup {k + 1}
  OBVIOUS
<1>3. \A p, q : Before(c, k, p, q) => Before(c, k + 1, p, q)
  BY <1>2 DEF Before
<1>4. CASE o.name \notin having
  <2>1. Register(m, o, having) = m
    BY <1>4 DEF Register
  <2>2. {r \in {c[a] : a \in 1..(k + 1)} : r.name \in having}
        = {r \in {c[a] : a \in 1..k} : r.name \in having}
    BY <1>2, <1>4
  <2> QED
    BY <1>3, <2>1, <2>2 DEF InOrder
<1>5. CASE o.name \in having
  <2>1. ASSUME NEW i \in 1..Len(m), NEW j \in 1..Len(m), i < j
        PROVE  Prio(m[i]) >= Prio(m[j])
    <3>1. Before(c, k, m[i], m[j])
      BY <1>1, <2>1 DEF InOrder
    <3>2. Prio(m[i]) \in Int /\ Prio(m[j]) \in Int
      BY <1>1, PrioType
    <3>3. Prio(m[i]) > Prio(m[j]) \/ Prio(m[i]) = Prio(m[j])
      BY <3>1 DEF Before
    <3> QED
      BY <3>2, <3>3
  <2>2. PICK q \in 0..Len(m) : /\ \A i \in 1..q : Prio(m[i]) >= Prio(o)
                               /\ \A i \in (q + 1)..Len(m) : Prio(m[i]) < Prio(o)
                               /\ Insort(m, o) = InsertAt(m, q + 1, o)
    BY <1>1, <2>1, InsertionPoint
  <2> DEFINE t == InsertAt(m, q + 1, o)
  <2>3. /\ t \in Seq(Objects) /\ Len(t) = Len(m) + 1
        /\ \A i \in 1..(Len(m) + 1) : t[i] = IF i <= q THEN m[i]
                                             ELSE IF i = q + 1 THEN o ELSE m[i - 1]
    BY <1>1, InsertedAt
  <2>4. Register(m, o, having) = t
    BY <1>5, <2>2 DEF Register
  <2>5. DOMAIN t = 1..(Len(m) + 1)
    BY <2>3, LenProperties
  <2> HIDE DEF t
  <2>6. ToSet(t) = ToSet(m) \cup {o}
    <3>1. \A i \in 1..(Len(m) + 1) : t[i] \in ToSet(m) \cup {o}
      <4> SUFFICES ASSUME NEW i \in 1..(Len(m) + 1) PROVE t[i] \in ToSet(m) \cup {o}
        OBVIOUS
      <4>1. CASE i <= q
        <5>1. i \in 1..Len(m) /\ t[i] = m[i]
          BY <1>1, <2>3, <4>1
        <5> QED
          BY <1>1, <5>1 DEF ToSet
      <4>2. CASE i = q + 1
        BY <2>3, <4>2
      <4>3. CASE i > q + 1
        <5>1. i - 1 \in 1..Len(m) /\ ~(i <= q) /\ i # q + 1
          BY <1>1, <4>3
        <5>2. t[i] = m[i - 1]
          BY <2>3, <5>1
        <5> QED
          BY <1>1, <5>1, <5>2 DEF ToSet
      <4> QED
        BY <1>1, <4>1, <4>2, <4>3
    <3>2. o \in ToSet(t)
      <4>1. q + 1 \in 1..(Len(m) + 1) /\ ~(q + 1 <= q)
        BY <1>1
      <4>2. t[q + 1] = o
        BY <2>3, <4>1
      <4> QED
        BY <2>5, <4>1, <4>2 DEF ToSet
    <3>3. ASSUME NEW i \in 1..Len(m) PROVE m[i] \in ToSet(t)
      <4>1. CASE i <= q
        <5>1. i \in 1..(Len(m) + 1) /\ t[i] = m[i]
          BY <1>1, <2>3, <4>1
        <5> QED
          BY <2>5, <5>1 DEF ToSet
      <4>2. CASE i > q
        <5>1. i + 1 \in 1..(Len(m) + 1) /\ ~(i + 1 <= q) /\ i + 1 # q + 1 /\ (i + 1) - 1 = i
          BY <1>1, <4>2
        <5>2. t[i + 1] = m[i]
          BY <2>3, <5>1
        <5> QED
          BY <2>5, <5>1, <5>2 DEF ToSet
      <4> QED
        BY <1>1, <4>1, <4>2
    <3> QED
      BY <1>1, <2>5, <3>1, <3>2, <3>3 DEF ToSet
  <2>7. ToSet(t) = {r \in {c[a] : a \in 1..(k + 1)} : r.name \in having}
    BY <1>2, <1>5, <2>6 DEF InOrder
  <2>8. ASSUME NEW i \in DOMAIN t, NEW j \in DOMAIN t, i < j
        PROVE  Before(c, k + 1, t[i], t[j])
    <3>1. CASE j <= q
      BY <1>1, <1>3, <2>3, <2>5, <2>8, <3>1 DEF InOrder
    <3>2. CASE j = q + 1
      <4>1. t[j] = o /\ t[i] = m[i] /\ i \in 1..q /\ i \in 1..Len(m)
        BY <1>1, <2>3, <2>5, <2>8, <3>2
      <4>2. Prio(m[i]) >= Prio(o) /\ Prio(m[i]) \in Int /\ Prio(o) \in Int
        BY <1>1, <2>2, <4>1, PrioType
      <4>3. PICK a \in 1..k : c[a] = m[i]
        BY <1>1, <4>1
      <4>4. a \in 1..(k + 1) /\ k + 1 \in 1..(k + 1) /\ a < k + 1
        OBVIOUS
      <4> QED
        BY <4>1, <4>2, <4>3, <4>4 DEF Before
    <3>3. CASE j > q + 1
      <4>1. j - 1 \in (q + 1)..Len(m) /\ j - 1 \in 1..Len(m) /\ t[j] = m[j - 1]
        BY <1>1, <2>3, <2>5, <3>3
      <4>2. CASE i <= q
        <5>1. i \in 1..Len(m) /\ i < j - 1 /\ t[i] = m[i]
          BY <1>1, <2>3, <2>5, <3>3, <4>2
        <5> QED
          BY <1>1, <1>3, <4>1, <5>1 DEF InOrder
      <4>3. CASE i = q + 1
        <5>1. t[i] = o
          BY <2>3, <2>5, <4>3
        <5>2. Prio(o) > Prio(m[j - 1])
          <6>1. Prio(m[j - 1]) < Prio(o)
            BY <2>2, <4>1
          <6> QED
            BY <1>1, <4>1, <6>1, PrioType
        <5> QED
          BY <4>1, <5>1, <5>2 DEF Before
      <4>4. CASE i > q + 1
        <5>1. i - 1 \in 1..Len(m) /\ i - 1 < j - 1 /\ t[i] = m[i - 1]
          BY <1>1, <2>3, <2>5, <2>8, <4>4
        <5> QED
          BY <1>1, <1>3, <4>1, <5>1 DEF InOrder
      <4>5. i <= q \/ i = q + 1 \/ i > q + 1
        <5>1. i \in Int /\ q \in Int
          BY <1>1, <2>5
        <5> QED
          BY <5>1
      <4> QED
        BY <4>2, <4>3, <4>4, <4>5
    <3> QED
      BY <1>1, <2>5, <3>1, <3>2, <3>3
  <2> QED
    BY <2>3, <2>4, <2>7, <2>8 DEF InOrder
<1> QED
  BY <1>4, <1>5

(* The methods of an event are those of the plugins that have one, by      *)
(* descending priority, and for equal priorities in the order of the list. *)
THEOREM MethodsInOrder ==
  ASSUME NEW c \in Seq(Objects), NEW having
  PROVE  InOrder(Methods(c, having), c, Len(c), having)
<1> DEFINE n == Len(c)
<1>1. n \in Nat /\ DOMAIN c = 1..n /\ \A k \in 1..n : c[k] \in Objects
  BY LenProperties, ElementOfSeq
<1> HIDE DEF n
<1> PICK r : /\ r[0] = <<>> /\ r[n] = Methods(c, having)
             /\ \A k \in 1..n : r[k] = Register(r[k - 1], c[k], having)
  BY MethodsBySteps DEF n
<1> DEFINE S == {k \in Nat : k <= n => InOrder(r[k], c, k, having)}
<1>2. 0 \in S
  <2>1. /\ r[0] \in Seq(Objects) /\ DOMAIN r[0] = {} /\ 1..0 = {}
    OBVIOUS
  <2> QED
    BY <2>1 DEF InOrder, ToSet
<1>3. ASSUME NEW k \in Nat, k \in S PROVE k + 1 \in S
  <2> SUFFICES ASSUME k + 1 <= n PROVE InOrder(r[k + 1], c, k + 1, having)
    OBVIOUS
  <2>1. k + 1 \in 1..n /\ (k + 1) - 1 = k /\ k <= n
    BY <1>1
  <2>2. r[k + 1] = Register(r[k], c[k + 1], having)
    BY <2>1
  <2> QED
    BY <1>1, <1>3, <2>1, <2>2, RegisterInOrder
<1>4. n \in S
  BY <1>1, <1>2, <1>3, NumbersBySteps
<1> QED
  BY <1>1, <1>4 DEF n
-----------------------------------------------------------------------------
(* Lists, collections and what is loaded.                                  *)

LEMMA ToSetOf ==
  ASSUME NEW S, NEW s \in Seq(S)
  PROVE  ToSet(s) = {s[i] : i \in 1..Len(s)} /\ ToSet(s) \subseteq S
<1>1. Len(s) \in Nat /\ DOMAIN s = 1..Len(s) /\ \A i \in 1..Len(s) : s[i] \in S
  BY LenProperties, ElementOfSeq
<1> QED
  BY <1>1 DEF ToSet

LEMMA MethodsOf ==
  ASSUME NEW c \in Seq(Objects), NEW having
  PROVE  /\ Methods(c, having) \in Seq(Objects)
         /\ ToSet(Methods(c, having)) = {o \in ToSet(c) : o.name \in having}
         /\ \A i, j \in DOMAIN Methods(c, having) :
              i < j => Before(c, Len(c), Methods(c, having)[i], Methods(c, having)[j])
<1>1. InOrder(Methods(c, having), c, Len(c), having)
  BY MethodsInOrder
<1>2. ToSet(c) = {c[a] : a \in 1..Len(c)}
  BY ToSetOf
<1> QED
  BY <1>1, <1>2 DEF InOrder

\* A method is called: it goes from the front of what is to be called to the
\* end of what has been.
LEMMA NextMethod ==
  ASSUME NEW s \in Seq(Objects), NEW t \in Seq(Objects), t # <<>>
  PROVE  /\ Head(t) \in Objects /\ Tail(t) \in Seq(Objects) /\ Append(s, Head(t)) \in Seq(Objects)
         /\ ToSet(t) = ToSet(Tail(t)) \cup {Head(t)}
         /\ Append(s, Head(t)) \o Tail(t) = s \o t
<1>1. /\ Head(t) \in Objects /\ Tail(t) \in Seq(Objects)
      /\ Len(Tail(t)) = Len(t) - 1
      /\ \A i \in 1..Len(Tail(t)) : Tail(t)[i] = t[i + 1]
  BY HeadTailProperties
<1>2. Len(t) \in Nat \ {0} /\ Len(s) \in Nat
  BY EmptySeq, LenProperties
<1>3. Head(t) = t[1]
  OBVIOUS
<1>4. Append(s, Head(t)) \in Seq(Objects) /\ Append(s, Head(t)) = s \o <<Head(t)>>
  BY <1>1, AppendProperties, AppendIsConcat
<1> DEFINE h == Head(t)
           r == Tail(t)
<1>5. ToSet(t) = ToSet(r) \cup {h}
  <2>1. ToSet(t) = {t[i] : i \in 1..Len(t)} /\ ToSet(r) = {r[i] : i \in 1..Len(r)}
    BY <1>1, ToSetOf
  <2> HIDE DEF h, r
  <2>2. \A i \in 1..Len(r) : i + 1 \in 1..Len(t) /\ r[i] = t[i + 1]
    BY <1>1, <1>2 DEF r
  <2>3. \A i \in 1..Len(t) : i = 1 \/ (i - 1 \in 1..Len(r) /\ t[i] = r[i - 1])
    <3> SUFFICES ASSUME NEW i \in 1..Len(t), i # 1
                 PROVE  i - 1 \in 1..Len(r) /\ t[i] = r[i - 1]
      OBVIOUS
    <3>1. i - 1 \in 1..Len(r) /\ (i - 1) + 1 = i
      BY <1>1, <1>2 DEF r
    <3> QED
      BY <2>2, <3>1
  <2>4. 1 \in 1..Len(t) /\ t[1] = h
    BY <1>2, <1>3 DEF h
  <2>5. ASSUME NEW x \in ToSet(t) PROVE x \in ToSet(r) \cup {h}
    <3>1. PICK i \in 1..Len(t) : x = t[i]
      BY <2>1
    <3> QED
      BY <2>1, <2>3, <2>4, <3>1
  <2>6. \A x \in ToSet(r) : x \in ToSet(t)
    BY <2>1, <2>2
  <2>7. h \in ToSet(t)
    BY <2>1, <2>4
  <2> QED
    BY <2>5, <2>6, <2>7
<1>6. (s \o <<h>>) \o r = s \o (<<h>> \o r)
  <2>1. <<h>> \in Seq(Objects) /\ r \in Seq(Objects)
    BY <1>1
  <2> QED
    BY <2>1, ConcatAssociative
<1>7. <<h>> \o r = t
  <2>1. <<h>> \in Seq(Objects) /\ Len(<<h>>) = 1 /\ <<h>>[1] = h
    BY <1>1
  <2> DEFINE u == <<h>> \o r
  <2>2. /\ u \in Seq(Objects) /\ Len(u) = 1 + Len(r)
        /\ \A i \in 1..(1 + Len(r)) : u[i] = IF i <= 1 THEN <<h>>[i] ELSE r[i - 1]
    <3> DEFINE w == <<h>>
    <3>1. w \in Seq(Objects) /\ r \in Seq(Objects) /\ Len(w) = 1
      BY <1>1, <2>1
    <3> HIDE DEF w, r
    <3>2. /\ w \o r \in Seq(Objects) /\ Len(w \o r) = Len(w) + Len(r)
          /\ \A i \in 1..(Len(w) + Len(r)) :
               (w \o r)[i] = IF i <= Len(w) THEN w[i] ELSE r[i - Len(w)]
      BY <3>1, ConcatProperties
    <3> QED
      BY <3>1, <3>2 DEF w
  <2> HIDE DEF u, h, r
  <2>3. Len(u) = Len(t)
    BY <1>1, <1>2, <2>2 DEF r
  <2>4. ASSUME NEW i \in 1..Len(t) PROVE u[i] = t[i]
    <3>1. CASE i = 1
      BY <1>2, <1>3, <2>1, <2>2, <2>3, <3>1 DEF h
    <3>2. CASE i # 1
      <4>1. /\ i - 1 \in 1..Len(Tail(t)) /\ (i - 1) + 1 = i /\ ~(i <= 1)
            /\ i \in 1..(1 + Len(r))
        BY <1>1, <1>2, <2>2, <2>3, <3>2
      <4>2. u[i] = r[i - 1] /\ r[i - 1] = t[i]
        BY <1>1, <2>2, <4>1 DEF r
      <4> QED
        BY <4>2
    <3> QED
      BY <3>1, <3>2
  <2>5. u = t
    BY <2>2, <2>3, <2>4, SeqEqual
  <2> QED
    BY <2>5 DEF u
<1> QED
  BY <1>1, <1>4, <1>5, <1>6, <1>7

LEMMA ListsAre == Lists \subseteq Seq(Names)
<1>1. \A n \in 0..MaxEntries : n \in Nat
  OBVIOUS
<1> QED
  BY <1>1, SeqDef DEF Lists

\* The numbers of the entries of a list that have the same name differ.
LEMMA Numbers ==
  ASSUME NEW list \in Seq(Names)
  PROVE  /\ \A i \in 1..Len(list) : InstNumber(list, i) \in Nat
         /\ \A i, j \in 1..Len(list) :
              list[i] = list[j] /\ InstNumber(list, i) = InstNumber(list, j) => i = j
<1>1. Len(list) \in Nat
  BY LenProperties
<1> DEFINE Entries(i) == {j \in 1..i : list[j] = list[i]}
<1>2. ASSUME NEW i \in 1..Len(list) PROVE IsFiniteSet(Entries(i)) /\ Cardinality(Entries(i)) \in Nat
  <2>1. i \in Int /\ Entries(i) \in SUBSET (1..i)
    BY <1>1
  <2>2. IsFiniteSet(1..i)
    BY <2>1, FS_Interval
  <2>3. IsFiniteSet(Entries(i))
    BY <2>1, <2>2, FS_Subset
  <2> QED
    BY <2>3, FS_CardinalityType
<1>3. ASSUME NEW i \in 1..Len(list), NEW j \in 1..Len(list), i < j, list[i] = list[j]
      PROVE  Cardinality(Entries(i)) # Cardinality(Entries(j))
  <2>1. Entries(i) \in SUBSET Entries(j)
    BY <1>1, <1>3
  <2>2. j \in Entries(j) /\ j \notin Entries(i)
    BY <1>1, <1>3
  <2>3. IsFiniteSet(Entries(j)) /\ Entries(i) # Entries(j)
    BY <1>2, <2>2
  <2> QED
    BY <2>1, <2>3, FS_Subset
<1>4. \A i : InstNumber(list, i) = Cardinality(Entries(i))
  BY DEF InstNumber
<1> HIDE DEF Entries
<1>5. ASSUME NEW i \in 1..Len(list), NEW j \in 1..Len(list),
             list[i] = list[j], InstNumber(list, i) = InstNumber(list, j)
      PROVE  i = j
  <2>1. ~(i < j) /\ ~(j < i)
    BY <1>3, <1>4, <1>5
  <2>2. i \in Int /\ j \in Int
    BY <1>1
  <2> QED
    BY <2>1, <2>2
<1> QED
  BY <1>2, <1>4, <1>5

\* An object of the cache, or one made for the build to come.
LEMMA Loaded ==
  ASSUME NEW list \in Seq(Names), cache \subseteq Objects, builds \in Nat
  PROVE  /\ LoadPlugins(list) \in Seq(Objects)
         /\ Len(LoadPlugins(list)) = Len(list)
         /\ \A i \in 1..Len(list) :
              /\ LoadPlugins(list)[i].name = list[i]
              /\ LoadPlugins(list)[i].num = InstNumber(list, i)
              /\ \/ LoadPlugins(list)[i] \in cache
                 \/ /\ LoadPlugins(list)[i].made = builds
                    /\ Cached(list[i], InstNumber(list, i)) = {}
<1>1. Len(list) \in Nat /\ \A i \in 1..Len(list) : list[i] \in Names /\ InstNumber(list, i) \in Nat
  BY LenProperties, ElementOfSeq, Numbers
<1>2. ASSUME NEW i \in 1..Len(list)
      PROVE  /\ LoadPlugin(list, i) \in Objects
             /\ LoadPlugin(list, i).name = list[i]
             /\ LoadPlugin(list, i).num = InstNumber(list, i)
             /\ \/ LoadPlugin(list, i) \in cache
                \/ /\ LoadPlugin(list, i).made = builds
                   /\ Cached(list[i], InstNumber(list, i)) = {}
  <2>1. CASE Cached(list[i], InstNumber(list, i)) # {}
    <3>1. LoadPlugin(list, i) \in Cached(list[i], InstNumber(list, i))
      BY <2>1 DEF LoadPlugin
    <3> QED
      BY <3>1 DEF Cached
  <2>2. CASE Cached(list[i], InstNumber(list, i)) = {}
    <3>1. LoadPlugin(list, i) = [name |-> list[i], num |-> InstNumber(list, i), made |-> builds]
      BY <2>2 DEF LoadPlugin
    <3> QED
      BY <1>1, <2>2, <3>1 DEF Objects
  <2> QED
    BY <2>1, <2>2
<1>3. LoadPlugins(list) = [i \in 1..Len(list) |-> LoadPlugin(list, i)]
  BY DEF LoadPlugins
<1>4. LoadPlugins(list) \in [1..Len(list) -> Objects]
  BY <1>2, <1>3
<1>5. LoadPlugins(list) \in Seq(Objects)
  BY <1>1, <1>4, SeqDef
<1>6. Len(LoadPlugins(list)) = Len(list)
  <2>1. Len(LoadPlugins(list)) \in Nat /\ 1..Len(LoadPlugins(list)) = 1..Len(list)
    BY <1>4, <1>5, LenProperties
  <2>2. \A m, n \in Nat : 1..m = 1..n => m = n
    <3> SUFFICES ASSUME NEW m \in Nat, NEW n \in Nat, 1..m = 1..n PROVE m = n
      OBVIOUS
    <3>1. Cardinality(1..m) = m /\ Cardinality(1..n) = n
      BY FS_Interval
    <3> QED
      BY <3>1
  <2> QED
    BY <1>1, <2>1, <2>2
<1>7. \A i \in 1..Len(list) : LoadPlugins(list)[i] = LoadPlugin(list, i)
  BY <1>3
<1> QED
  BY <1>2, <1>5, <1>6, <1>7

-----------------------------------------------------------------------------
(* The inductive invariant.                                                *)
Phases == {"load", "startup", "idle", "shutdown", "over"} \cup BuildEvents

TypeOK ==
  /\ yml \in Lists /\ edits \in Nat
  /\ cache \subseteq Objects
  /\ plugins \in Seq(Objects) /\ first \in Seq(Objects)
  /\ version \in Nat /\ configured \subseteq Objects \X Nat
  /\ phase \in Phases
  /\ todo \in Seq(Objects) /\ called \in Seq(Objects)
  /\ builds \in Nat /\ used \subseteq Objects \X Nat
  /\ started \subseteq Objects /\ ended \subseteq Objects
  /\ raised \in BOOLEAN

(* What is called and what is still to be called are the event's methods.  *)
EventInOrder == phase \in BuildEvents => called \o todo = Methods(plugins, Names)

OneTime == {o \in ToSet(first) : o.name \in Persistent}

(* What the one-time events have done so far, by phases.                   *)
OneTimeEvents ==
  /\ phase = "load" => builds = 0 /\ started = {} /\ ended = {} /\ cache = {}
  /\ phase = "startup" => builds = 0 /\ started \cup ToSet(todo) = OneTime /\ ended = {}
  /\ phase \in BuildEvents \cup {"idle"} => started = OneTime /\ ended = {}
  /\ phase = "shutdown" => started = OneTime /\ ended \cup ToSet(todo) = OneTime
  /\ phase = "over" => /\ ended \subseteq started
                       /\ ~raised => started = ended
                       /\ builds > 0 => started = OneTime

(* There is one object in the cache for each place of a name, and none for *)
(* a plugin without one-time events.                                       *)
OneOfEach ==
  /\ \A o \in cache : o.name \in Persistent
  /\ \A o, p \in cache : o.name = p.name /\ o.num = p.num => o = p

(* A plugin is in the cache or made for the build.                         *)
Tied(o, build) ==
  IF o.name \in Persistent THEN o \in cache ELSE o.made + 1 = build

ObjectsTied ==
  /\ \A u \in used : Tied(u[1], u[2])
  /\ phase = "startup" => \A o \in ToSet(plugins) : Tied(o, 1)
  /\ phase \in BuildEvents => \A o \in ToSet(plugins) : Tied(o, builds)

(* The plugins have the options of the mkdocs.yml they were loaded from.   *)
Options(o) == {c[2] : c \in {d \in configured : d[1] = o}}

OptionsCurrent ==
  phase \in BuildEvents \cup {"startup"} => \A o \in ToSet(plugins) : Options(o) = {version}

-----------------------------------------------------------------------------
\* The objects and configurations of a load.
LEMMA LoadTypes ==
  ASSUME TypeOK, NEW list \in Seq(Names)
  PROVE  /\ LoadPlugins(list) \in Seq(Objects)
         /\ ToSet(LoadPlugins(list)) \subseteq Objects
         /\ Keep(ToSet(LoadPlugins(list))) \subseteq Objects
         /\ Configure(ToSet(LoadPlugins(list))) \subseteq Objects \X Nat
<1>1. LoadPlugins(list) \in Seq(Objects)
  BY Loaded DEF TypeOK
<1>2. ToSet(LoadPlugins(list)) \subseteq Objects
  BY <1>1, ToSetOf
<1>3. Keep(ToSet(LoadPlugins(list))) \subseteq Objects
  BY <1>2 DEF Keep
<1>4. Configure(ToSet(LoadPlugins(list))) \subseteq Objects \X Nat
  BY <1>2 DEF Configure, TypeOK
<1> QED
  BY <1>1, <1>2, <1>3, <1>4

LEMMA LoadedPart ==
  ASSUME NEW list \in Seq(Names), NEW k \in 0..Len(list)
  PROVE  SubSeq(list, 1, k) \in Seq(Names)
<1>1. /\ Len(list) \in Nat /\ 1 \in Int /\ k \in Int
      /\ \A i \in 1..Len(list) : list[i] \in Names
  BY LenProperties, ElementOfSeq
<1>2. \A i \in 1..k : list[i] \in Names
  BY <1>1
<1> QED
  BY <1>1, <1>2, SubSeqProperties

\* Every value of a variable is one that the code puts there.
THEOREM PluginTypes == Spec => []TypeOK
<1>1. Init => TypeOK
  <2>1. <<>> \in Seq(Objects)
    BY EmptySeq
  <2> SUFFICES ASSUME Init PROVE TypeOK
    OBVIOUS
  <2>2. plugins \in Seq(Objects) /\ first \in Seq(Objects) /\ todo \in Seq(Objects) /\ called \in Seq(Objects)
    BY <2>1 DEF Init
  <2>3. yml \in Lists /\ phase \in Phases /\ raised \in BOOLEAN
    BY DEF Init, Phases
  <2> QED
    BY <2>2, <2>3 DEF Init, TypeOK
<1>2. TypeOK /\ [Next]_vars => TypeOK'
  <2> SUFFICES ASSUME TypeOK, [Next]_vars PROVE TypeOK'
    OBVIOUS
  <2> USE DEF TypeOK
  <2>1. yml \in Seq(Names) /\ edits \in Nat
    BY ListsAre
  <2>2. \A having : /\ Methods(plugins, having) \in Seq(Objects)
                    /\ Methods(first, having) \in Seq(Objects)
    BY MethodsOf
  <2>3. <<>> \in Seq(Objects)
    BY EmptySeq
  <2>4. ASSUME NEW list \in Lists, Edit(list) PROVE TypeOK'
    BY <2>4 DEF Edit, configVars, eventVars, pastVars
  <2>5. CASE LoadFirst
    <3>1. /\ LoadPlugins(yml) \in Seq(Objects)
          /\ Keep(ToSet(LoadPlugins(yml))) \subseteq Objects
          /\ Configure(ToSet(LoadPlugins(yml))) \subseteq Objects \X Nat
      BY <2>1, LoadTypes
    <3>2. Methods(LoadPlugins(yml), Persistent) \in Seq(Objects)
      BY <3>1, MethodsOf
    <3> QED
      BY <2>3, <2>5, <3>1, <3>2 DEF LoadFirst, RunEvent, fileVars, pastVars, Phases
  <2>6. CASE Reload
    <3>1. /\ LoadPlugins(yml) \in Seq(Objects)
          /\ Keep(ToSet(LoadPlugins(yml))) \subseteq Objects
          /\ Configure(ToSet(LoadPlugins(yml))) \subseteq Objects \X Nat
      BY <2>1, LoadTypes
    <3>2. Methods(LoadPlugins(yml), Names) \in Seq(Objects)
      BY <3>1, MethodsOf
    <3> QED
      BY <2>3, <2>6, <3>1, <3>2 DEF Reload, RunEvent, fileVars, Phases, BuildEvents
  <2>7. ASSUME NEW k \in 0..MaxEntries, LoadFails(k) PROVE TypeOK'
    <3> DEFINE part == SubSeq(yml, 1, k)
    <3>1. part \in Seq(Names)
      BY <2>1, <2>7, LoadedPart DEF LoadFails
    <3>2. /\ Keep(ToSet(LoadPlugins(part))) \subseteq Objects
          /\ Configure(ToSet(LoadPlugins(part))) \subseteq Objects \X Nat
      BY <3>1, LoadTypes
    <3> QED
      BY <2>2, <2>3, <2>7, <3>2
      DEF LoadFails, EndCommand, Shut, RunEvent, fileVars, eventVars, pastVars, Phases
  <2>8. CASE Call
    <3>1. /\ Head(todo) \in Objects /\ Tail(todo) \in Seq(Objects)
          /\ Append(called, Head(todo)) \in Seq(Objects)
      BY <2>8, NextMethod DEF Call
    <3> QED
      BY <2>8, <3>1 DEF Call, fileVars, configVars
  <2>9. CASE CallRaises
    BY <2>2, <2>3, <2>9 DEF CallRaises, EndCommand, Shut, RunEvent, fileVars, configVars, Phases, BuildEvents
  <2>10. CASE BuildFails
    BY <2>2, <2>3, <2>10 DEF BuildFails, RunEvent, fileVars, configVars, pastVars, Phases, BuildEvents
  <2>11. CASE EventEnds
    <3>1. /\ todo' \in Seq(Objects) /\ called' \in Seq(Objects)
          /\ phase' \in Phases /\ builds' \in Nat
      <4> USE DEF EventEnds, RunEvent
      <4>1. CASE phase = "startup"
        BY <2>2, <2>3, <2>11, <4>1 DEF Phases, BuildEvents
      <4>2. CASE phase = "config"
        BY <2>2, <2>3, <2>11, <4>2 DEF Phases, BuildEvents
      <4>3. CASE phase = "build_error"
        BY <2>2, <2>3, <2>11, <4>3 DEF EndCommand, Shut, Phases
      <4>4. CASE phase \in {"post_build", "shutdown"}
        BY <2>3, <2>11, <4>4 DEF Phases
      <4> QED
        BY <2>11, <4>1, <4>2, <4>3, <4>4
    <3> QED
      BY <2>11, <3>1 DEF EventEnds, fileVars, configVars
  <2>12. CASE Stop
    BY <2>2, <2>3, <2>12 DEF Stop, EndCommand, Shut, RunEvent, fileVars, configVars, pastVars, Phases
  <2>13. CASE UNCHANGED vars
    BY <2>13 DEF vars, fileVars, configVars, eventVars, pastVars
  <2> QED
    BY <2>4, <2>5, <2>6, <2>7, <2>8, <2>9, <2>10, <2>11, <2>12, <2>13 DEF Next
<1> QED
  BY <1>1, <1>2, PTL DEF Spec
-----------------------------------------------------------------------------
(* The one-time events.                                                    *)

LEMMA NoMethods == ToSet(<<>>) = {}
<1>1. DOMAIN <<>> = {}
  OBVIOUS
<1> QED
  BY <1>1 DEF ToSet

\* No step changes what the one-time events have done, but for the step of
\* the event that is run.
LEMMA OneTimeStep ==
  ASSUME TypeOK, OneTimeEvents, [Next]_vars
  PROVE  OneTimeEvents'
<1> USE DEF BuildEvents
<1>1. ToSet(Methods(first, Persistent)) = OneTime
  BY MethodsOf DEF TypeOK, OneTime
<1>2. phase \in Phases /\ builds \in Nat
  BY DEF TypeOK
<1>3. ASSUME NEW list \in Lists, Edit(list) PROVE OneTimeEvents'
  BY <1>3 DEF OneTimeEvents, OneTime, Edit, configVars, eventVars, pastVars
<1>4. CASE LoadFirst
  <2> DEFINE objects == LoadPlugins(yml)
  <2>1. objects \in Seq(Objects)
    BY ListsAre, LoadTypes DEF TypeOK
  <2>2. ToSet(Methods(objects, Persistent)) = {o \in ToSet(objects) : o.name \in Persistent}
    BY <2>1, MethodsOf
  <2>3. phase = "load" /\ phase' = "startup" /\ todo' = Methods(objects, Persistent)
        /\ first' = objects /\ UNCHANGED <<builds, started, ended>>
    BY <1>4 DEF LoadFirst, RunEvent, pastVars
  <2> HIDE DEF objects
  <2> QED
    BY <2>2, <2>3 DEF OneTimeEvents, OneTime
<1>5. CASE Reload
  <2>1. phase = "idle" /\ phase' = "config" /\ UNCHANGED <<first, started, ended>>
    BY <1>5 DEF Reload, RunEvent
  <2> QED
    BY <2>1 DEF OneTimeEvents, OneTime
<1>6. ASSUME NEW k \in 0..MaxEntries, LoadFails(k) PROVE OneTimeEvents'
  <2>1. UNCHANGED <<first, builds, started, ended, raised>>
    BY <1>6 DEF LoadFails, pastVars
  <2>2. CASE phase = "load"
    <3>1. phase' = "over"
      BY <1>6, <2>2 DEF LoadFails
    <3> QED
      BY <1>2, <2>1, <2>2, <3>1 DEF OneTimeEvents
  <2>3. CASE phase = "idle"
    <3>1. phase' = "shutdown" /\ todo' = Methods(first, Persistent)
      BY <1>6, <2>3 DEF LoadFails, EndCommand, Shut, RunEvent
    <3> QED
      BY <1>1, <2>1, <2>3, <3>1 DEF OneTimeEvents, OneTime
  <2> QED
    BY <1>6, <2>2, <2>3 DEF LoadFails
<1>7. CASE Call
  <2>1. ToSet(todo) = ToSet(todo') \cup {Head(todo)}
    BY <1>7, NextMethod DEF Call, TypeOK
  <2>2. UNCHANGED <<first, phase, builds, cache, raised>>
    BY <1>7 DEF Call, configVars
  <2>3. /\ started' = IF phase = "startup" THEN started \cup {Head(todo)} ELSE started
        /\ ended' = IF phase = "shutdown" THEN ended \cup {Head(todo)} ELSE ended
    BY <1>7 DEF Call
  <2>4. phase # "load" /\ phase # "over" => OneTimeEvents'
    BY <2>1, <2>2, <2>3 DEF OneTimeEvents, OneTime
  <2>5. phase = "load" \/ phase = "over" => OneTimeEvents'
    BY <2>2, <2>3 DEF OneTimeEvents, OneTime
  <2> QED
    BY <2>4, <2>5
<1>8. CASE CallRaises
  <2>1. UNCHANGED <<first, builds, started, ended>>
    BY <1>8 DEF CallRaises
  <2>2. CASE phase \in {"startup", "shutdown"}
    <3>1. phase' = "over" /\ raised'
      BY <1>8, <2>2 DEF CallRaises
    <3> QED
      BY <1>2, <2>1, <2>2, <3>1 DEF OneTimeEvents, OneTime
  <2>3. CASE phase \in {"config", "post_build"}
    <3>1. phase' = "build_error"
      BY <1>8, <2>3 DEF CallRaises, RunEvent
    <3> QED
      BY <2>1, <2>3, <3>1 DEF OneTimeEvents, OneTime
  <2>4. CASE phase = "build_error"
    <3>1. phase' = "shutdown" /\ todo' = Methods(first, Persistent)
      BY <1>8, <2>4 DEF CallRaises, EndCommand, Shut, RunEvent
    <3> QED
      BY <1>1, <2>1, <2>4, <3>1 DEF OneTimeEvents, OneTime
  <2> QED
    BY <1>8, <2>2, <2>3, <2>4 DEF CallRaises
<1>9. CASE BuildFails
  <2>1. /\ phase \in {"config", "post_build"} /\ phase' = "build_error"
        /\ UNCHANGED <<first, started, ended>>
    BY <1>9 DEF BuildFails, RunEvent, pastVars
  <2> QED
    BY <2>1 DEF OneTimeEvents, OneTime
<1>10. CASE EventEnds
  <2>1. UNCHANGED <<first, started, ended, raised>> /\ ToSet(todo) = {}
    BY <1>10, NoMethods DEF EventEnds
  <2>2. CASE phase = "startup"
    <3>1. phase' = "config"
      BY <1>10, <2>2 DEF EventEnds, RunEvent
    <3> QED
      BY <2>1, <2>2, <3>1 DEF OneTimeEvents, OneTime
  <2>3. CASE phase = "config"
    <3>1. phase' = "post_build"
      BY <1>10, <2>3 DEF EventEnds, RunEvent
    <3> QED
      BY <2>1, <2>3, <3>1 DEF OneTimeEvents, OneTime
  <2>4. CASE phase = "build_error"
    <3>1. phase' = "shutdown" /\ todo' = Methods(first, Persistent)
      BY <1>10, <2>4 DEF EventEnds, EndCommand, Shut, RunEvent
    <3> QED
      BY <1>1, <2>1, <2>4, <3>1 DEF OneTimeEvents, OneTime
  <2>5. CASE phase = "post_build"
    <3>1. phase' = "idle"
      BY <1>10, <2>5 DEF EventEnds
    <3> QED
      BY <2>1, <2>5, <3>1 DEF OneTimeEvents, OneTime
  <2>6. CASE phase = "shutdown"
    <3>1. phase' = "over"
      BY <1>10, <2>6 DEF EventEnds
    <3> QED
      BY <2>1, <2>6, <3>1 DEF OneTimeEvents, OneTime
  <2> QED
    BY <1>10, <2>2, <2>3, <2>4, <2>5, <2>6 DEF EventEnds
<1>11. CASE Stop
  <2>1. /\ phase = "idle" /\ phase' = "shutdown" /\ todo' = Methods(first, Persistent)
        /\ UNCHANGED <<first, started, ended>>
    BY <1>11 DEF Stop, EndCommand, Shut, RunEvent, pastVars
  <2> QED
    BY <1>1, <2>1 DEF OneTimeEvents, OneTime
<1>12. CASE UNCHANGED vars
  BY <1>12 DEF OneTimeEvents, OneTime, vars, configVars, eventVars, pastVars
<1> QED
  BY <1>3, <1>4, <1>5, <1>6, <1>7, <1>8, <1>9, <1>10, <1>11, <1>12 DEF Next

(* Every plugin that was started is shut down when the process ends, with  *)
(* any plugins, whatever they raise, and takes part in no build before the *)
(* one or after the other.                                                 *)
THEOREM PluginsShutDown == Spec => []StartedAreShutDown
<1>1. Init => OneTimeEvents
  BY DEF Init, OneTimeEvents, BuildEvents
<1>2. TypeOK /\ OneTimeEvents => StartedAreShutDown
  <2> SUFFICES ASSUME TypeOK, OneTimeEvents PROVE StartedAreShutDown
    OBVIOUS
  <2> USE DEF OneTimeEvents, BuildEvents
  <2>1. phase \in Phases /\ builds \in Nat
    BY DEF TypeOK
  <2>2. phase = "over" /\ ~raised => started = ended
    OBVIOUS
  <2>3. ended \subseteq started
    BY <2>1 DEF Phases
  <2>4. builds > 0 => started = OneTime
    BY <2>1 DEF Phases
  <2>5. ended # {} => phase \in {"shutdown", "over"}
    BY <2>1 DEF Phases
  <2> QED
    BY <2>2, <2>3, <2>4, <2>5 DEF StartedAreShutDown, OneTime
<1>3. TypeOK /\ OneTimeEvents /\ [Next]_vars => OneTimeEvents'
  BY OneTimeStep
<1> QED
  BY <1>1, <1>2, <1>3, PluginTypes, PTL DEF Spec

-----------------------------------------------------------------------------
(* The order of the methods.                                               *)

\* A step of a build's event calls the next method, or starts an event with
\* all its methods.
LEMMA EventStep ==
  ASSUME TypeOK, EventInOrder, [Next]_vars
  PROVE  EventInOrder'
<1> USE DEF BuildEvents
<1>1. \A c \in Seq(Objects) : <<>> \o Methods(c, Names) = Methods(c, Names)
  <2> SUFFICES ASSUME NEW c \in Seq(Objects) PROVE <<>> \o Methods(c, Names) = Methods(c, Names)
    OBVIOUS
  <2>1. Methods(c, Names) \in Seq(Objects)
    BY MethodsOf
  <2> QED
    BY <2>1, ConcatEmptySeq
<1>2. ASSUME plugins' \in Seq(Objects), RunEvent("config", Methods(plugins', Names))
             \/ RunEvent("post_build", Methods(plugins', Names))
             \/ RunEvent("build_error", Methods(plugins', Names))
      PROVE  EventInOrder'
  BY <1>1, <1>2 DEF EventInOrder, RunEvent
<1>3. plugins \in Seq(Objects)
  BY DEF TypeOK
<1>4. ASSUME phase' \notin BuildEvents PROVE EventInOrder'
  BY <1>4 DEF EventInOrder
<1>5. ASSUME NEW list \in Lists, Edit(list) PROVE EventInOrder'
  BY <1>5 DEF EventInOrder, Edit, configVars, eventVars
<1>6. CASE LoadFirst
  BY <1>4, <1>6 DEF LoadFirst, RunEvent
<1>7. CASE Reload
  <2>1. LoadPlugins(yml) \in Seq(Objects)
    BY ListsAre, LoadTypes DEF TypeOK
  <2> QED
    BY <1>2, <1>7, <2>1 DEF Reload
<1>8. ASSUME NEW k \in 0..MaxEntries, LoadFails(k) PROVE EventInOrder'
  BY <1>4, <1>8 DEF LoadFails, EndCommand, Shut, RunEvent
<1>9. CASE Call
  <2>1. called' \o todo' = called \o todo
    BY <1>9, NextMethod DEF Call, TypeOK
  <2> QED
    BY <1>9, <2>1 DEF Call, EventInOrder, configVars
<1>10. CASE CallRaises
  <2>1. plugins' = plugins
    BY <1>10 DEF CallRaises, configVars
  <2>2. phase' \notin BuildEvents \/ RunEvent("build_error", Methods(plugins, Names))
    BY <1>10 DEF CallRaises, EndCommand, Shut, RunEvent
  <2> QED
    BY <1>2, <1>3, <1>4, <2>1, <2>2
<1>11. CASE BuildFails
  BY <1>2, <1>3, <1>11 DEF BuildFails, configVars
<1>12. CASE EventEnds
  <2>1. plugins' = plugins
    BY <1>12 DEF EventEnds, configVars
  <2>2. \/ phase' \notin BuildEvents
        \/ RunEvent("config", Methods(plugins, Names))
        \/ RunEvent("post_build", Methods(plugins, Names))
    BY <1>12 DEF EventEnds, EndCommand, Shut, RunEvent
  <2> QED
    BY <1>2, <1>3, <1>4, <2>1, <2>2
<1>13. CASE Stop
  BY <1>4, <1>13 DEF Stop, EndCommand, Shut, RunEvent
<1>14. CASE UNCHANGED vars
  BY <1>14 DEF EventInOrder, vars, configVars, eventVars
<1> QED
  BY <1>5, <1>6, <1>7, <1>8, <1>9, <1>10, <1>11, <1>12, <1>13, <1>14 DEF Next

\* Those called are the first of the event's methods.
LEMMA CalledFirst ==
  ASSUME TypeOK, EventInOrder, phase \in BuildEvents
  PROVE  /\ \A i \in DOMAIN called : /\ i \in DOMAIN Methods(plugins, Names)
                                     /\ called[i] = Methods(plugins, Names)[i]
         /\ ToSet(called) \cup ToSet(todo) \subseteq ToSet(plugins)
<1> DEFINE all == Methods(plugins, Names)
<1>1. called \in Seq(Objects) /\ todo \in Seq(Objects) /\ all \in Seq(Objects)
  BY MethodsOf DEF TypeOK
<1>2. all = called \o todo
  BY DEF EventInOrder
<1>3. ToSet(all) \subseteq ToSet(plugins)
  BY MethodsOf DEF TypeOK
<1> HIDE DEF all
<1>4. /\ Len(called) \in Nat /\ Len(todo) \in Nat /\ Len(all) = Len(called) + Len(todo)
      /\ \A i \in 1..(Len(called) + Len(todo)) :
           all[i] = IF i <= Len(called) THEN called[i] ELSE todo[i - Len(called)]
  BY <1>1, <1>2, ConcatProperties, LenProperties
<1>5. /\ DOMAIN called = 1..Len(called) /\ DOMAIN all = 1..Len(all)
      /\ ToSet(called) = {called[i] : i \in 1..Len(called)}
      /\ ToSet(todo) = {todo[i] : i \in 1..Len(todo)}
      /\ ToSet(all) = {all[i] : i \in 1..Len(all)}
  BY <1>1, LenProperties, ToSetOf
<1>6. \A i \in 1..Len(called) : i \in 1..Len(all) /\ all[i] = called[i]
  BY <1>4
<1>7. \A i \in 1..Len(todo) : i + Len(called) \in 1..Len(all) /\ all[i + Len(called)] = todo[i]
  <2> SUFFICES ASSUME NEW i \in 1..Len(todo)
               PROVE  i + Len(called) \in 1..Len(all) /\ all[i + Len(called)] = todo[i]
    OBVIOUS
  <2>1. /\ i + Len(called) \in 1..Len(all) /\ ~(i + Len(called) <= Len(called))
        /\ (i + Len(called)) - Len(called) = i
    BY <1>4
  <2> QED
    BY <1>4, <2>1
<1>8. ToSet(called) \subseteq ToSet(all) /\ ToSet(todo) \subseteq ToSet(all)
  BY <1>5, <1>6, <1>7
<1> QED
  BY <1>3, <1>5, <1>6, <1>8 DEF all

(* The methods of an event are called by descending priority, those of the *)
(* same priority in the order of mkdocs.yml, for any list of plugins and   *)
(* any priorities: what the series of insertions by insort comes to.       *)
THEOREM PluginsCalledInOrder == Spec => []CallsInOrder
<1>1. Init => EventInOrder
  BY DEF Init, EventInOrder, BuildEvents
<1>2. TypeOK /\ EventInOrder => CallsInOrder
  <2> SUFFICES ASSUME TypeOK, EventInOrder, phase \in BuildEvents,
                      NEW i \in DOMAIN called, NEW j \in DOMAIN called, i < j
               PROVE  \/ Priority[called[i].name] > Priority[called[j].name]
                      \/ /\ Priority[called[i].name] = Priority[called[j].name]
                         /\ \E k, l \in DOMAIN plugins :
                              k < l /\ plugins[k] = called[i] /\ plugins[l] = called[j]
    BY DEF CallsInOrder
  <2>1. plugins \in Seq(Objects) /\ DOMAIN plugins = 1..Len(plugins)
    BY LenProperties DEF TypeOK
  <2>2. /\ i \in DOMAIN Methods(plugins, Names) /\ called[i] = Methods(plugins, Names)[i]
        /\ j \in DOMAIN Methods(plugins, Names) /\ called[j] = Methods(plugins, Names)[j]
    BY CalledFirst
  <2>3. Before(plugins, Len(plugins), called[i], called[j])
    BY <2>1, <2>2, MethodsOf
  <2> QED
    BY <2>1, <2>3 DEF Before, Prio
<1>3. TypeOK /\ EventInOrder /\ [Next]_vars => EventInOrder'
  BY EventStep
<1> QED
  BY <1>1, <1>2, <1>3, PluginTypes, PTL DEF Spec
-----------------------------------------------------------------------------
(* The objects of the plugins and their options.                           *)

\* What is loaded: the objects to be kept are one for each place of a name.
LEMMA LoadOneOfEach ==
  ASSUME TypeOK, OneOfEach, NEW list \in Seq(Names)
  PROVE  LET kept == cache \cup Keep(ToSet(LoadPlugins(list)))
         IN /\ \A o \in kept : o.name \in Persistent
            /\ \A o, p \in kept : o.name = p.name /\ o.num = p.num => o = p
            /\ \A o \in ToSet(LoadPlugins(list)) :
                 IF o.name \in Persistent THEN o \in kept ELSE o.made = builds
<1> DEFINE c == LoadPlugins(list)
<1>1. /\ c \in Seq(Objects) /\ Len(c) = Len(list)
      /\ \A i \in 1..Len(list) :
           /\ c[i].name = list[i]
           /\ c[i].num = InstNumber(list, i)
           /\ \/ c[i] \in cache
              \/ c[i].made = builds /\ Cached(list[i], InstNumber(list, i)) = {}
  BY Loaded DEF TypeOK
<1> HIDE DEF c
<1>2. ToSet(c) = {c[i] : i \in 1..Len(list)}
  BY <1>1, ToSetOf
<1>3. \A o \in cache \cup Keep(ToSet(c)) : o.name \in Persistent
  BY DEF Keep, OneOfEach
<1>4. ASSUME NEW o \in ToSet(c), NEW p \in ToSet(c), o.name = p.name, o.num = p.num
      PROVE  o = p
  <2>1. PICK i \in 1..Len(list), j \in 1..Len(list) : o = c[i] /\ p = c[j]
    BY <1>2
  <2>2. list[i] = list[j] /\ InstNumber(list, i) = InstNumber(list, j)
    BY <1>1, <1>4, <2>1
  <2>3. i = j
    BY <2>2, Numbers
  <2> QED
    BY <2>1, <2>3
<1>5. ASSUME NEW o \in ToSet(c), NEW p \in cache, o.name = p.name, o.num = p.num
      PROVE  o = p
  <2>1. PICK i \in 1..Len(list) : o = c[i]
    BY <1>2
  <2>2. p \in Cached(list[i], InstNumber(list, i))
    BY <1>1, <1>5, <2>1 DEF Cached
  <2>3. o \in cache
    BY <1>1, <2>1, <2>2
  <2> QED
    BY <1>5, <2>3 DEF OneOfEach
<1>6. ASSUME NEW o \in cache \cup Keep(ToSet(c)), NEW p \in cache \cup Keep(ToSet(c)),
             o.name = p.name, o.num = p.num
      PROVE  o = p
  <2>1. o \in cache \cup ToSet(c) /\ p \in cache \cup ToSet(c)
    BY DEF Keep
  <2> QED
    BY <1>4, <1>5, <1>6, <2>1 DEF OneOfEach
<1>7. ASSUME NEW o \in ToSet(c)
      PROVE  IF o.name \in Persistent THEN o \in cache \cup Keep(ToSet(c)) ELSE o.made = builds
  <2>1. PICK i \in 1..Len(list) : o = c[i]
    BY <1>2
  <2>2. o \in cache \/ o.made = builds
    BY <1>1, <2>1
  <2>3. o \in cache => o.name \in Persistent
    BY DEF OneOfEach
  <2> QED
    BY <2>2, <2>3 DEF Keep
<1> QED
  BY <1>3, <1>6, <1>7 DEF c

\* load_config leaves a plugin with the options of the mkdocs.yml being loaded.
LEMMA ConfiguredNow ==
  ASSUME NEW objects, NEW o \in objects
  PROVE  {c[2] : c \in {d \in Configure(objects) : d[1] = o}} = {edits}
<1> DEFINE own == {d \in Configure(objects) : d[1] = o}
<1>1. own = {<<o, edits>>}
  BY DEF Configure
<1>2. <<o, edits>>[2] = edits
  OBVIOUS
<1> HIDE DEF own
<1>3. \A x : x \in {c[2] : c \in own} <=> x = edits
  BY <1>1, <1>2
<1> QED
  BY <1>3 DEF own

\* Each load keeps one object for each place of a name.
LEMMA OneOfEachStep ==
  ASSUME TypeOK, OneTimeEvents, OneOfEach, [Next]_vars
  PROVE  OneOfEach' /\ cache \subseteq cache'
<1>1. CASE UNCHANGED cache
  BY <1>1 DEF OneOfEach
<1>2. ASSUME NEW list \in Seq(Names), cache' = cache \cup Keep(ToSet(LoadPlugins(list)))
      PROVE  OneOfEach' /\ cache \subseteq cache'
  <2> DEFINE kept == cache \cup Keep(ToSet(LoadPlugins(list)))
  <2>1. /\ \A o \in kept : o.name \in Persistent
        /\ \A o, p \in kept : o.name = p.name /\ o.num = p.num => o = p
    BY LoadOneOfEach
  <2>2. cache' = kept /\ cache \subseteq kept
    BY <1>2
  <2> HIDE DEF kept
  <2> QED
    BY <2>1, <2>2 DEF OneOfEach
<1>3. yml \in Seq(Names)
  BY ListsAre DEF TypeOK
<1>4. CASE LoadFirst
  <2>1. cache' = cache \cup Keep(ToSet(LoadPlugins(yml)))
    BY <1>4 DEF LoadFirst, OneTimeEvents
  <2> QED
    BY <1>2, <1>3, <2>1
<1>5. CASE Reload
  <2>1. cache' = cache \cup Keep(ToSet(LoadPlugins(yml)))
    BY <1>5 DEF Reload
  <2> QED
    BY <1>2, <1>3, <2>1
<1>6. ASSUME NEW k \in 0..MaxEntries, LoadFails(k) PROVE OneOfEach' /\ cache \subseteq cache'
  <2>1. SubSeq(yml, 1, k) \in Seq(Names)
    BY <1>3, <1>6, LoadedPart DEF LoadFails
  <2>2. cache' = cache \cup Keep(ToSet(LoadPlugins(SubSeq(yml, 1, k))))
    BY <1>6 DEF LoadFails
  <2> QED
    BY <1>2, <2>1, <2>2
<1>7. ASSUME ~LoadFirst, ~Reload, \A k \in 0..MaxEntries : ~LoadFails(k) PROVE UNCHANGED cache
  BY <1>7 DEF Next, Edit, Call, CallRaises, BuildFails, EventEnds, Stop, vars, configVars
<1> QED
  BY <1>1, <1>4, <1>5, <1>6, <1>7

\* What is used in a build is kept or was made for it.
LEMMA TiedStep ==
  ASSUME TypeOK, OneTimeEvents, OneOfEach, EventInOrder, ObjectsTied, [Next]_vars
  PROVE  ObjectsTied'
<1> USE DEF BuildEvents
<1>1. cache \subseteq cache'
  BY OneOfEachStep
<1>2. \A o, b : Tied(o, b) => Tied(o, b)'
  BY <1>1 DEF Tied
<1>3. yml \in Seq(Names) /\ builds \in Nat
  BY ListsAre DEF TypeOK
<1>4. ASSUME used' = used, phase' \notin BuildEvents \cup {"startup"} PROVE ObjectsTied'
  BY <1>2, <1>4 DEF ObjectsTied
<1>5. ASSUME used' = used, plugins' = plugins, builds' = builds,
             phase' = phase \/ (phase \in BuildEvents /\ phase' \in BuildEvents)
      PROVE  ObjectsTied'
  BY <1>2, <1>5 DEF ObjectsTied
<1>6. ASSUME plugins' = LoadPlugins(yml), cache' = cache \cup Keep(ToSet(LoadPlugins(yml)))
      PROVE  \A o \in ToSet(plugins') :
               IF o.name \in Persistent THEN o \in cache' ELSE o.made = builds
  <2> DEFINE c == LoadPlugins(yml)
             kept == cache \cup Keep(ToSet(c))
  <2>1. \A o \in ToSet(c) : IF o.name \in Persistent THEN o \in kept ELSE o.made = builds
    BY <1>3, LoadOneOfEach
  <2>2. cache' = kept /\ plugins' = c
    BY <1>6
  <2> HIDE DEF c, kept
  <2> QED
    BY <2>1, <2>2
<1>7. ASSUME NEW list \in Lists, Edit(list) PROVE ObjectsTied'
  BY <1>5, <1>7 DEF Edit, configVars, pastVars
<1>8. CASE LoadFirst
  <2>1. /\ plugins' = LoadPlugins(yml) /\ cache' = cache \cup Keep(ToSet(LoadPlugins(yml)))
        /\ phase' = "startup" /\ used' = used /\ builds = 0
    BY <1>8 DEF LoadFirst, RunEvent, pastVars, OneTimeEvents
  <2>2. \A o \in ToSet(plugins') : Tied(o, 1)'
    <3> SUFFICES ASSUME NEW o \in ToSet(plugins')
                 PROVE  IF o.name \in Persistent THEN o \in cache' ELSE o.made + 1 = 1
      BY DEF Tied
    <3>1. IF o.name \in Persistent THEN o \in cache' ELSE o.made = 0
      BY <1>6, <2>1
    <3> QED
      BY <3>1
  <2> QED
    BY <1>2, <2>1, <2>2 DEF ObjectsTied
<1>9. CASE Reload
  <2>1. /\ plugins' = LoadPlugins(yml) /\ cache' = cache \cup Keep(ToSet(LoadPlugins(yml)))
        /\ phase' = "config" /\ used' = used /\ builds' = builds + 1
    BY <1>9 DEF Reload, RunEvent
  <2>2. \A o \in ToSet(plugins') : Tied(o, builds)'
    <3> SUFFICES ASSUME NEW o \in ToSet(plugins')
                 PROVE  IF o.name \in Persistent THEN o \in cache' ELSE o.made + 1 = builds'
      BY DEF Tied
    <3>1. IF o.name \in Persistent THEN o \in cache' ELSE o.made = builds
      BY <1>6, <2>1
    <3> QED
      BY <2>1, <3>1
  <2> QED
    BY <1>2, <2>1, <2>2 DEF ObjectsTied
<1>10. ASSUME NEW k \in 0..MaxEntries, LoadFails(k) PROVE ObjectsTied'
  BY <1>4, <1>10 DEF LoadFails, EndCommand, Shut, RunEvent, pastVars
<1>11. CASE Call
  <2>1. UNCHANGED <<plugins, builds, phase, cache>>
    BY <1>11 DEF Call, configVars
  <2>2. CASE phase \notin BuildEvents
    BY <1>5, <1>11, <2>1, <2>2 DEF Call
  <2>3. CASE phase \in BuildEvents
    <3>1. used' = used \cup {<<Head(todo), builds>>}
      BY <1>11, <2>3 DEF Call
    <3>2. Head(todo) \in ToSet(todo)
      BY <1>11, NextMethod DEF Call, TypeOK
    <3>3. Head(todo) \in ToSet(plugins)
      BY <2>3, <3>2, CalledFirst
    <3>4. Tied(Head(todo), builds)
      BY <2>3, <3>3 DEF ObjectsTied
    <3> QED
      BY <1>2, <2>1, <2>3, <3>1, <3>4 DEF ObjectsTied
  <2> QED
    BY <2>2, <2>3
<1>12. CASE CallRaises
  BY <1>4, <1>5, <1>12 DEF CallRaises, EndCommand, Shut, RunEvent, configVars
<1>13. CASE BuildFails
  BY <1>5, <1>13 DEF BuildFails, RunEvent, configVars, pastVars
<1>14. CASE EventEnds
  <2>1. used' = used /\ plugins' = plugins
    BY <1>14 DEF EventEnds, configVars
  <2>2. CASE phase = "startup"
    <3>1. builds' = 1 /\ phase' = "config"
      BY <1>14, <2>2 DEF EventEnds, RunEvent, OneTimeEvents
    <3> QED
      BY <1>2, <2>1, <2>2, <3>1 DEF ObjectsTied
  <2>3. CASE phase # "startup"
    BY <1>4, <1>5, <1>14, <2>1, <2>3 DEF EventEnds, EndCommand, Shut, RunEvent
  <2> QED
    BY <2>2, <2>3
<1>15. CASE Stop
  BY <1>4, <1>15 DEF Stop, EndCommand, Shut, RunEvent, pastVars
<1>16. CASE UNCHANGED vars
  BY <1>5, <1>16 DEF vars, configVars, pastVars
<1> QED
  BY <1>7, <1>8, <1>9, <1>10, <1>11, <1>12, <1>13, <1>14, <1>15, <1>16 DEF Next

\* The plugins keep the options that they were loaded with.
LEMMA OptionsStep ==
  ASSUME TypeOK, OptionsCurrent, [Next]_vars
  PROVE  OptionsCurrent'
<1> USE DEF BuildEvents
<1>1. ASSUME UNCHANGED <<plugins, configured, version>>,
             phase' \in BuildEvents \cup {"startup"} => phase \in BuildEvents \cup {"startup"}
      PROVE  OptionsCurrent'
  BY <1>1 DEF OptionsCurrent, Options
<1>2. ASSUME configured' = Configure(ToSet(plugins')), version' = edits
      PROVE  OptionsCurrent'
  <2> SUFFICES ASSUME NEW o \in ToSet(plugins') PROVE Options(o)' = {version'}
    BY DEF OptionsCurrent
  <2>1. Options(o)' = {c[2] : c \in {d \in configured' : d[1] = o}}
    BY DEF Options
  <2>2. {c[2] : c \in {d \in Configure(ToSet(plugins')) : d[1] = o}} = {edits}
    BY ConfiguredNow
  <2> QED
    BY <1>2, <2>1, <2>2
<1>3. ASSUME NEW list \in Lists, Edit(list) PROVE OptionsCurrent'
  BY <1>1, <1>3 DEF Edit, configVars
<1>4. CASE LoadFirst
  BY <1>2, <1>4 DEF LoadFirst
<1>5. CASE Reload
  BY <1>2, <1>5 DEF Reload
<1>6. ASSUME NEW k \in 0..MaxEntries, LoadFails(k) PROVE OptionsCurrent'
  BY <1>6 DEF LoadFails, EndCommand, Shut, RunEvent, OptionsCurrent
<1>7. CASE Call
  BY <1>1, <1>7 DEF Call, configVars
<1>8. CASE CallRaises
  BY <1>1, <1>8 DEF CallRaises, EndCommand, Shut, RunEvent, configVars
<1>9. CASE BuildFails
  BY <1>1, <1>9 DEF BuildFails, RunEvent, configVars
<1>10. CASE EventEnds
  BY <1>1, <1>10 DEF EventEnds, EndCommand, Shut, RunEvent, configVars
<1>11. CASE Stop
  BY <1>1, <1>11 DEF Stop, EndCommand, Shut, RunEvent, configVars
<1>12. CASE UNCHANGED vars
  BY <1>1, <1>12 DEF vars, configVars
<1> QED
  BY <1>3, <1>4, <1>5, <1>6, <1>7, <1>8, <1>9, <1>10, <1>11, <1>12 DEF Next

(* A plugin with one-time events keeps its object from build to build, any *)
(* other has a new one for each, and all have the options of the mkdocs.yml*)
(* that the build was started with: for any edits of the list of plugins,  *)
(* with entries repeated, moved, removed and put back.                     *)
THEOREM PluginObjects == Spec => []ObjectsFollowConfig
<1>1. Init => OneTimeEvents /\ EventInOrder /\ OneOfEach /\ ObjectsTied /\ OptionsCurrent
  BY DEF Init, OneTimeEvents, EventInOrder, OneOfEach, ObjectsTied, OptionsCurrent, BuildEvents
<1>2. TypeOK /\ OneOfEach /\ ObjectsTied /\ OptionsCurrent => ObjectsFollowConfig
  <2> SUFFICES ASSUME TypeOK, OneOfEach, ObjectsTied, OptionsCurrent PROVE ObjectsFollowConfig
    OBVIOUS
  <2>1. ASSUME NEW u \in used, NEW v \in used,
               u[1].name = v[1].name, u[1].num = v[1].num, u[2] # v[2]
        PROVE  (u[1] = v[1]) = (u[1].name \in Persistent)
    <3>1. Tied(u[1], u[2]) /\ Tied(v[1], v[2])
      BY DEF ObjectsTied
    <3>2. CASE u[1].name \in Persistent
      <4>1. u[1] = v[1]
        BY <2>1, <3>1, <3>2 DEF Tied, OneOfEach
      <4> QED
        BY <3>2, <4>1
    <3>3. CASE u[1].name \notin Persistent
      <4>1. u[1].made + 1 = u[2] /\ v[1].made + 1 = v[2]
        BY <2>1, <3>1, <3>3 DEF Tied
      <4>2. u[1] # v[1]
        BY <2>1, <4>1
      <4> QED
        BY <3>3, <4>2
    <3> QED
      BY <3>2, <3>3
  <2>2. phase \in BuildEvents =>
          \A o \in ToSet(plugins) : {c[2] : c \in {d \in configured : d[1] = o}} = {version}
    BY DEF OptionsCurrent, Options
  <2> QED
    BY <2>1, <2>2 DEF ObjectsFollowConfig
<1>3. TypeOK /\ OneTimeEvents /\ EventInOrder /\ OneOfEach /\ ObjectsTied /\ OptionsCurrent
        /\ [Next]_vars
      => OneTimeEvents' /\ EventInOrder' /\ OneOfEach' /\ ObjectsTied' /\ OptionsCurrent'
  BY OneTimeStep, EventStep, OneOfEachStep, TiedStep, OptionsStep
<1> QED
  BY <1>1, <1>2, <1>3, PluginTypes, PTL DEF Spec
=============================================================================
