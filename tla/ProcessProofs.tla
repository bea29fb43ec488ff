---------------------------- MODULE ProcessProofs ---------------------------
(***************************************************************************)
(* Proofs about what outlives a build.  The watch table, for any paths,    *)
(* functions and calls of watch(): a path has its handler exactly while    *)
(* someone watches it, and no change is forgotten.  The logger and the     *)
(* filter of build.py, for any number of builds and of warnings: a strict  *)
(* build sees the warnings of its own, and ends accordingly.               *)
(***************************************************************************)
EXTENDS WatchTable, StrictMode, SequenceLemmas, FiniteSetTheorems

-----------------------------------------------------------------------------
(* The sequences of the model.                                             *)

LEMMA AppendContains ==
  ASSUME NEW S, NEW s \in Seq(S), NEW x \in S
  PROVE  /\ Contains(Append(s, x), x)
         /\ \A y : Contains(s, y) => Contains(Append(s, x), y)
<1>1. Len(Append(s, x)) = Len(s) + 1 /\ Append(s, x)[Len(s) + 1] = x
  OBVIOUS
<1>2. ASSUME NEW i \in 1..Len(s) PROVE Append(s, x)[i] = s[i]
  OBVIOUS
<1> QED  BY <1>1, <1>2 DEF Contains

\* Only the head of a sequence may be missing from its tail.
LEMMA TailContains ==
  ASSUME NEW S, NEW s \in Seq(S), s # <<>>, NEW x, Contains(s, x), x # Head(s)
  PROVE  Contains(Tail(s), x)
<1>1. PICK i \in 1..Len(s) : s[i] = x
  BY DEF Contains
<1>2. i # 1
  BY <1>1
<1>3. i - 1 \in 1..Len(Tail(s)) /\ Tail(s)[i - 1] = x
  BY <1>1, <1>2
<1> QED  BY <1>3 DEF Contains

(* A function that is enqueued is in the set, once, and nothing is lost.   *)
LEMMA EnqueueAdds ==
  ASSUME NEW f \in Funcs, toRebuild \in Seq(Funcs), IsInjective(toRebuild)
  PROVE  /\ Enqueue(f) \in Seq(Funcs) /\ IsInjective(Enqueue(f))
         /\ Contains(Enqueue(f), f)
         /\ \A g : Contains(toRebuild, g) => Contains(Enqueue(f), g)
<1>1. CASE Contains(toRebuild, f)
  BY <1>1 DEF Enqueue
<1>2. CASE ~Contains(toRebuild, f)
  <2>1. Enqueue(f) = Append(toRebuild, f) /\ Enqueue(f) \in Seq(Funcs)
    BY <1>2 DEF Enqueue
  <2>2. IsInjective(Append(toRebuild, f))
    <3>1. \A i \in 1..Len(toRebuild) : toRebuild[i] # f
      BY <1>2 DEF Contains
    <3> QED  BY <3>1 DEF IsInjective
  <2> QED  BY <2>1, <2>2, AppendContains
<1> QED  BY <1>1, <1>2

-----------------------------------------------------------------------------
(* The loop has nothing left to call when it waits.                        *)
IdleInv == loop = "idle" => funcs = <<>>

(* No path has been watched more often than watch() was called.            *)
CountsInv == \A p \in Paths : watchedPaths[p] <= calls

TableInv == TypeOK /\ CountsInv /\ ObservedWhileWatched /\ IdleInv /\ OwedCallsAreQueued

LEMMA InitTable == Init => TableInv
<1> SUFFICES ASSUME Init PROVE TableInv
  OBVIOUS
<1> USE MaxAssumption DEF Init
<1>1. TypeOK
  BY DEF TypeOK, IsInjective
<1>2. CountsInv /\ IdleInv
  BY DEF CountsInv, IdleInv
<1>3. ObservedWhileWatched
  BY DEF ObservedWhileWatched
<1>4. OwedCallsAreQueued
  BY DEF OwedCallsAreQueued
<1> QED  BY <1>1, <1>2, <1>3, <1>4 DEF TableInv

LEMMA WatchTableKept ==
  ASSUME TableInv, NEW p \in Paths, NEW f \in Funcs, Watch(p, f)
  PROVE  TableInv'
<1> USE MaxAssumption
<1>1. /\ asked[p] \in Seq(Funcs) /\ Append(asked[p], f) \in Seq(Funcs)
      /\ Len(Append(asked[p], f)) = Len(asked[p]) + 1
      /\ Append(asked[p], f) # <<>>
  BY DEF TableInv, TypeOK
<1>2. TypeOK'
  BY <1>1 DEF TableInv, TypeOK, CountsInv, Watch, loopVars
<1>3. CountsInv'
  BY DEF TableInv, TypeOK, CountsInv, Watch
<1>4. ObservedWhileWatched'
  <2> SUFFICES ASSUME NEW q \in Paths
               PROVE  /\ watchedPaths'[q] = Len(asked'[q])
                      /\ (watchRefs'[q] # NoFunc) = (asked'[q] # <<>>)
    BY DEF ObservedWhileWatched
  <2>1. CASE q # p
    BY <2>1 DEF TableInv, TypeOK, Watch, ObservedWhileWatched
  <2>2. CASE q = p
    <3>1. watchedPaths'[p] = Len(asked'[p]) /\ asked'[p] # <<>>
      BY <1>1 DEF TableInv, TypeOK, Watch, ObservedWhileWatched
    <3>2. watchRefs'[p] # NoFunc
      <4>1. CASE watchedPaths[p] = 0
        BY <4>1, NoFuncAssumption DEF TableInv, TypeOK, Watch
      <4>2. CASE watchedPaths[p] # 0
        BY <1>1, <4>2 DEF TableInv, TypeOK, Watch, ObservedWhileWatched
      <4> QED  BY <4>1, <4>2
    <3> QED  BY <2>2, <3>1, <3>2
  <2> QED  BY <2>1, <2>2
<1>5. IdleInv' /\ OwedCallsAreQueued'
  BY DEF TableInv, IdleInv, OwedCallsAreQueued, Watch, loopVars
<1> QED  BY <1>2, <1>3, <1>4, <1>5 DEF TableInv

LEMMA UnwatchTable ==
  ASSUME TableInv, NEW p \in Paths, Unwatch(p)
  PROVE  TableInv'
<1> USE MaxAssumption
<1>1. PICK i \in DOMAIN asked[p] : asked' = [asked EXCEPT ![p] = RemoveAt(@, i)]
  BY DEF Unwatch
<1>2. asked[p] \in Seq(Funcs) /\ i \in 1..Len(asked[p])
  BY <1>1 DEF TableInv, TypeOK
<1>3. /\ asked' \in [Paths -> Seq(Funcs)]
      /\ \A q \in Paths \ {p} : asked'[q] = asked[q]
      /\ Len(asked'[p]) = Len(asked[p]) - 1
  <2>1. RemoveAt(asked[p], i) \in Seq(Funcs) /\ Len(RemoveAt(asked[p], i)) = Len(asked[p]) - 1
    BY <1>2, RemoveAtIs DEF Without
  <2> QED
    BY <1>1, <2>1 DEF TableInv, TypeOK
<1>4. TypeOK'
  BY <1>3 DEF TableInv, TypeOK, Unwatch, loopVars
<1>5. CountsInv'
  BY DEF TableInv, TypeOK, CountsInv, Unwatch
<1>6. ObservedWhileWatched'
  <2> SUFFICES ASSUME NEW q \in Paths
               PROVE  /\ watchedPaths'[q] = Len(asked'[q])
                      /\ (watchRefs'[q] # NoFunc) = (asked'[q] # <<>>)
    BY DEF ObservedWhileWatched
  <2>1. CASE q # p
    BY <1>3, <2>1 DEF TableInv, TypeOK, Unwatch, ObservedWhileWatched
  <2>2. CASE q = p
    <3>1. watchedPaths[p] = Len(asked[p]) /\ watchedPaths'[p] = Len(asked'[p])
      BY <1>3 DEF TableInv, TypeOK, Unwatch, ObservedWhileWatched
    <3>2. asked'[p] \in Seq(Funcs)
      BY <1>3
    <3>3. (asked'[p] # <<>>) = (watchedPaths[p] # 1)
      <4>1. (asked'[p] # <<>>) = (Len(asked'[p]) # 0)
        BY <3>2, EmptySeq
      <4>2. Len(asked'[p]) = Len(asked[p]) - 1 /\ Len(asked[p]) \in Nat
        BY <1>2, <1>3
      <4> QED  BY <3>1, <4>1, <4>2
    <3>4. asked[p] # <<>>
      BY <1>2
    <3>5. (watchRefs'[p] # NoFunc) = (watchedPaths[p] # 1)
      BY <3>4 DEF TableInv, TypeOK, Unwatch, ObservedWhileWatched
    <3> QED  BY <2>2, <3>1, <3>3, <3>5
  <2> QED  BY <2>1, <2>2
<1>7. IdleInv' /\ OwedCallsAreQueued'
  BY DEF TableInv, IdleInv, OwedCallsAreQueued, Unwatch, loopVars
<1> QED  BY <1>4, <1>5, <1>6, <1>7 DEF TableInv

LEMMA EventTable ==
  ASSUME TableInv, NEW p \in Paths, FileEvent(p) \/ DropEvent(p)
  PROVE  TableInv'
<1>1. /\ UNCHANGED <<tableVars, toRebuild, loopVars, owed>>
      /\ pending' \subseteq Paths /\ changes' \in 0..MaxEvents
  BY MaxAssumption DEF TableInv, TypeOK, FileEvent, DropEvent
<1> QED  BY <1>1
  DEF TableInv, TypeOK, CountsInv, ObservedWhileWatched, IdleInv, OwedCallsAreQueued,
      tableVars, loopVars

LEMMA CallbackTable ==
  ASSUME TableInv, NEW p \in Paths, Callback(p)
  PROVE  TableInv'
<1> DEFINE f == watchRefs[p]
<1>1. f \in Funcs
  BY DEF TableInv, TypeOK, Callback
<1>2. /\ Enqueue(f) \in Seq(Funcs) /\ IsInjective(Enqueue(f))
      /\ Contains(Enqueue(f), f)
      /\ \A g : Contains(toRebuild, g) => Contains(Enqueue(f), g)
  BY <1>1, EnqueueAdds DEF TableInv, TypeOK
<1>3. TypeOK'
  BY <1>1, <1>2 DEF TableInv, TypeOK, Callback, tableVars, loopVars
<1>4. CountsInv' /\ ObservedWhileWatched' /\ IdleInv'
  BY DEF TableInv, CountsInv, ObservedWhileWatched, IdleInv, Callback, tableVars, loopVars
<1>5. OwedCallsAreQueued'
  BY <1>2 DEF TableInv, OwedCallsAreQueued, Callback, loopVars
<1> QED  BY <1>3, <1>4, <1>5 DEF TableInv

(* What is taken from the set is about to be called, and the set cleared:  *)
(* both under one lock.                                                    *)
LEMMA LoopTable ==
  ASSUME TableInv, TakeFuncs \/ CallFunc \/ FuncRaises \/ Publish
  PROVE  TableInv'
<1>1. UNCHANGED <<tableVars, pending, changes>>
  BY DEF TakeFuncs, CallFunc, FuncRaises, Publish
<1>2. CountsInv' /\ ObservedWhileWatched'
  BY <1>1 DEF TableInv, CountsInv, ObservedWhileWatched, tableVars
<1>3. CASE TakeFuncs
  <2>1. TypeOK'
    BY <1>1, <1>3 DEF TableInv, TypeOK, IsInjective, TakeFuncs, tableVars
  <2>2. IdleInv'
    BY <1>3 DEF IdleInv, TakeFuncs
  <2>3. \A g : ~Contains(funcs, g)
    BY <1>3 DEF TableInv, IdleInv, TakeFuncs, Contains
  <2>4. OwedCallsAreQueued'
    BY <1>3, <2>3 DEF TableInv, OwedCallsAreQueued, TakeFuncs
  <2> QED  BY <1>2, <2>1, <2>2, <2>4 DEF TableInv
<1>4. CASE CallFunc
  <2>1. TypeOK'
    BY <1>1, <1>4 DEF TableInv, TypeOK, CallFunc, tableVars
  <2>2. IdleInv'
    BY <1>4 DEF IdleInv, CallFunc
  <2>3. ASSUME NEW g \in owed', Contains(funcs, g)
        PROVE  Contains(funcs', g)
    BY <1>4, <2>3, TailContains DEF TableInv, TypeOK, CallFunc
  <2>4. OwedCallsAreQueued'
    BY <1>4, <2>3 DEF TableInv, OwedCallsAreQueued, CallFunc
  <2> QED  BY <1>2, <2>1, <2>2, <2>4 DEF TableInv
<1>5. CASE FuncRaises
  BY <1>1, <1>2, <1>5
  DEF TableInv, TypeOK, IdleInv, OwedCallsAreQueued, FuncRaises, tableVars
<1>6. CASE Publish
  BY <1>1, <1>2, <1>6
  DEF TableInv, TypeOK, IdleInv, OwedCallsAreQueued, Publish, tableVars
<1> QED  BY <1>3, <1>4, <1>5, <1>6

(* The parts hold together: the strengthening that each step keeps.        *)
THEOREM TableInvariant == Spec => []TableInv
<1>1. ASSUME TableInv, [Next]_vars PROVE TableInv'
  <2>1. CASE UNCHANGED vars
    BY <1>1, <2>1
    DEF vars, tableVars, loopVars, TableInv, TypeOK, CountsInv, ObservedWhileWatched,
        IdleInv, OwedCallsAreQueued
  <2> QED  BY <1>1, <2>1, WatchTableKept, UnwatchTable, EventTable, CallbackTable, LoopTable
           DEF Next
<1> QED  BY <1>1, InitTable, PTL DEF Spec

(* The table, the queue and the loop keep their types; in particular       *)
(* _to_rebuild never has a function twice.                                 *)
THEOREM TypeCorrect == Spec => []TypeOK
<1>1. TableInv => TypeOK
  BY DEF TableInv
<1> QED  BY <1>1, TableInvariant, PTL

(* However many plugins watch and unwatch a path, it has a handler exactly *)
(* while one of them watches it.                                           *)
THEOREM HandlersFollowCalls == Spec => []ObservedWhileWatched
<1>1. TableInv => ObservedWhileWatched
  BY DEF TableInv
<1> QED  BY <1>1, TableInvariant, PTL

(* No change is forgotten: a function owed a call is queued or about to be *)
(* called, whatever came while others ran.                                 *)
THEOREM ChangesAreQueued == Spec => []OwedCallsAreQueued
<1>1. TableInv => OwedCallsAreQueued
  BY DEF TableInv
<1> QED  BY <1>1, TableInvariant, PTL

-----------------------------------------------------------------------------
(* Warnings and strict mode.                                               *)

(* The counts of builds to come are zero, and builds are numbered from 1.  *)
CountedInv ==
  /\ builds \in Nat
  /\ running => builds \in 1..MaxBuilds
  /\ counts \in [1..MaxBuilds -> Nat]
  /\ \A n \in 1..MaxBuilds : n > builds => counts[n] = 0

(* While a build runs, the filter has nothing that neither this build nor  *)
(* an earlier one logged, and the count tells whether there was a warning. *)
RunningInv ==
  running =>
    /\ outcome = "none"
    /\ msgs \subseteq before \cup issued
    /\ strict /\ ~(issued \subseteq before) => counts[builds] > 0
    /\ counts[builds] > 0 => strict /\ issued # {}

StrictInv == CountedInv /\ HandlersMatchBuild /\ RunningInv /\ FirstWarningsAbort

-----------------------------------------------------------------------------
LEMMA InitStrict == StrictInit => StrictInv
  BY MaxBuildsAssumption
  DEF StrictInit, StrictInv, CountedInv, HandlersMatchBuild, RunningInv, FirstWarningsAbort

LEMMA BeginStrict ==
  ASSUME StrictInv, NEW isStrict \in BOOLEAN, Begin(isStrict)
  PROVE  StrictInv'
<1> USE MaxBuildsAssumption DEF Begin
<1>1. CountedInv'
  BY DEF StrictInv, CountedInv
<1>2. counts'[builds'] = 0
  BY DEF StrictInv, CountedInv
<1>3. HandlersMatchBuild'
  BY DEF StrictInv, HandlersMatchBuild
<1>4. RunningInv'
  BY <1>2 DEF RunningInv
<1>5. FirstWarningsAbort'
  BY DEF FirstWarningsAbort
<1> QED  BY <1>1, <1>3, <1>4, <1>5 DEF StrictInv

(* A warning that no build has logged before passes the filter, so that    *)
(* the one handler on the logger counts it.                                *)
LEMMA WarnStrict ==
  ASSUME StrictInv, NEW m \in BuildMsgs \cup OtherMsgs, Warn(m)
  PROVE  StrictInv'
<1> USE MaxBuildsAssumption DEF Warn
<1>1. CountedInv'
  <2>1. \A n \in 1..MaxBuilds : n \in handlers => n <= builds
    BY DEF StrictInv, HandlersMatchBuild, CountedInv
  <2> QED  BY <2>1 DEF StrictInv, CountedInv
<1>2. HandlersMatchBuild'
  BY DEF StrictInv, HandlersMatchBuild
<1>3. /\ builds \in 1..MaxBuilds /\ counts[builds] \in Nat
      /\ counts'[builds] = IF strict /\ Passes(m) THEN counts[builds] + 1
                           ELSE counts[builds]
  BY DEF StrictInv, CountedInv, HandlersMatchBuild
<1>4. RunningInv'
  <2>1. outcome' = "none"
    BY DEF StrictInv, RunningInv
  <2>2. msgs' \subseteq before' \cup issued'
    BY DEF StrictInv, RunningInv, Remember
  <2>3. ASSUME strict, ~(issued' \subseteq before)
        PROVE  counts'[builds] > 0
    <3>1. CASE m \in before
      BY <1>3, <2>3, <3>1 DEF StrictInv, RunningInv
    <3>2. CASE m \notin before
      <4>1. m \notin msgs
        BY <3>2 DEF StrictInv, RunningInv
      <4> QED  BY <1>3, <2>3, <4>1 DEF Passes
    <3> QED  BY <3>1, <3>2
  <2>4. counts'[builds] > 0 => strict /\ issued' # {}
    BY <1>3 DEF StrictInv, RunningInv
  <2> QED  BY <2>1, <2>2, <2>3, <2>4 DEF RunningInv
<1>5. FirstWarningsAbort'
  BY DEF StrictInv, RunningInv, FirstWarningsAbort
<1> QED  BY <1>1, <1>2, <1>4, <1>5 DEF StrictInv

LEMMA EndStrict ==
  ASSUME StrictInv, Finish \/ Fail
  PROVE  StrictInv'
<1>1. /\ running /\ ~running'
      /\ handlers' = handlers \ {builds}
      /\ UNCHANGED <<counts, strict, builds, before, issued>>
  BY DEF Finish, Fail, End
<1>2. CountedInv'
  BY <1>1 DEF StrictInv, CountedInv
<1>3. HandlersMatchBuild'
  BY <1>1 DEF StrictInv, HandlersMatchBuild
<1>4. RunningInv'
  BY <1>1 DEF RunningInv
<1>5. FirstWarningsAbort'
  <2>1. CASE Finish
    <3>1. outcome' = IF counts[builds] > 0 THEN "warned" ELSE "ok"
      BY <2>1 DEF Finish, End
    <3> QED  BY <1>1, <3>1 DEF StrictInv, RunningInv, FirstWarningsAbort
  <2>2. CASE Fail
    BY <2>2 DEF Fail, End, FirstWarningsAbort
  <2> QED  BY <2>1, <2>2
<1> QED  BY <1>2, <1>3, <1>4, <1>5 DEF StrictInv

(* The four parts hold together: the strengthening that each step keeps.  *)
THEOREM StrictInvariant == StrictSpec => []StrictInv
<1>1. ASSUME StrictInv, [StrictNext]_strictVars PROVE StrictInv'
  <2>1. CASE UNCHANGED strictVars
    BY <1>1, <2>1
    DEF strictVars, StrictInv, CountedInv, HandlersMatchBuild, RunningInv, FirstWarningsAbort
  <2> QED  BY <1>1, <2>1, BeginStrict, WarnStrict, EndStrict DEF StrictNext
<1> QED  BY <1>1, InitStrict, PTL DEF StrictSpec

(* Whatever builds there were, and however they ended, the only handler on *)
(* the logger is that of the strict build that is running.                 *)
THEOREM HandlersMatch == StrictSpec => []HandlersMatchBuild
<1>1. StrictInv => HandlersMatchBuild
  BY DEF StrictInv
<1> QED  BY <1>1, StrictInvariant, PTL

(* A strict build that logs a warning that is new to the process, or that  *)
(* is not logged by build.py, never ends well; one that is aborted had a   *)
(* warning of its own.                                                     *)
THEOREM WarningsAbort == StrictSpec => []FirstWarningsAbort
<1>1. StrictInv => FirstWarningsAbort
  BY DEF StrictInv
<1> QED  BY <1>1, StrictInvariant, PTL

-----------------------------------------------------------------------------
(* A build has counted no more than it has logged.                         *)
CountsBound == running => counts[builds] <= Cardinality(issued)

CountsTyped == StrictInv /\ StrictTypeOK /\ CountsBound

Messages == BuildMsgs \cup OtherMsgs

LEMMA MessagesFinite ==
  /\ Cardinality(Messages) \in Nat
  /\ \A S \in SUBSET Messages : /\ IsFiniteSet(S) /\ Cardinality(S) \in Nat
                                 /\ Cardinality(S) <= Cardinality(Messages)
<1>1. IsFiniteSet(Messages)
  BY MessagesAssumption DEF Messages
<1> QED
  BY <1>1, FS_Subset, FS_CardinalityType

LEMMA WarnTyped ==
  ASSUME CountsTyped, NEW m \in Messages, Warn(m)
  PROVE  StrictTypeOK' /\ CountsBound'
<1>0. /\ running /\ m \notin issued /\ issued' = issued \cup {m} /\ msgs' = Remember(m)
      /\ counts' = [n \in 1..MaxBuilds |->
                       IF n \in handlers /\ Passes(m) THEN counts[n] + 1 ELSE counts[n]]
      /\ UNCHANGED <<before, handlers, strict, running, builds, outcome>>
  BY DEF Warn
<1>1. /\ builds \in 1..MaxBuilds /\ counts[builds] <= Cardinality(issued)
      /\ \A n \in handlers : n = builds
      /\ issued \in SUBSET Messages /\ issued' \in SUBSET Messages
  BY <1>0 DEF CountsTyped, CountsBound, StrictInv, CountedInv, HandlersMatchBuild, StrictTypeOK, Messages
<1>2. Cardinality(issued') = Cardinality(issued) + 1
  BY <1>0, <1>1, MessagesFinite, FS_AddElement
<1>3. counts[builds] \in Nat /\ Cardinality(issued) \in Nat
  BY <1>1, MessagesFinite DEF CountsTyped, StrictInv, CountedInv
<1>4. counts'[builds] \in Nat /\ counts'[builds] <= Cardinality(issued')
  BY <1>0, <1>1, <1>2, <1>3
<1>5. /\ Cardinality(issued') <= Cardinality(Messages) /\ Cardinality(Messages) \in Nat
      /\ Cardinality(issued') \in Nat
  BY <1>1, MessagesFinite
<1>6. counts' \in [1..MaxBuilds -> 0..Cardinality(Messages)]
  <2>1. ASSUME NEW n \in 1..MaxBuilds PROVE counts'[n] \in 0..Cardinality(Messages)
    <3>1. CASE n = builds
      BY <1>4, <1>5, <3>1
    <3>2. CASE n # builds
      BY <1>0, <1>1, <3>2 DEF CountsTyped, StrictTypeOK, Messages
    <3> QED
      BY <3>1, <3>2
  <2> QED
    BY <1>0, <2>1
<1>7. StrictTypeOK'
  BY <1>0, <1>1, <1>6 DEF CountsTyped, StrictTypeOK, Remember, Messages
<1> QED
  BY <1>0, <1>4, <1>7 DEF CountsBound

(* Every variable keeps its type: no build counts more warnings than there *)
(* are, as one handler counts each of them once.                           *)
THEOREM CountsTypeCorrect == StrictSpec => []StrictTypeOK
<1>1. StrictInit => CountsTyped
  <2> SUFFICES ASSUME StrictInit PROVE CountsTyped
    OBVIOUS
  <2>1. StrictInv
    BY InitStrict
  <2>2. Cardinality(Messages) \in Nat
    BY MessagesFinite
  <2>3. counts \in [1..MaxBuilds -> 0..Cardinality(BuildMsgs \cup OtherMsgs)]
    BY <2>2 DEF StrictInit, Messages
  <2>4. builds \in 0..MaxBuilds
    BY MaxBuildsAssumption DEF StrictInit
  <2>5. StrictTypeOK
    BY <2>3, <2>4 DEF StrictInit, StrictTypeOK
  <2> QED
    BY <2>1, <2>5 DEF StrictInit, CountsTyped, CountsBound
<1>2. CountsTyped /\ StrictInv' /\ [StrictNext]_strictVars => CountsTyped'
  <2> SUFFICES ASSUME CountsTyped, StrictInv', [StrictNext]_strictVars PROVE StrictTypeOK' /\ CountsBound'
    BY DEF CountsTyped
  <2>1. CASE UNCHANGED strictVars
    BY <2>1 DEF strictVars, CountsTyped, StrictTypeOK, CountsBound
  <2>2. ASSUME NEW isStrict \in BOOLEAN, Begin(isStrict) PROVE StrictTypeOK' /\ CountsBound'
    <3>1. builds' \in 1..MaxBuilds /\ counts' = counts /\ issued' = {} /\ counts[builds'] = 0
      BY <2>2, MaxBuildsAssumption DEF Begin, CountsTyped, StrictTypeOK, StrictInv, CountedInv
    <3>2. Cardinality({}) = 0
      BY FS_EmptySet
    <3>3. CountsBound'
      BY <3>1, <3>2 DEF CountsBound
    <3>4. handlers' \subseteq 1..MaxBuilds /\ builds' \in 0..MaxBuilds
      BY <2>2, <3>1, MaxBuildsAssumption DEF Begin, CountsTyped, StrictTypeOK
    <3>5. /\ strict' \in BOOLEAN /\ running' \in BOOLEAN /\ outcome' \in {"none", "ok", "warned", "failed"}
          /\ msgs' \subseteq BuildMsgs /\ before' \subseteq msgs' /\ issued' \subseteq BuildMsgs \cup OtherMsgs
      BY <2>2 DEF Begin, CountsTyped, StrictTypeOK
    <3>6. StrictTypeOK'
      BY <3>1, <3>4, <3>5 DEF CountsTyped, StrictTypeOK
    <3> QED
      BY <3>3, <3>6
  <2>3. ASSUME NEW m \in BuildMsgs \cup OtherMsgs, Warn(m) PROVE StrictTypeOK' /\ CountsBound'
    BY <2>3, WarnTyped DEF Messages
  <2>4. CASE Finish \/ Fail
    <3>1. /\ running' = FALSE /\ handlers' = handlers \ {builds}
          /\ outcome' \in {"ok", "warned", "failed"}
          /\ UNCHANGED <<msgs, before, counts, strict, builds, issued>>
      BY <2>4 DEF Finish, Fail, End
    <3> QED
      BY <3>1 DEF CountsTyped, StrictTypeOK, CountsBound
  <2> QED
    BY <2>1, <2>2, <2>3, <2>4 DEF StrictNext
<1>3. CountsTyped => StrictTypeOK
  BY DEF CountsTyped
<1> QED
  BY <1>1, <1>2, <1>3, StrictInvariant, PTL DEF StrictSpec
=============================================================================
