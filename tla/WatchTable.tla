----------------------------- MODULE WatchTable -----------------------------
(***************************************************************************)
(* LiveReloadServer.watch and unwatch, the observer's callbacks and the    *)
(* ordered set of functions that the build loop takes from them            *)
(* (livereload/__init__.py).  LiveReload has a single function, the        *)
(* builder; here plugins watch paths with functions of their own.          *)
(***************************************************************************)
EXTENDS Naturals, Sequences, SequencesExt

CONSTANTS Paths, Funcs,
          MaxCalls,   \* bound: calls of watch()
          MaxEvents   \* bound: file events

ASSUME MaxAssumption == MaxCalls \in Nat /\ MaxEvents \in Nat

VARIABLES
  watchedPaths,  \* _watched_paths: how often a path is watched; 0 is no entry
  watchRefs,     \* _watch_refs: the function its handler calls, or NoFunc
  asked,         \* the watch() calls in force, oldest first, per path
  pending,       \* paths with an event on its way to the handler
  toRebuild,     \* _to_rebuild: an ordered set
  funcs,         \* what the loop has still to call before it publishes
  owed,          \* functions to call for a change since they last began
  loop,          \* "idle", "run" or "raised"
  calls, changes \* counters of the two bounds

tableVars == <<watchedPaths, watchRefs, asked, calls>>
loopVars  == <<funcs, loop>>
vars == <<tableVars, pending, toRebuild, loopVars, owed, changes>>

NoFunc == "no function"
ASSUME NoFuncAssumption == NoFunc \notin Funcs

TypeOK ==
  /\ watchedPaths \in [Paths -> 0..MaxCalls]
  /\ watchRefs \in [Paths -> Funcs \cup {NoFunc}]
  /\ asked \in [Paths -> Seq(Funcs)]
  /\ pending \subseteq Paths
  /\ toRebuild \in Seq(Funcs) /\ IsInjective(toRebuild)
  /\ funcs \in Seq(Funcs) /\ owed \subseteq Funcs
  /\ loop \in {"idle", "run", "raised"}
  /\ calls \in 0..MaxCalls /\ changes \in 0..MaxEvents

Init ==
  /\ watchedPaths = [p \in Paths |-> 0]
  /\ watchRefs = [p \in Paths |-> NoFunc]
  /\ asked = [p \in Paths |-> <<>>]
  /\ pending = {} /\ toRebuild = <<>> /\ funcs = <<>> /\ owed = {}
  /\ loop = "idle" /\ calls = 0 /\ changes = 0

-----------------------------------------------------------------------------
\* Faulty variant: each call replaces the count.
WatchOnce(p, f) ==
  /\ calls < MaxCalls /\ calls' = calls + 1
  /\ watchedPaths' = [watchedPaths EXCEPT ![p] = 1]
  /\ watchRefs' = [watchRefs EXCEPT ![p] = f]
  /\ asked' = [asked EXCEPT ![p] = Append(@, f)]
  /\ UNCHANGED <<pending, toRebuild, loopVars, owed, changes>>

\* watch(): only the first call for a path schedules a handler.
Watch(p, f) ==
  /\ calls < MaxCalls /\ calls' = calls + 1
  /\ watchedPaths' = [watchedPaths EXCEPT ![p] = @ + 1]
  /\ watchRefs' = IF watchedPaths[p] = 0 THEN [watchRefs EXCEPT ![p] = f] ELSE watchRefs
  /\ asked' = [asked EXCEPT ![p] = Append(@, f)]
  /\ UNCHANGED <<pending, toRebuild, loopVars, owed, changes>>

\* unwatch(): the handler goes with the last of the calls; the caller does
\* not say which of them it takes back.  (KeyError without any.)
Unwatch(p) ==
  /\ watchedPaths[p] > 0
  /\ watchedPaths' = [watchedPaths EXCEPT ![p] = @ - 1]
  /\ watchRefs' = IF watchedPaths[p] = 1 THEN [watchRefs EXCEPT ![p] = NoFunc] ELSE watchRefs
  /\ \E i \in DOMAIN asked[p] : asked' = [asked EXCEPT ![p] = RemoveAt(@, i)]
  /\ UNCHANGED <<pending, toRebuild, loopVars, owed, calls, changes>>

-----------------------------------------------------------------------------
\* The observer queues an event for a path it has a handler for ...
FileEvent(p) ==
  /\ changes < MaxEvents /\ changes' = changes + 1
  /\ watchRefs[p] # NoFunc
  /\ pending' = pending \cup {p}
  /\ UNCHANGED <<tableVars, toRebuild, loopVars, owed>>

\* ... and drops it if the handler is gone when its turn comes.
DropEvent(p) ==
  /\ p \in pending /\ watchRefs[p] = NoFunc
  /\ pending' = pending \ {p}
  /\ UNCHANGED <<tableVars, toRebuild, loopVars, owed, changes>>

\* Faulty variant: a list instead of a dict.
EnqueueAgain(f) == Append(toRebuild, f)

\* self._to_rebuild[funct] = True: a key that is there keeps its place.
Enqueue(f) == IF Contains(toRebuild, f) THEN toRebuild ELSE Append(toRebuild, f)

\* callback()
Callback(p) ==
  /\ p \in pending /\ watchRefs[p] # NoFunc
  /\ pending' = pending \ {p}
  /\ toRebuild' = Enqueue(watchRefs[p])
  /\ owed' = owed \cup {watchRefs[p]}
  /\ UNCHANGED <<tableVars, loopVars, changes>>

\* _build_loop takes the functions and clears the set under one lock: at some
\* moment, which is when its debounce is over, or never, if it is told to end
\* before (the waits and the end are in LiveReload).
TakeFuncs ==
  /\ loop = "idle" /\ toRebuild # <<>>
  /\ loop' = "run"
  /\ funcs' = toRebuild
  /\ toRebuild' = <<>>
  /\ UNCHANGED <<tableVars, pending, owed, changes>>

\* func(), without the lock.
CallFunc ==
  /\ loop = "run" /\ funcs # <<>>
  /\ funcs' = Tail(funcs)
  /\ owed' = owed \ {Head(funcs)}
  /\ UNCHANGED <<tableVars, pending, toRebuild, loop, changes>>

FuncRaises ==
  /\ loop = "run" /\ funcs # <<>>
  /\ loop' = "raised"
  /\ UNCHANGED <<tableVars, pending, toRebuild, funcs, owed, changes>>

\* Faulty variant: what came in meanwhile is taken for done.
PublishAll ==
  /\ loop = "run" /\ funcs = <<>>
  /\ loop' = "idle"
  /\ toRebuild' = <<>>
  /\ UNCHANGED <<tableVars, pending, funcs, owed, changes>>

\* The visible epoch follows and the browsers reload.
Publish ==
  /\ loop = "run" /\ funcs = <<>>
  /\ loop' = "idle"
  /\ UNCHANGED <<tableVars, pending, toRebuild, funcs, owed, changes>>

Next ==
  \/ \E p \in Paths : \/ \E f \in Funcs : Watch(p, f)
                      \/ Unwatch(p) \/ FileEvent(p) \/ DropEvent(p) \/ Callback(p)
  \/ TakeFuncs \/ CallFunc \/ FuncRaises \/ Publish

Spec == Init /\ [][Next]_vars

-----------------------------------------------------------------------------
(* A path is observed exactly while some watch() of it has not been taken  *)
(* back: one plugin's unwatch() does not blind another, and the table, the *)
(* handlers and the calls agree.                                           *)
ObservedWhileWatched ==
  \A p \in Paths :
    /\ watchedPaths[p] = Len(asked[p])
    /\ (watchRefs[p] # NoFunc) = (asked[p] # <<>>)

(* A function whose path has changed since it last began is queued or is   *)
(* about to be called, also if the change came while it ran, unless an     *)
(* exception ends the loop.                                                *)
OwedCallsAreQueued ==
  loop # "raised" => \A f \in owed : Contains(toRebuild, f) \/ Contains(funcs, f)
=============================================================================
