-------------------------- MODULE DevServerProofs --------------------------
(***************************************************************************)
(* Proofs about LiveReload, and about DevServer, which extends it.  First  *)
(* the live reload server, for any number of tabs, documents and edits:    *)
(* epochs, the site, the tabs, no lost edit or wakeup, and that it         *)
(* implements AtomicSite.  Then any number of runs of `mkdocs serve`:      *)
(* while a server builds and serves, its directory is there and its        *)
(* plugins are started and not yet shut down; and no page, whichever       *)
(* process sent it, is trusted unless it is current.  The steps of the     *)
(* server keep its invariants in any process.                              *)
(***************************************************************************)
EXTENDS DevServer, TLAPS

(* A build in progress has a wanted epoch above the visible one; between   *)
(* builds the two are equal.  The clock is never behind either.            *)
EpochOrder ==
  /\ visibleEpoch <= wantedEpoch /\ wantedEpoch <= clock
  /\ loop \in {"clean", "build", "publish"} => visibleEpoch < wantedEpoch
  /\ loop \in {"wait", "debounce", "returned"} => visibleEpoch = wantedEpoch

(* What the build has written so far, and the whole site between builds.   *)
SiteProgress ==
  /\ visibleEpoch = wantedEpoch \/ loop = "publish" =>
       \A p \in Pages : file[p] = "whole"
  /\ loop = "build" =>
       \A p \in Pages : stage[p] = "done" => file[p] = "whole" /\ site[p] = read[p]

(* No tab knows an epoch that is not published.                            *)
TabEpochs == \A b \in Browsers : epoch[b] <= visibleEpoch

(* The observer and a build see no version that was never on disk.         *)
SeenOrder == \A p \in Pages : seen[p] <= src[p]

-----------------------------------------------------------------------------
\* Types, kept by each step.
LEMMA TypeStep ==
  TypeOK /\ [Next]_vars => TypeOK'
<1> SUFFICES ASSUME TypeOK, [Next]_vars
             PROVE  TypeOK'
  OBVIOUS
<1> USE DEF TypeOK, LoopStates, Stages, FileStates, TabStates, vars,
            serverVars, epochVars, condVars, loopVars, srcVars, siteVars, tabVars
<1>1. ASSUME NEW p \in Pages, Edit(p) PROVE TypeOK'
  BY <1>1 DEF Edit
<1>2. ASSUME NEW p \in Pages, Notice(p) PROVE TypeOK'
  BY <1>2 DEF Notice
<1>3. CASE Callback
  BY <1>3 DEF Callback
<1>4. CASE Wake
  BY <1>4 DEF Wake
<1>5. CASE DebounceAgain
  BY <1>5 DEF DebounceAgain
<1>6. CASE StartBuild
  <2>1. clock' \in Nat /\ wantedEpoch' \in Nat
    <3>1. clock' = clock + 1 /\ wantedEpoch' = clock'
      BY <1>6 DEF StartBuild, DebounceTime
    <3> QED
      BY <3>1
  <2>2. toRebuild' \in BOOLEAN /\ notified' \in BOOLEAN
    BY <1>6 DEF StartBuild
  <2> QED
    BY <1>6, <2>1, <2>2 DEF StartBuild
<1>7. CASE Clean
  BY <1>7 DEF Clean
<1>8. ASSUME NEW p \in Pages, ReadSource(p) PROVE TypeOK'
  BY <1>8 DEF ReadSource
<1>9. ASSUME NEW p \in Pages, OpenOutput(p) PROVE TypeOK'
  BY <1>9 DEF OpenOutput, AllRead
<1>10. ASSUME NEW p \in Pages, WriteOutput(p) PROVE TypeOK'
  BY <1>10 DEF WriteOutput
<1>11. CASE FinishBuild
  BY <1>11 DEF FinishBuild
<1>12. CASE Publish
  BY <1>12 DEF Publish, NotifyEpoch, Awake
<1>13. CASE LoopRaises
  BY <1>13 DEF LoopRaises
<1>14. CASE Shutdown
  BY <1>14 DEF Shutdown
<1>15. CASE StopAccepting \/ Exit
  BY <1>15 DEF StopAccepting, Exit, Dropped
<1>16. ASSUME NEW b \in Browsers, NEW p \in Pages, NEW noSlash \in BOOLEAN, Visit(b, p, noSlash) PROVE TypeOK'
  BY <1>16 DEF Visit, Goto, Blank, Scripted, Accepting
<1>17. ASSUME NEW b \in Browsers, FetchSleep(b) PROVE TypeOK'
  BY <1>17 DEF FetchSleep, Goto, Built
<1>18. ASSUME NEW b \in Browsers, FetchEpoch(b) PROVE TypeOK'
  BY <1>18 DEF FetchEpoch, Goto, Built
<1>19. ASSUME NEW b \in Browsers, ServeFile(b) PROVE TypeOK'
  BY <1>19 DEF ServeFile, Goto
<1>20. ASSUME NEW b \in Browsers, Redirect(b) PROVE TypeOK'
  BY <1>20 DEF Redirect, Goto, Blank, Accepting
<1>21. ASSUME NEW b \in Browsers, NotFound(b) PROVE TypeOK'
  BY <1>21 DEF NotFound, Goto, Blank
<1>22. ASSUME NEW b \in Browsers, SendPoll(b) PROVE TypeOK'
  BY <1>22 DEF SendPoll, Goto, Accepting
<1>23. ASSUME NEW b \in Browsers, RetryTimer(b) PROVE TypeOK'
  BY <1>23 DEF RetryTimer, Goto
<1>24. ASSUME NEW b \in Browsers, PollNewer(b) PROVE TypeOK'
  BY <1>24 DEF PollNewer, Goto, Newer, Reload, Blank, Accepting
<1>25. ASSUME NEW b \in Browsers, PollSleep(b) PROVE TypeOK'
  BY <1>25 DEF PollSleep, Goto, Newer
<1>26. ASSUME NEW b \in Browsers, PollTimeout(b) PROVE TypeOK'
  BY <1>26 DEF PollTimeout, Goto
<1>27. CASE UNCHANGED vars
  BY <1>27
<1> QED
  BY <1>1, <1>2, <1>3, <1>4, <1>5, <1>6, <1>7, <1>8, <1>9, <1>10, <1>11, <1>12, <1>13, <1>14, <1>15, <1>16, <1>17, <1>18, <1>19, <1>20, <1>21, <1>22, <1>23, <1>24, <1>25, <1>26, <1>27 DEF Next, Step, Observer, BuildLoop, Handler, Script

(* Every variable keeps its type.                                          *)
THEOREM TypeCorrect == Spec => []TypeOK
<1>1. Init => TypeOK
  <2> SUFFICES ASSUME Init PROVE TypeOK
    OBVIOUS
  <2>1. /\ clock = 0 /\ wantedEpoch = 0 /\ visibleEpoch = 0
        /\ src = [p \in Pages |-> 0] /\ seen = src /\ read = src /\ site = src
    BY DEF Init, InitServer
  <2>2. /\ toRebuild \in BOOLEAN /\ notified \in BOOLEAN /\ shutdown \in BOOLEAN
        /\ events \in BOOLEAN
    BY DEF Init, InitServer
  <2>3. /\ loop \in LoopStates /\ server \in {"up", "down"}
        /\ stage \in [Pages -> Stages] /\ file \in [Pages -> FileStates]
    BY DEF Init, InitServer, LoopStates, Stages, FileStates
  <2>4. /\ pc \in [Browsers -> TabStates] /\ page \in [Browsers -> Pages]
        /\ bare \in [Browsers -> BOOLEAN] /\ epoch \in [Browsers -> Nat]
        /\ version \in [Browsers -> Nat] /\ whole \in [Browsers -> BOOLEAN]
    BY DEF Init, InitTabs, TabStates
  <2> QED
    BY <2>1, <2>2, <2>3, <2>4 DEF TypeOK
<1>2. TypeOK /\ [Next]_vars => TypeOK'
  BY TypeStep
<1> QED
  BY <1>1, <1>2, PTL DEF Spec

-----------------------------------------------------------------------------
(* What a step can change.                                                 *)

(* Only the main thread moves the loop, and only two of its steps an epoch.*)
LEMMA LoopFrame ==
  [Next]_vars => \/ Wake \/ StartBuild \/ Clean \/ FinishBuild \/ Publish
                 \/ LoopRaises
                 \/ UNCHANGED <<clock, wantedEpoch, visibleEpoch, loop>>
<1> SUFFICES ASSUME [Next]_vars,
                    ~(Wake \/ StartBuild \/ Clean \/ FinishBuild \/ Publish \/ LoopRaises)
             PROVE  UNCHANGED <<clock, wantedEpoch, visibleEpoch, loop>>
  OBVIOUS
<1> USE DEF vars, serverVars, epochVars, loopVars
<1>1. ASSUME NEW p \in Pages,
             Edit(p) \/ Notice(p) \/ ReadSource(p) \/ OpenOutput(p) \/ WriteOutput(p)
      PROVE  UNCHANGED <<clock, wantedEpoch, visibleEpoch, loop>>
  BY <1>1 DEF Edit, Notice, ReadSource, OpenOutput, WriteOutput
<1>2. CASE Callback \/ DebounceAgain \/ Shutdown \/ StopAccepting \/ Exit
  BY <1>2 DEF Callback, DebounceAgain, Shutdown, StopAccepting, Exit
<1>3. ASSUME NEW b \in Browsers, Handler(b) \/ Script(b)
                \/ \E p \in Pages, noSlash \in BOOLEAN : Visit(b, p, noSlash)
      PROVE  UNCHANGED <<clock, wantedEpoch, visibleEpoch, loop>>
  BY <1>3 DEF Visit, Handler, Script, FetchSleep, FetchEpoch, ServeFile, Redirect,
     NotFound, PollNewer, PollSleep, PollTimeout, SendPoll, RetryTimer, Reload
<1>4. CASE UNCHANGED vars
  BY <1>4
<1> QED
  BY <1>1, <1>2, <1>3, <1>4 DEF Next, Step, Observer, BuildLoop

(* Only the builder touches the site, what it has read and its progress.   *)
LEMMA SiteFrame ==
  [Next]_vars => \/ Clean
                 \/ \E p \in Pages : ReadSource(p) \/ OpenOutput(p) \/ WriteOutput(p)
                 \/ UNCHANGED <<stage, read, site, file>>
<1> SUFFICES ASSUME [Next]_vars, ~Clean,
                    ~\E p \in Pages : ReadSource(p) \/ OpenOutput(p) \/ WriteOutput(p)
             PROVE  UNCHANGED <<stage, read, site, file>>
  OBVIOUS
<1> USE DEF vars, serverVars, siteVars
<1>1. ASSUME NEW p \in Pages, Edit(p) \/ Notice(p)
      PROVE  UNCHANGED <<stage, read, site, file>>
  BY <1>1 DEF Edit, Notice
<1>2. CASE Callback \/ Wake \/ DebounceAgain \/ StartBuild \/ FinishBuild
  BY <1>2 DEF Callback, Wake, DebounceAgain, StartBuild, FinishBuild
<1>3. CASE Publish \/ LoopRaises \/ Shutdown \/ StopAccepting \/ Exit
  BY <1>3 DEF Publish, LoopRaises, Shutdown, StopAccepting, Exit
<1>4. ASSUME NEW b \in Browsers, Handler(b) \/ Script(b)
                \/ \E p \in Pages, noSlash \in BOOLEAN : Visit(b, p, noSlash)
      PROVE  UNCHANGED <<stage, read, site, file>>
  BY <1>4 DEF Visit, Handler, Script, FetchSleep, FetchEpoch, ServeFile, Redirect,
     NotFound, PollNewer, PollSleep, PollTimeout, SendPoll, RetryTimer, Reload
<1>5. CASE UNCHANGED vars
  BY <1>5
<1> QED
  BY <1>1, <1>2, <1>3, <1>4, <1>5 DEF Next, Step, Observer, BuildLoop

(* What has been edited and noticed, and what waits to be rebuilt, changes *)
(* by the user, the observer and the start of a build only.                *)
LEMMA EditFrame ==
  [Next]_vars =>
    \/ \E p \in Pages : Edit(p) \/ Notice(p)
    \/ Callback /\ UNCHANGED <<src, seen>>
    \/ StartBuild /\ UNCHANGED <<src, seen>>
    \/ UNCHANGED <<src, seen, events, toRebuild>>
<1> SUFFICES ASSUME [Next]_vars, ~\E p \in Pages : Edit(p) \/ Notice(p)
             PROVE  \/ Callback /\ UNCHANGED <<src, seen>>
                    \/ StartBuild /\ UNCHANGED <<src, seen>>
                    \/ UNCHANGED <<src, seen, events, toRebuild>>
  OBVIOUS
<1> USE DEF vars, serverVars, srcVars, condVars
<1>1. ASSUME NEW p \in Pages, ReadSource(p) \/ OpenOutput(p) \/ WriteOutput(p)
      PROVE  UNCHANGED <<src, seen, events, toRebuild>>
  BY <1>1 DEF ReadSource, OpenOutput, WriteOutput
<1>2. CASE Callback \/ StartBuild
  BY <1>2 DEF Callback, StartBuild
<1>3. CASE Wake \/ DebounceAgain \/ Clean \/ FinishBuild
  BY <1>3 DEF Wake, DebounceAgain, Clean, FinishBuild
<1>4. CASE Publish \/ LoopRaises \/ Shutdown \/ StopAccepting \/ Exit
  BY <1>4 DEF Publish, LoopRaises, Shutdown, StopAccepting, Exit
<1>5. ASSUME NEW b \in Browsers, Handler(b) \/ Script(b)
                \/ \E p \in Pages, noSlash \in BOOLEAN : Visit(b, p, noSlash)
      PROVE  UNCHANGED <<src, seen, events, toRebuild>>
  BY <1>5 DEF Visit, Handler, Script, FetchSleep, FetchEpoch, ServeFile, Redirect,
     NotFound, PollNewer, PollSleep, PollTimeout, SendPoll, RetryTimer, Reload
<1>6. CASE UNCHANGED vars
  BY <1>6
<1> QED
  BY <1>1, <1>2, <1>3, <1>4, <1>5, <1>6 DEF Next, Step, Observer, BuildLoop

(* A tab changes by what it or its handler does, when a publication wakes  *)
(* it, or when the process ends.                                           *)
LEMMA TabFrame ==
  [Next]_vars =>
    \/ Publish \/ Exit
    \/ \E b \in Browsers : \/ Handler(b) \/ Script(b)
                            \/ \E p \in Pages, noSlash \in BOOLEAN : Visit(b, p, noSlash)
    \/ UNCHANGED <<pc, page, bare, epoch, version, whole>>
<1> SUFFICES ASSUME [Next]_vars, ~(Publish \/ Exit),
                    ~\E b \in Browsers :
                       \/ Handler(b) \/ Script(b)
                       \/ \E p \in Pages, noSlash \in BOOLEAN : Visit(b, p, noSlash)
             PROVE  UNCHANGED <<pc, page, bare, epoch, version, whole>>
  OBVIOUS
<1> USE DEF vars, tabVars
<1>1. ASSUME NEW p \in Pages,
             Edit(p) \/ Notice(p) \/ ReadSource(p) \/ OpenOutput(p) \/ WriteOutput(p)
      PROVE  UNCHANGED <<pc, page, bare, epoch, version, whole>>
  BY <1>1 DEF Edit, Notice, ReadSource, OpenOutput, WriteOutput
<1>2. CASE Callback \/ Wake \/ DebounceAgain \/ StartBuild \/ Clean
  BY <1>2 DEF Callback, Wake, DebounceAgain, StartBuild, Clean
<1>3. CASE FinishBuild \/ LoopRaises \/ Shutdown \/ StopAccepting
  BY <1>3 DEF FinishBuild, LoopRaises, Shutdown, StopAccepting
<1>4. CASE UNCHANGED vars
  BY <1>4
<1> QED
  BY <1>1, <1>2, <1>3, <1>4 DEF Next, Step, Observer, BuildLoop

-----------------------------------------------------------------------------
\* The order of the epochs, kept by each step.
LEMMA EpochStep ==
  TypeOK /\ EpochOrder /\ [Next]_vars => EpochOrder'
<1> SUFFICES ASSUME TypeOK, EpochOrder, [Next]_vars PROVE EpochOrder'
  OBVIOUS
<1>1. clock \in Nat /\ wantedEpoch \in Nat /\ visibleEpoch \in Nat
  BY DEF TypeOK
<1>2. CASE Wake
  <2>1. /\ loop = "wait" /\ loop' \in {"returned", "debounce"}
        /\ UNCHANGED <<clock, wantedEpoch, visibleEpoch>>
    BY <1>2 DEF Wake, epochVars
  <2> QED
    BY <2>1 DEF EpochOrder
<1>3. CASE StartBuild
  <2>1. /\ loop = "debounce" /\ loop' = "clean" /\ clock' = clock + 1
        /\ wantedEpoch' = clock' /\ visibleEpoch' = visibleEpoch
    BY <1>3 DEF StartBuild, DebounceTime
  <2> QED
    BY <1>1, <2>1 DEF EpochOrder
<1>4. CASE Clean \/ FinishBuild \/ LoopRaises
  <2>1. /\ loop' \in {"build", "publish", "raised"}
        /\ loop' # "raised" => loop \in {"clean", "build"}
        /\ UNCHANGED <<clock, wantedEpoch, visibleEpoch>>
    BY <1>4 DEF Clean, FinishBuild, LoopRaises, epochVars
  <2> QED
    BY <2>1 DEF EpochOrder
<1>5. CASE Publish
  <2>1. /\ loop' = "wait" /\ visibleEpoch' = wantedEpoch
        /\ UNCHANGED <<clock, wantedEpoch>>
    BY <1>5 DEF Publish
  <2> QED
    BY <1>1, <2>1 DEF EpochOrder
<1>6. CASE UNCHANGED <<clock, wantedEpoch, visibleEpoch, loop>>
  BY <1>6 DEF EpochOrder
<1> QED
  BY <1>2, <1>3, <1>4, <1>5, <1>6, LoopFrame

(* The two epochs tell a build in progress from a published one.           *)
THEOREM EpochsOrdered == Spec => []EpochOrder
<1>1. Init => EpochOrder
  <2> SUFFICES ASSUME Init PROVE EpochOrder
    OBVIOUS
  <2>1. clock = 0 /\ wantedEpoch = 0 /\ visibleEpoch = 0 /\ loop = "wait"
    BY DEF Init, InitServer
  <2> QED
    BY <2>1 DEF EpochOrder
<1>2. TypeOK /\ EpochOrder /\ [Next]_vars => EpochOrder'
  BY EpochStep
<1> QED
  BY <1>1, <1>2, TypeCorrect, PTL DEF Spec

(* Each publication raises the visible epoch: no two builds share one, so  *)
(* that every page served before a build is told apart from one served     *)
(* after it.                                                               *)
THEOREM EpochRaised == Spec => PublishRaisesEpoch
<1>1. TypeOK /\ EpochOrder /\ [Next]_vars =>
        [loop = "publish" /\ loop' = "wait" => visibleEpoch' > visibleEpoch]_vars
  <2> SUFFICES ASSUME TypeOK, EpochOrder, [Next]_vars,
                      loop = "publish", loop' = "wait"
               PROVE  visibleEpoch' > visibleEpoch
    OBVIOUS
  <2>1. Publish
    BY LoopFrame DEF Wake, StartBuild, Clean, FinishBuild, LoopRaises
  <2>2. visibleEpoch' = wantedEpoch
    BY <2>1 DEF Publish
  <2>3. visibleEpoch < wantedEpoch /\ visibleEpoch \in Nat /\ wantedEpoch \in Nat
    BY DEF EpochOrder, TypeOK
  <2> QED
    BY <2>2, <2>3
<1> QED
  BY <1>1, TypeCorrect, EpochsOrdered, PTL DEF Spec, PublishRaisesEpoch

\* The state of the site, kept by each step.
LEMMA SiteStep ==
  TypeOK /\ EpochOrder /\ SiteProgress /\ [Next]_vars => SiteProgress'
<1> SUFFICES ASSUME TypeOK, EpochOrder, SiteProgress, [Next]_vars
             PROVE  SiteProgress'
  OBVIOUS
<1>0. /\ stage \in [Pages -> Stages] /\ read \in [Pages -> Nat]
      /\ site \in [Pages -> Nat] /\ file \in [Pages -> FileStates]
      /\ wantedEpoch \in Nat /\ visibleEpoch \in Nat
  BY DEF TypeOK
<1>1. CASE Clean
  <2>1. /\ loop = "clean" /\ loop' = "build" /\ UNCHANGED <<wantedEpoch, visibleEpoch>>
        /\ \A p \in Pages : stage'[p] = "todo"
    BY <1>1 DEF Clean, epochVars
  <2>2. visibleEpoch' # wantedEpoch'
    BY <1>0, <2>1 DEF EpochOrder
  <2> QED
    BY <2>1, <2>2 DEF SiteProgress
<1>2. ASSUME NEW p \in Pages, ReadSource(p) \/ OpenOutput(p) \/ WriteOutput(p)
      PROVE  SiteProgress'
  <2>1. /\ loop = "build" /\ loop' = "build" /\ UNCHANGED <<wantedEpoch, visibleEpoch>>
    BY <1>2 DEF ReadSource, OpenOutput, WriteOutput, epochVars, loopVars
  <2>2. visibleEpoch' # wantedEpoch'
    BY <1>0, <2>1 DEF EpochOrder
  <2>3. ASSUME NEW q \in Pages, stage'[q] = "done"
        PROVE  file'[q] = "whole" /\ site'[q] = read'[q]
    <3>1. CASE ReadSource(p)
      BY <1>0, <2>1, <2>3, <3>1 DEF ReadSource, SiteProgress
    <3>2. CASE OpenOutput(p)
      BY <1>0, <2>1, <2>3, <3>2 DEF OpenOutput, SiteProgress
    <3>3. CASE WriteOutput(p)
      BY <1>0, <2>1, <2>3, <3>3 DEF WriteOutput, SiteProgress
    <3> QED
      BY <1>2, <3>1, <3>2, <3>3
  <2> QED
    BY <2>1, <2>2, <2>3 DEF SiteProgress
<1>3. CASE UNCHANGED <<stage, read, site, file>>
  <2>1. CASE FinishBuild
    <3>1. \A p \in Pages : file'[p] = "whole"
      BY <1>3, <2>1 DEF FinishBuild, SiteProgress
    <3>2. loop' = "publish"
      BY <2>1 DEF FinishBuild
    <3> QED
      BY <3>1, <3>2 DEF SiteProgress
  <2>2. CASE Publish
    <3>1. loop = "publish" /\ loop' = "wait"
      BY <2>2 DEF Publish
    <3> QED
      BY <1>3, <3>1 DEF SiteProgress
  <2>3. CASE Wake \/ LoopRaises
    <3>1. /\ loop' \notin {"build", "publish"}
          /\ UNCHANGED <<wantedEpoch, visibleEpoch>>
      BY <2>3 DEF Wake, LoopRaises, epochVars
    <3> QED
      BY <1>3, <3>1 DEF SiteProgress
  <2>4. CASE StartBuild
    <3>1. loop' = "clean" /\ wantedEpoch' = clock + 1 /\ visibleEpoch' = visibleEpoch
      BY <2>4 DEF StartBuild, DebounceTime
    <3>2. visibleEpoch' # wantedEpoch'
      BY <1>0, <3>1 DEF EpochOrder, TypeOK
    <3> QED
      BY <3>1, <3>2 DEF SiteProgress
  <2>5. CASE UNCHANGED <<clock, wantedEpoch, visibleEpoch, loop>>
    BY <1>3, <2>5 DEF SiteProgress
  <2>6. CASE Clean
    BY <1>1, <2>6
  <2> QED
    BY <2>1, <2>2, <2>3, <2>4, <2>5, <2>6, LoopFrame
<1> QED
  BY <1>1, <1>2, <1>3, SiteFrame

(* While the epochs are equal nobody writes to the site and all of it is   *)
(* there.                                                                  *)
THEOREM SiteWritten == Spec => []SiteProgress
<1>1. Init => SiteProgress
  BY DEF Init, InitServer, SiteProgress
<1>2. TypeOK /\ EpochOrder /\ SiteProgress /\ [Next]_vars => SiteProgress'
  BY SiteStep
<1> QED
  BY <1>1, <1>2, TypeCorrect, EpochsOrdered, PTL DEF Spec

\* The epochs of tabs, kept below the visible one by each step.
LEMMA TabEpochStep ==
  TypeOK /\ TypeOK' /\ EpochOrder /\ EpochOrder' /\ TabEpochs /\ [Next]_vars => TabEpochs'
<1> SUFFICES ASSUME TypeOK, TypeOK', EpochOrder, EpochOrder', TabEpochs, [Next]_vars,
                    NEW t \in Browsers
             PROVE  epoch'[t] <= visibleEpoch'
  BY DEF TabEpochs
<1>0. /\ epoch \in [Browsers -> Nat] /\ visibleEpoch \in Nat /\ visibleEpoch' \in Nat
      /\ wantedEpoch \in Nat /\ epoch[t] <= visibleEpoch
  BY DEF TypeOK, TabEpochs
<1>1. visibleEpoch <= visibleEpoch'
  <2>1. CASE Publish
    <3>1. visibleEpoch' = wantedEpoch
      BY <2>1 DEF Publish
    <3> QED
      BY <1>0, <3>1 DEF EpochOrder
  <2>2. CASE Wake \/ StartBuild \/ Clean \/ FinishBuild \/ LoopRaises
    <3>1. visibleEpoch' = visibleEpoch
      BY <2>2 DEF Wake, StartBuild, Clean, FinishBuild, LoopRaises, epochVars
    <3> QED
      BY <1>0, <3>1
  <2>3. CASE UNCHANGED <<clock, wantedEpoch, visibleEpoch, loop>>
    BY <1>0, <2>3
  <2> QED
    BY <2>1, <2>2, <2>3, LoopFrame
<1>2. epoch'[t] \in {epoch[t], 0, visibleEpoch}
  <2>1. CASE Publish \/ Exit
    BY <2>1 DEF Publish, Exit
  <2>2. CASE UNCHANGED <<pc, page, bare, epoch, version, whole>>
    BY <2>2
  <2>3. ASSUME NEW b \in Browsers, Handler(b) \/ Script(b)
                  \/ \E p \in Pages, noSlash \in BOOLEAN : Visit(b, p, noSlash)
        PROVE  epoch'[t] \in {epoch[t], 0, visibleEpoch}
    <3>1. CASE FetchEpoch(b)
      BY <1>0, <3>1 DEF FetchEpoch
    <3>2. CASE Redirect(b) \/ NotFound(b) \/ PollNewer(b)
               \/ \E p \in Pages, noSlash \in BOOLEAN : Visit(b, p, noSlash)
      BY <1>0, <3>2 DEF Redirect, NotFound, PollNewer, Visit, Reload, Blank
    <3>3. CASE FetchSleep(b) \/ ServeFile(b) \/ PollSleep(b) \/ PollTimeout(b) \/ Script(b)
      BY <1>0, <3>3 DEF FetchSleep, ServeFile, PollSleep, PollTimeout, Script, SendPoll, RetryTimer
    <3> QED
      BY <2>3, <3>1, <3>2, <3>3 DEF Handler
  <2> QED
    BY <2>1, <2>2, <2>3, TabFrame
<1> QED
  BY <1>0, <1>1, <1>2

(* A tab only knows epochs that were published.                            *)
THEOREM TabEpochsPublished == Spec => []TabEpochs
<1>1. Init => TabEpochs
  <2> SUFFICES ASSUME Init, NEW b \in Browsers PROVE epoch[b] <= visibleEpoch
    BY DEF TabEpochs
  <2>1. epoch[b] = 0 /\ visibleEpoch = 0
    BY DEF Init, InitServer, InitTabs
  <2> QED
    BY <2>1
<1>2. TypeOK /\ TypeOK' /\ EpochOrder /\ EpochOrder' /\ TabEpochs /\ [Next]_vars => TabEpochs'
  BY TabEpochStep
<1> QED
  BY <1>1, <1>2, TypeCorrect, EpochsOrdered, PTL DEF Spec

(* The handlers that wait for a build to end can tell by the epochs, and    *)
(* no tab is ahead of what is published.                                   *)
THEOREM BuildsTold == Spec => []EpochsTellBuilds
<1>1. EpochOrder /\ TabEpochs => EpochsTellBuilds
  BY DEF EpochOrder, TabEpochs, EpochsTellBuilds
<1> QED
  BY <1>1, EpochsOrdered, TabEpochsPublished, PTL

(* No handler thread sleeps on a condition that holds.                     *)
THEOREM NoWakeupLost == Spec => []NoLostWakeup
<1>1. Init => NoLostWakeup
  BY DEF Init, InitTabs, NoLostWakeup
<1>2. TypeOK /\ EpochOrder /\ TabEpochs /\ NoLostWakeup /\ [Next]_vars => NoLostWakeup'
  <2> SUFFICES ASSUME TypeOK, EpochOrder, TabEpochs, NoLostWakeup, [Next]_vars,
                      NEW t \in Browsers
               PROVE  /\ pc'[t] = "pollWait" => ~(visibleEpoch' > epoch'[t])
                      /\ pc'[t] = "fetchWait" => visibleEpoch' # wantedEpoch'
    BY DEF NoLostWakeup, Newer, Built
  <2>0. /\ epoch \in [Browsers -> Nat] /\ pc \in [Browsers -> TabStates]
        /\ visibleEpoch \in Nat /\ wantedEpoch \in Nat /\ clock \in Nat
        /\ visibleEpoch <= wantedEpoch /\ wantedEpoch <= clock
    BY DEF TypeOK, EpochOrder
  <2>1. /\ pc[t] = "pollWait" => ~(visibleEpoch > epoch[t])
        /\ pc[t] = "fetchWait" => visibleEpoch # wantedEpoch
    BY DEF NoLostWakeup, Newer, Built
  <2>2. CASE Publish
    BY <2>0, <2>2 DEF Publish, NotifyEpoch, Awake
  <2>3. CASE Exit
    BY <2>0, <2>3, <2>1 DEF Exit, Dropped, epochVars
  <2>4. ASSUME NEW b \in Browsers, Handler(b) \/ Script(b)
                  \/ \E p \in Pages, noSlash \in BOOLEAN : Visit(b, p, noSlash)
        PROVE  /\ pc'[t] = "pollWait" => ~(visibleEpoch' > epoch'[t])
               /\ pc'[t] = "fetchWait" => visibleEpoch' # wantedEpoch'
    <3>1. UNCHANGED <<visibleEpoch, wantedEpoch>>
      BY <2>4 DEF Visit, Handler, Script, FetchSleep, FetchEpoch, ServeFile, Redirect, NotFound,
         PollNewer, PollSleep, PollTimeout, SendPoll, RetryTimer, Reload, serverVars, epochVars
    <3>2. CASE b = t
      <4>1. CASE PollSleep(b)
        BY <2>0, <2>1, <3>1, <3>2, <4>1 DEF PollSleep, Goto, Newer
      <4>2. CASE FetchSleep(b)
        BY <2>0, <2>1, <3>1, <3>2, <4>2 DEF FetchSleep, Goto, Built
      <4>3. CASE ~PollSleep(b) /\ ~FetchSleep(b)
        <5>1. pc'[t] \notin {"pollWait", "fetchWait"}
          BY <2>0, <2>4, <3>2, <4>3 DEF Visit, Handler, Script, FetchEpoch, ServeFile, Redirect,
             NotFound, PollNewer, PollTimeout, SendPoll, RetryTimer, Reload, Goto
        <5> QED
          BY <5>1
      <4> QED
        BY <4>1, <4>2, <4>3
    <3>3. CASE b # t
      <4>1. pc'[t] = pc[t] /\ epoch'[t] = epoch[t]
        BY <2>0, <2>4, <3>3 DEF Visit, Handler, Script, FetchSleep, FetchEpoch, ServeFile, Redirect,
           NotFound, PollNewer, PollSleep, PollTimeout, SendPoll, RetryTimer, Reload, Blank, Goto
      <4> QED
        BY <2>1, <3>1, <4>1
    <3> QED
      BY <3>2, <3>3
  <2>5. CASE UNCHANGED <<pc, page, bare, epoch, version, whole>>
    <3>1. CASE StartBuild
      <4>1. wantedEpoch' = clock + 1 /\ visibleEpoch' = visibleEpoch
        BY <3>1 DEF StartBuild, DebounceTime
      <4> QED
        BY <2>0, <2>1, <2>5, <4>1
    <3>2. CASE Wake \/ Clean \/ FinishBuild \/ LoopRaises
      <4>1. UNCHANGED <<visibleEpoch, wantedEpoch>>
        BY <3>2 DEF Wake, Clean, FinishBuild, LoopRaises, epochVars
      <4> QED
        BY <2>1, <2>5, <4>1
    <3>3. CASE UNCHANGED <<clock, wantedEpoch, visibleEpoch, loop>>
      BY <2>1, <2>5, <3>3
    <3> QED
      BY <2>2, <3>1, <3>2, <3>3, LoopFrame
  <2> QED
    BY <2>2, <2>3, <2>4, <2>5, TabFrame
<1> QED
  BY <1>1, <1>2, TypeCorrect, EpochsOrdered, TabEpochsPublished, PTL DEF Spec

\* Pages that are trusted, kept current by each step.
LEMMA TrustedStep ==
  TypeOK /\ TypeOK' /\ EpochOrder /\ TabEpochs /\ SiteProgress
        /\ TrustedPageIsCurrent /\ [Next]_vars => TrustedPageIsCurrent'
<1> DEFINE Fresh(t) == pc[t] \in Scripted /\ epoch[t] = wantedEpoch =>
                         whole[t] /\ version[t] = site[page[t]] /\ file[page[t]] = "whole"
<1> SUFFICES ASSUME TypeOK, TypeOK', EpochOrder, TabEpochs, SiteProgress,
                    TrustedPageIsCurrent, [Next]_vars, NEW t \in Browsers
             PROVE  Fresh(t)'
  BY DEF TrustedPageIsCurrent
<1>0. /\ pc \in [Browsers -> TabStates] /\ page \in [Browsers -> Pages]
      /\ epoch \in [Browsers -> Nat] /\ version \in [Browsers -> Nat]
      /\ whole \in [Browsers -> BOOLEAN]
  BY DEF TypeOK
<1>1. /\ epoch[t] \in Nat /\ visibleEpoch \in Nat /\ wantedEpoch \in Nat /\ clock \in Nat
      /\ epoch[t] <= visibleEpoch /\ visibleEpoch <= wantedEpoch /\ wantedEpoch <= clock
  BY DEF TypeOK, EpochOrder, TabEpochs
<1>2. Fresh(t)
  BY DEF TrustedPageIsCurrent
<1>3. CASE Publish
  <2>1. UNCHANGED <<wantedEpoch, epoch>> /\ loop = "publish"
    BY <1>3 DEF Publish
  <2>2. epoch[t] # wantedEpoch
    BY <1>1, <2>1 DEF EpochOrder
  <2> QED
    BY <2>1, <2>2
<1>4. CASE Exit
  <2>1. /\ UNCHANGED <<wantedEpoch, epoch, version, whole, page, site, file>>
        /\ pc' = [b \in Browsers |-> Dropped(pc[b])]
    BY <1>4 DEF Exit, epochVars, siteVars
  <2>2. pc'[t] \in Scripted => pc[t] \in Scripted
    BY <1>0, <2>1 DEF Dropped, Scripted
  <2> QED
    BY <1>2, <2>1, <2>2
<1>5. ASSUME NEW b \in Browsers, Handler(b) \/ Script(b)
                \/ \E p \in Pages, noSlash \in BOOLEAN : Visit(b, p, noSlash)
      PROVE  Fresh(t)'
  <2>1. UNCHANGED <<wantedEpoch, site, file>>
    BY <1>5 DEF Visit, Handler, Script, FetchSleep, FetchEpoch, ServeFile, Redirect, NotFound,
       PollNewer, PollSleep, PollTimeout, SendPoll, RetryTimer, Reload,
       serverVars, epochVars, siteVars
  <2>2. CASE b # t
    <3>1. /\ pc'[t] = pc[t] /\ epoch'[t] = epoch[t] /\ version'[t] = version[t]
          /\ whole'[t] = whole[t] /\ page'[t] = page[t]
      BY <1>0, <1>5, <2>2 DEF Visit, Handler, Script, FetchSleep, FetchEpoch, ServeFile,
         Redirect, NotFound, PollNewer, PollSleep, PollTimeout, SendPoll, RetryTimer,
         Reload, Blank, Goto
    <3> QED
      BY <1>2, <2>1, <3>1
  <2>3. CASE b = t
    <3>1. CASE ServeFile(b)
      <4>1. /\ UNCHANGED <<page, epoch>>
            /\ file[page[t]] = "whole" => whole'[t] /\ version'[t] = site[page[t]]
        BY <1>0, <2>3, <3>1 DEF ServeFile
      <4>2. epoch[t] = wantedEpoch => visibleEpoch = wantedEpoch
        BY <1>1
      <4>3. epoch[t] = wantedEpoch => file[page[t]] = "whole"
        BY <1>0, <4>2 DEF SiteProgress
      <4> QED
        BY <2>1, <4>1, <4>3
    <3>2. CASE PollSleep(b) \/ PollTimeout(b) \/ Script(b)
      <4>1. pc[t] \in Scripted /\ UNCHANGED <<epoch, version, whole, page>>
        BY <2>3, <3>2 DEF PollSleep, PollTimeout, Script, SendPoll, RetryTimer, Scripted
      <4> QED
        BY <1>2, <2>1, <4>1
    <3>3. CASE ~(ServeFile(b) \/ PollSleep(b) \/ PollTimeout(b) \/ Script(b))
      <4>1. pc'[t] \notin Scripted
        BY <1>0, <1>5, <2>3, <3>3 DEF Visit, Handler, FetchSleep, FetchEpoch, Redirect,
           NotFound, PollNewer, Reload, Goto, Scripted
      <4> QED
        BY <4>1
    <3> QED
      BY <3>1, <3>2, <3>3
  <2> QED
    BY <2>2, <2>3
<1>6. CASE UNCHANGED <<pc, page, bare, epoch, version, whole>>
  <2>1. CASE StartBuild
    <3>1. wantedEpoch' = clock + 1
      BY <2>1 DEF StartBuild, DebounceTime
    <3>2. epoch'[t] # wantedEpoch'
      BY <1>1, <1>6, <3>1
    <3> QED
      BY <3>2
  <2>2. CASE \/ Clean
             \/ \E p \in Pages : ReadSource(p) \/ OpenOutput(p) \/ WriteOutput(p)
    <3>1. loop \in {"clean", "build"} /\ wantedEpoch' = wantedEpoch
      BY <2>2 DEF Clean, ReadSource, OpenOutput, WriteOutput, epochVars
    <3>2. epoch[t] # wantedEpoch
      BY <1>1, <3>1 DEF EpochOrder
    <3> QED
      BY <1>6, <3>1, <3>2
  <2>3. CASE UNCHANGED <<stage, read, site, file>> /\ ~StartBuild
    <3>1. wantedEpoch' = wantedEpoch
      BY <2>3, LoopFrame DEF Wake, Clean, FinishBuild, Publish, LoopRaises, epochVars
    <3> QED
      BY <1>2, <1>6, <2>3, <3>1
  <2> QED
    BY <2>1, <2>2, <2>3, SiteFrame
<1> QED
  BY <1>3, <1>4, <1>5, <1>6, TabFrame

(* The lock around _visible_epoch is released before the file is opened,   *)
(* and still no page that is torn or out of date is trusted: one served    *)
(* while the next build was writing has an epoch that this build outdates. *)
THEOREM TrustedPagesCurrent == Spec => []TrustedPageIsCurrent
<1>1. Init => TrustedPageIsCurrent
  BY DEF Init, InitTabs, TrustedPageIsCurrent, Scripted
<1>2. TypeOK /\ TypeOK' /\ EpochOrder /\ TabEpochs /\ SiteProgress
        /\ TrustedPageIsCurrent /\ [Next]_vars => TrustedPageIsCurrent'
  BY TrustedStep
<1> QED
  BY <1>1, <1>2, TypeCorrect, EpochsOrdered, TabEpochsPublished, SiteWritten, PTL DEF Spec

(* What the observer has seen was on disk before.                          *)
THEOREM SeenOrdered == Spec => []SeenOrder
<1>1. Init => SeenOrder
  BY DEF Init, InitServer, SeenOrder
<1>2. TypeOK /\ SeenOrder /\ [Next]_vars => SeenOrder'
  <2> SUFFICES ASSUME TypeOK, SeenOrder, [Next]_vars, NEW q \in Pages
               PROVE  seen'[q] <= src'[q]
    BY DEF SeenOrder
  <2>0. src \in [Pages -> Nat] /\ seen \in [Pages -> Nat] /\ seen[q] <= src[q]
    BY DEF TypeOK, SeenOrder
  <2>1. ASSUME NEW p \in Pages, Edit(p) PROVE seen'[q] <= src'[q]
    BY <2>0, <2>1 DEF Edit
  <2>2. ASSUME NEW p \in Pages, Notice(p) PROVE seen'[q] <= src'[q]
    BY <2>0, <2>2 DEF Notice
  <2>3. CASE UNCHANGED <<src, seen>>
    BY <2>0, <2>3
  <2> QED
    BY <2>1, <2>2, <2>3, EditFrame
<1> QED
  BY <1>1, <1>2, TypeCorrect, PTL DEF Spec

(* Clearing _to_rebuild when a build starts, before it has read anything,  *)
(* loses no edit that the observer has noticed.                            *)
THEOREM NoEditLost == Spec => []NoLostEdit
<1> DEFINE Kept(p) == seen[p] <= Covered(p) \/ events \/ toRebuild \/ loop = "raised"
<1>1. Init => NoLostEdit
  BY DEF Init, InitServer, NoLostEdit, Covered
<1>2. TypeOK /\ TypeOK' /\ SeenOrder /\ SeenOrder' /\ SiteProgress /\ NoLostEdit /\ [Next]_vars
        => NoLostEdit'
  <2> SUFFICES ASSUME TypeOK, TypeOK', SeenOrder, SeenOrder', SiteProgress, NoLostEdit,
                      [Next]_vars, NEW q \in Pages
               PROVE  Kept(q)'
    BY DEF NoLostEdit
  <2>0. /\ src \in [Pages -> Nat] /\ seen \in [Pages -> Nat] /\ read \in [Pages -> Nat]
        /\ site \in [Pages -> Nat] /\ stage \in [Pages -> Stages] /\ seen[q] <= src[q]
        /\ src' \in [Pages -> Nat] /\ seen' \in [Pages -> Nat] /\ seen'[q] <= src'[q]
    BY DEF TypeOK, SeenOrder
  <2>1. Kept(q)
    BY DEF NoLostEdit
  <2>2. ASSUME NEW p \in Pages, Edit(p) PROVE Kept(q)'
    <3>1. src[q] <= src'[q]
      BY <2>0, <2>2 DEF Edit
    <3>2. UNCHANGED <<seen, events, toRebuild, loop, stage, read, site>>
      BY <2>2 DEF Edit, condVars, loopVars, siteVars
    <3> QED
      BY <2>0, <2>1, <3>1, <3>2 DEF Covered
  <2>3. ASSUME NEW p \in Pages, Notice(p) PROVE Kept(q)'
    BY <2>3 DEF Notice
  <2>4. CASE Callback
    BY <2>4 DEF Callback
  <2>5. CASE StartBuild
    <3>1. loop' = "clean" /\ UNCHANGED <<src, seen>>
      BY <2>5 DEF StartBuild, srcVars
    <3> QED
      BY <2>0, <3>1 DEF Covered
  <2>6. CASE LoopRaises
    BY <2>6 DEF LoopRaises
  <2>7. CASE Clean
    <3>1. loop' = "build" /\ stage'[q] = "todo" /\ UNCHANGED <<src, seen>>
      BY <2>7 DEF Clean, srcVars
    <3> QED
      BY <2>0, <3>1 DEF Covered
  <2>8. ASSUME NEW p \in Pages, ReadSource(p) PROVE Kept(q)'
    <3>1. /\ loop = "build" /\ loop' = "build" /\ UNCHANGED <<src, seen, events, toRebuild>>
          /\ q = p => read'[q] = src[q]
          /\ q # p => read'[q] = read[q] /\ stage'[q] = stage[q]
      BY <2>0, <2>8 DEF ReadSource, loopVars, srcVars, condVars
    <3> QED
      BY <2>0, <2>1, <3>1 DEF Covered
  <2>9. ASSUME NEW p \in Pages, OpenOutput(p) \/ WriteOutput(p) PROVE Kept(q)'
    <3>1. /\ loop = "build" /\ loop' = "build" /\ UNCHANGED <<src, seen, events, toRebuild, read>>
          /\ (stage'[q] # "todo" /\ stage[q] # "todo") \/ stage'[q] = stage[q]
      BY <2>0, <2>9 DEF OpenOutput, WriteOutput, loopVars, srcVars, condVars
    <3> QED
      BY <2>0, <2>1, <3>1 DEF Covered
  <2>10. CASE FinishBuild
    <3>1. /\ loop = "build" /\ loop' = "publish" /\ stage[q] = "done"
          /\ UNCHANGED <<src, seen, events, toRebuild, read, site>>
      BY <2>10 DEF FinishBuild, srcVars, condVars, siteVars
    <3>2. site[q] = read[q]
      BY <3>1 DEF SiteProgress
    <3> QED
      BY <2>1, <3>1, <3>2 DEF Covered
  <2>11. CASE Publish \/ Wake
    <3>1. /\ loop \notin {"clean", "build"} /\ loop' \notin {"clean", "build"} /\ loop # "raised"
          /\ UNCHANGED <<src, seen, events, toRebuild, site>>
      BY <2>11 DEF Publish, Wake, srcVars, condVars, siteVars
    <3> QED
      BY <2>1, <3>1 DEF Covered
  <2>12. CASE UNCHANGED <<src, seen, events, toRebuild, loop, stage, read, site>>
    BY <2>1, <2>12 DEF Covered
  <2> QED
    BY <2>2, <2>3, <2>4, <2>5, <2>6, <2>7, <2>8, <2>9, <2>10, <2>11, <2>12, EditFrame, LoopFrame, SiteFrame
<1> QED
  BY <1>1, <1>2, TypeCorrect, SeenOrdered, SiteWritten, PTL DEF Spec

-----------------------------------------------------------------------------
(***************************************************************************)
(* The live reload server implements AtomicSite, for any number of tabs,   *)
(* documents and edits.                                                    *)
(***************************************************************************)

(* What the steps of the proof rely on.                                    *)
Invariant == TypeOK /\ EpochOrder /\ TabEpochs /\ TrustedPageIsCurrent

LEMMA InvariantHolds == Spec => []Invariant
BY TypeCorrect, EpochsOrdered, TabEpochsPublished, TrustedPagesCurrent, PTL DEF Invariant

(* The epochs as numbers, in order.                                        *)
LEMMA EpochFacts ==
  Invariant => /\ visibleEpoch \in Nat /\ wantedEpoch \in Nat /\ clock \in Nat
               /\ visibleEpoch <= wantedEpoch /\ wantedEpoch <= clock
               /\ \A b \in Browsers : epoch[b] \in Nat /\ epoch[b] <= visibleEpoch
BY DEF Invariant, TypeOK, EpochOrder, TabEpochs

-----------------------------------------------------------------------------
(* A build that starts withdraws the edition: no tab has an epoch as high. *)
LEMMA StartBuildStartsEdition ==
  ASSUME Invariant, StartBuild
  PROVE  Abstract!StartEdition
<1>1. /\ wantedEpoch' = clock + 1 /\ UNCHANGED <<visibleEpoch, pc, epoch>>
  BY DEF StartBuild, DebounceTime, tabVars
<1>2. ~Built'
  BY <1>1, EpochFacts DEF Built
<1>3. \A b \in Browsers : epoch'[b] # wantedEpoch'
  BY <1>1, EpochFacts
<1>4. Edition' = Abstract!NoEdition
  BY <1>2 DEF Edition, Abstract!NoEdition
<1>5. Current' = [b \in Browsers |-> Abstract!Nothing]
  BY <1>3 DEF Current, UpToDate, Abstract!Nothing
<1>6. Outdated' = Outdated \cup {b \in Browsers : Current[b] # Abstract!Nothing}
  <2>1. Outdated' = {b \in Browsers : pc[b] \in Scripted}
    BY <1>1, <1>3 DEF Outdated
  <2>2. \A b \in Browsers : Current[b] # Abstract!Nothing <=> UpToDate(b)
    BY DEF Current, Abstract!Nothing
  <2> QED
    BY <2>1, <2>2 DEF Outdated, UpToDate
<1> QED
  BY <1>2, <1>4, <1>5, <1>6 DEF Abstract!StartEdition

(* Publishing puts what is on disk in its place, unnoticed by the tabs.    *)
LEMMA PublishPublishesEdition ==
  ASSUME Invariant, Publish
  PROVE  Abstract!PublishEdition
<1>1. /\ loop = "publish" /\ visibleEpoch' = wantedEpoch /\ UNCHANGED wantedEpoch
      /\ UNCHANGED <<site, page, epoch, version, whole>>
  BY DEF Publish, siteVars
<1>2. ~Built /\ Built'
  BY <1>1, EpochFacts DEF Built, Invariant, EpochOrder
<1>3. Edition' \in [Pages -> Nat]
  BY <1>1, <1>2 DEF Edition, Invariant, TypeOK
<1>4. \A b \in Browsers : pc'[b] \in Scripted <=> pc[b] \in Scripted
  BY DEF Publish, NotifyEpoch, Awake, Scripted, Invariant, TypeOK
<1>5. Current' = Current
  BY <1>1, <1>4 DEF Current, UpToDate, Shown
<1>6. Outdated' = Outdated
  BY <1>1, <1>4 DEF Outdated
<1> QED
  BY <1>2, <1>3, <1>5, <1>6 DEF Abstract!PublishEdition

(* A tab that gets a page is up to date with it, or will have to reload.   *)
LEMMA ServeFileShows ==
  ASSUME Invariant, Invariant', NEW b \in Browsers, ServeFile(b)
  PROVE  Abstract!Show(b)
<1>1. /\ UNCHANGED <<visibleEpoch, wantedEpoch, site, page, epoch>>
      /\ pc[b] = "open" /\ pc'[b] = "shown"
      /\ \A c \in Browsers \ {b} : pc'[c] = pc[c] /\ version'[c] = version[c] /\ whole'[c] = whole[c]
  BY DEF ServeFile, Goto, serverVars, epochVars, siteVars, Invariant, TypeOK
<1>2. Built' = Built /\ Edition' = Edition
  BY <1>1 DEF Built, Edition
<1>3. Current[b] = Abstract!Nothing /\ b \notin Outdated
  BY <1>1 DEF Current, UpToDate, Outdated, Scripted, Abstract!Nothing
<1>4. \A c \in Browsers \ {b} : (UpToDate(c)' <=> UpToDate(c)) /\ Shown(c)' = Shown(c)
  BY <1>1 DEF UpToDate, Shown
<1>5. CASE epoch[b] = wantedEpoch
  <2>1. Built
    BY <1>5, EpochFacts DEF Built
  <2>2. UpToDate(b)'
    BY <1>1, <1>5 DEF UpToDate, Scripted
  <2>3. whole'[b] /\ version'[b] = site[page[b]] /\ page[b] \in Pages
    BY <1>1, <2>2 DEF UpToDate, Invariant, TypeOK, TrustedPageIsCurrent
  <2>4. Shown(b)' = <<page[b], Edition[page[b]]>>
    BY <1>1, <2>1, <2>3 DEF Shown, Edition
  <2>5. Current' = [Current EXCEPT ![b] = {<<page[b], Edition[page[b]]>>}]
    BY <1>4, <2>2, <2>4 DEF Current
  <2>6. Outdated' = Outdated
    BY <1>1, <1>3, <1>5 DEF Outdated
  <2> QED
    BY <1>2, <1>3, <2>1, <2>3, <2>5, <2>6 DEF Abstract!Show
<1>6. CASE epoch[b] # wantedEpoch
  <2>1. Outdated' = Outdated \cup {b}
    BY <1>1, <1>6 DEF Outdated, Scripted
  <2>2. ~UpToDate(b) /\ ~UpToDate(b)'
    BY <1>1, <1>6 DEF UpToDate
  <2>3. Current' = Current
    BY <1>4, <2>2 DEF Current
  <2> QED
    BY <1>2, <1>3, <2>1, <2>3 DEF Abstract!Show
<1> QED
  BY <1>5, <1>6

(* All else that a tab or its handler does leaves the page or keeps it.    *)
LEMMA TabLeavesOrKeeps ==
  ASSUME Invariant, NEW b \in Browsers, ~ServeFile(b),
         \/ Handler(b) \/ Script(b)
         \/ \E p \in Pages, noSlash \in BOOLEAN : Visit(b, p, noSlash)
  PROVE  Abstract!Leave(b) \/ UNCHANGED Abstract!vars
<1>1. UNCHANGED <<visibleEpoch, wantedEpoch, site>>
  BY DEF Visit, Handler, Script, FetchSleep, FetchEpoch, Redirect, NotFound, PollNewer,
     PollSleep, PollTimeout, SendPoll, RetryTimer, Reload, serverVars, epochVars, siteVars
<1>2. Built' = Built /\ Edition' = Edition
  BY <1>1 DEF Built, Edition
<1>3. \A c \in Browsers \ {b} :
        /\ pc'[c] = pc[c] /\ epoch'[c] = epoch[c] /\ version'[c] = version[c]
        /\ whole'[c] = whole[c] /\ page'[c] = page[c]
  BY DEF Visit, Handler, Script, FetchSleep, FetchEpoch, Redirect, NotFound, PollNewer,
     PollSleep, PollTimeout, SendPoll, RetryTimer, Reload, Blank, Goto, Invariant, TypeOK
<1>4. \A c \in Browsers \ {b} : (UpToDate(c)' <=> UpToDate(c)) /\ Shown(c)' = Shown(c)
  BY <1>1, <1>3 DEF UpToDate, Shown
<1>5. CASE PollSleep(b) \/ PollTimeout(b) \/ Script(b)
  <2>1. /\ UNCHANGED <<epoch, version, whole, page>>
        /\ pc[b] \in Scripted /\ pc'[b] \in Scripted
    BY <1>5 DEF PollSleep, PollTimeout, Script, SendPoll, RetryTimer, Goto, Scripted,
       Invariant, TypeOK
  <2>2. (UpToDate(b)' <=> UpToDate(b)) /\ Shown(b)' = Shown(b)
    BY <1>1, <2>1 DEF UpToDate, Shown
  <2>3. Current' = Current
    BY <1>4, <2>2 DEF Current
  <2>4. Outdated' = Outdated
    BY <1>1, <1>3, <2>1 DEF Outdated
  <2> QED
    BY <1>2, <2>3, <2>4 DEF Abstract!vars
<1>6. CASE ~(PollSleep(b) \/ PollTimeout(b) \/ Script(b))
  <2>1. pc'[b] \notin Scripted
    BY <1>6 DEF Visit, Handler, FetchSleep, FetchEpoch, Redirect, NotFound, PollNewer,
       Reload, Goto, Scripted, Invariant, TypeOK
  <2>2. Current' = [Current EXCEPT ![b] = Abstract!Nothing]
    BY <1>4, <2>1 DEF Current, UpToDate, Abstract!Nothing
  <2>3. Outdated' = Outdated \ {b}
    BY <1>1, <1>3, <2>1 DEF Outdated
  <2> QED
    BY <1>2, <2>2, <2>3 DEF Abstract!Leave
<1> QED
  BY <1>5, <1>6

(* The builder writes only while there is no edition, and the other steps  *)
(* of the process change nothing that a tab goes by.                       *)
LEMMA OthersStutter ==
  ASSUME Invariant, [Next]_vars, ~StartBuild,
         Exit \/ UNCHANGED <<pc, page, bare, epoch, version, whole>>
  PROVE  UNCHANGED Abstract!vars \/ Publish
<1> SUFFICES ASSUME ~Publish PROVE UNCHANGED Abstract!vars
  OBVIOUS
<1>1. UNCHANGED <<visibleEpoch, wantedEpoch>>
  BY LoopFrame DEF Wake, Clean, FinishBuild, LoopRaises, epochVars
<1>2. Built' = Built
  BY <1>1 DEF Built
<1>3. Built => UNCHANGED site
  <2>1. \/ Clean \/ \E p \in Pages : ReadSource(p) \/ OpenOutput(p) \/ WriteOutput(p)
        => loop \in {"clean", "build"}
    BY DEF Clean, ReadSource, OpenOutput, WriteOutput
  <2>2. Built => loop \notin {"clean", "build"}
    BY EpochFacts DEF Built, Invariant, EpochOrder
  <2> QED
    BY <2>1, <2>2, SiteFrame
<1>4. Edition' = Edition
  BY <1>2, <1>3 DEF Edition
<1>5. /\ UNCHANGED <<page, epoch, version, whole>>
      /\ \A b \in Browsers : pc'[b] \in Scripted <=> pc[b] \in Scripted
  BY DEF Exit, Dropped, Scripted, Invariant, TypeOK
<1>6. Current' = Current
  BY <1>1, <1>5 DEF Current, UpToDate, Shown
<1>7. Outdated' = Outdated
  BY <1>1, <1>5 DEF Outdated
<1> QED
  BY <1>2, <1>4, <1>6, <1>7 DEF Abstract!vars

-----------------------------------------------------------------------------
(* However builds, handlers and tabs interleave, a tab that goes by its    *)
(* epoch finds the site to be replaced as a whole.                         *)
THEOREM SitePublishedAtomically == Spec => PublishesAtomically
<1>1. Init => Abstract!Init
  <2> SUFFICES ASSUME Init PROVE Abstract!Init
    OBVIOUS
  <2>1. Built /\ site = [p \in Pages |-> 0]
    BY DEF Init, InitServer, Built
  <2>2. Edition = Abstract!NoEdition
    BY <2>1 DEF Edition, Abstract!NoEdition
  <2>3. \A b \in Browsers : pc[b] \notin Scripted
    BY DEF Init, InitTabs, Scripted
  <2>4. Current = [b \in Browsers |-> Abstract!Nothing] /\ Outdated = {}
    BY <2>3 DEF Current, UpToDate, Outdated, Abstract!Nothing
  <2> QED
    BY <2>1, <2>2, <2>4 DEF Abstract!Init
<1>2. Invariant /\ Invariant' /\ [Next]_vars => [Abstract!Next]_(Abstract!vars)
  <2> SUFFICES ASSUME Invariant, Invariant', [Next]_vars
               PROVE  Abstract!Next \/ UNCHANGED Abstract!vars
    OBVIOUS
  <2>1. CASE StartBuild
    BY <2>1, StartBuildStartsEdition DEF Abstract!Next
  <2>2. CASE Publish
    BY <2>2, PublishPublishesEdition DEF Abstract!Next
  <2>3. ASSUME NEW b \in Browsers,
               \/ Handler(b) \/ Script(b)
               \/ \E p \in Pages, noSlash \in BOOLEAN : Visit(b, p, noSlash)
        PROVE  Abstract!Next \/ UNCHANGED Abstract!vars
    <3>1. CASE ServeFile(b)
      BY <3>1, ServeFileShows DEF Abstract!Next
    <3>2. CASE ~ServeFile(b)
      BY <2>3, <3>2, TabLeavesOrKeeps DEF Abstract!Next
    <3> QED
      BY <3>1, <3>2
  <2>4. CASE (Exit \/ UNCHANGED <<pc, page, bare, epoch, version, whole>>) /\ ~StartBuild
    BY <2>2, <2>4, OthersStutter
  <2> QED
    BY <2>1, <2>2, <2>3, <2>4, TabFrame
<1> QED
  BY <1>1, <1>2, InvariantHolds, PTL DEF Spec, PublishesAtomically, Abstract!Spec

-----------------------------------------------------------------------------
(* Runs of `mkdocs serve`.                                                 *)

LoopOver == {"returned", "raised"}

(* What serve() has behind it in each phase, and that the server and its   *)
(* loop outlive the phase "serve" only as a loop that is over.             *)
LifeInv ==
  /\ phase \in {"init", "build", "built", "bound", "serve"} => siteDir
  /\ phase \in {"build", "built", "bound", "serve"} => plugins = "startup"
  /\ phase \in {"off", "init", "build", "built", "bound"} => loop \in LoopOver
  /\ loop \notin LoopOver => phase = "serve"

LEMMA InitLife == DevInit => LifeInv
  BY DEF DevInit, LifeInv, LoopOver

\* A loop that is over stays so until the next server.
LEMMA OverStays ==
  ASSUME Step \/ Exit, loop \in LoopOver
  PROVE  UNCHANGED <<loop, wantedEpoch, visibleEpoch>>
<1>1. \/ Wake \/ StartBuild \/ Clean \/ FinishBuild \/ Publish \/ LoopRaises
      \/ UNCHANGED <<loop, wantedEpoch, visibleEpoch>>
  BY LoopFrame DEF Next
<1> QED
  BY <1>1 DEF LoopOver, Wake, StartBuild, Clean, FinishBuild, Publish, LoopRaises

LEMMA NextLife == LifeInv /\ [DevNext]_devVars => LifeInv'
<1> SUFFICES ASSUME LifeInv, [DevNext]_devVars PROVE LifeInv'
  OBVIOUS
<1> USE DEF LifeInv, LoopOver
<1>1. CASE UNCHANGED devVars
  BY <1>1 DEF devVars, vars, lifeVars, serverVars, loopVars
<1>2. CASE Launch \/ StartupRaises \/ BodyRaises \/ Startup
  BY <1>2 DEF Launch, StartupRaises, BodyRaises, Startup, vars, serverVars, loopVars
<1>3. CASE (\E p \in Pages : InitialRead(p)) \/ InitialWrite \/ Construct
  BY <1>3 DEF InitialRead, InitialWrite, Construct, loopVars, lifeVars
<1>4. CASE Serve
  BY <1>4 DEF Serve
<1>5. CASE LeaveServe \/ ShutdownEvent \/ RemoveSiteDir
  BY <1>5 DEF LeaveServe, ShutdownEvent, RemoveSiteDir, vars, serverVars, loopVars
<1>6. CASE ProcessExit
  <2>1. loop \in LoopOver /\ phase' = "off" /\ UNCHANGED <<siteDir, plugins>>
    BY <1>6 DEF ProcessExit
  <2>2. loop' = loop
    BY <1>6 DEF ProcessExit, Exit, vars, serverVars, loopVars
  <2> QED
    BY <2>1, <2>2
<1>7. CASE Step /\ UNCHANGED lifeVars
  BY <1>7, OverStays DEF lifeVars
<1> QED
  BY <1>1, <1>2, <1>3, <1>4, <1>5, <1>6, <1>7 DEF DevNext, Proceed

(* However often `mkdocs serve` is started, and whatever raises: whenever  *)
(* the loop of the server runs, its directory exists and the last          *)
(* one-time event that its plugins had is startup.                         *)
THEOREM BuildsInLifetime == DevSpec => []BuildsInsideLifetime
<1>1. LifeInv => BuildsInsideLifetime
  BY DEF LifeInv, LoopOver, BuildsInsideLifetime
<1> QED
  BY <1>1, InitLife, NextLife, PTL DEF DevSpec

-----------------------------------------------------------------------------
(* What holds of the epochs across processes: a new server's is above all  *)
(* before, so that every tab that is still open has an older one.          *)
EpochsInv == TypeOK /\ EpochOrder /\ TabEpochs

(* What holds of the site from the initial build on, and of the tabs from  *)
(* the moment that there is a server, until serve() is left.  Until it     *)
(* serves, its epochs are as they were made.                               *)
SiteInv ==
  /\ phase = "built" => \A p \in Pages : file[p] = "whole"
  /\ phase \in {"bound", "serve"} => SiteProgress
TrustInv ==
  /\ phase = "bound" => Built
  /\ phase \in {"bound", "serve"} => TrustedPageIsCurrent

RestartInv == LifeInv /\ EpochsInv /\ SiteInv /\ TrustInv

LEMMA InitRestart == DevInit => RestartInv
<1> SUFFICES ASSUME DevInit PROVE RestartInv
  OBVIOUS
<1>1. /\ clock = 0 /\ wantedEpoch = 0 /\ visibleEpoch = 0 /\ loop = "returned"
      /\ src = [p \in Pages |-> 0] /\ seen = src /\ read = src /\ site = src
      /\ phase = "off"
  BY DEF DevInit
<1>2. /\ toRebuild \in BOOLEAN /\ notified \in BOOLEAN /\ shutdown \in BOOLEAN
      /\ events \in BOOLEAN /\ loop \in LoopStates /\ server \in {"up", "down"}
      /\ stage \in [Pages -> Stages] /\ file \in [Pages -> FileStates]
  BY DEF DevInit, LoopStates, Stages, FileStates
<1>3. /\ pc \in [Browsers -> TabStates] /\ page \in [Browsers -> Pages]
      /\ bare \in [Browsers -> BOOLEAN] /\ epoch = [b \in Browsers |-> 0]
      /\ version \in [Browsers -> Nat] /\ whole \in [Browsers -> BOOLEAN]
  BY DEF DevInit, InitTabs, TabStates
<1>4. TypeOK
  BY <1>1, <1>2, <1>3 DEF TypeOK
<1>5. EpochOrder /\ TabEpochs
  BY <1>1, <1>3 DEF EpochOrder, TabEpochs
<1> QED
  BY <1>1, <1>4, <1>5, InitLife DEF RestartInv, EpochsInv, SiteInv, TrustInv

\* The server's own steps, in any process.
LEMMA ServerSteps ==
  ASSUME EpochsInv, [Next]_vars
  PROVE  /\ EpochsInv'
         /\ SiteProgress => SiteProgress'
         /\ SiteProgress /\ TrustedPageIsCurrent => TrustedPageIsCurrent'
<1>1. TypeOK' /\ EpochOrder'
  BY TypeStep, EpochStep DEF EpochsInv
<1>2. TabEpochs'
  BY <1>1, TabEpochStep DEF EpochsInv
<1> QED
  BY <1>1, <1>2, SiteStep, TrustedStep DEF EpochsInv

\* The steps of the initial build and of the removal of the directory.
LEMMA FileSteps ==
  ASSUME EpochsInv,
         Launch \/ (\E p \in Pages : InitialRead(p)) \/ InitialWrite \/ RemoveSiteDir
  PROVE  EpochsInv'
<1>1. UNCHANGED <<epochVars, condVars, loopVars, srcVars, tabVars>>
  BY DEF Launch, InitialRead, InitialWrite, RemoveSiteDir
<1>2. /\ stage' \in [Pages -> Stages] /\ read' \in [Pages -> Nat]
      /\ site' \in [Pages -> Nat] /\ file' \in [Pages -> FileStates]
  BY DEF EpochsInv, TypeOK, Launch, InitialRead, InitialWrite, RemoveSiteDir, Stages, FileStates
<1> QED
  BY <1>1, <1>2
  DEF EpochsInv, TypeOK, EpochOrder, TabEpochs, epochVars, condVars, loopVars, srcVars, tabVars

\* The fields of a new server: its epoch is one that no tab has.
LEMMA ConstructEpochs ==
  ASSUME EpochsInv, LifeInv, Construct
  PROVE  /\ EpochsInv' /\ TrustedPageIsCurrent' /\ Built'
         /\ (\A p \in Pages : file[p] = "whole") => SiteProgress'
<1>1. /\ clock' = clock + 1 /\ wantedEpoch' = clock' /\ visibleEpoch' = clock'
      /\ toRebuild' \in BOOLEAN /\ events' \in BOOLEAN /\ notified' \in BOOLEAN
      /\ shutdown' \in BOOLEAN
      /\ UNCHANGED <<loopVars, src, seen, siteVars, tabVars>>
  BY DEF Construct
<1>2. TypeOK'
  BY <1>1 DEF EpochsInv, TypeOK, loopVars, siteVars, tabVars
<1>3. loop \in LoopOver /\ loop' = loop /\ clock \in Nat
  BY <1>1 DEF LifeInv, Construct, loopVars, EpochsInv, TypeOK
<1>4. EpochOrder'
  BY <1>1, <1>3 DEF EpochOrder, LoopOver
<1>5. ASSUME NEW b \in Browsers
      PROVE  epoch'[b] <= visibleEpoch' /\ epoch'[b] # wantedEpoch'
  <2>1. epoch[b] \in Nat /\ epoch[b] <= clock /\ epoch' = epoch
    BY <1>1 DEF EpochsInv, TypeOK, EpochOrder, TabEpochs, tabVars
  <2> QED
    BY <1>1, <1>3, <2>1
<1>6. (\A p \in Pages : file[p] = "whole") => SiteProgress'
  BY <1>1, <1>3 DEF SiteProgress, LoopOver, siteVars
<1> QED
  BY <1>1, <1>2, <1>4, <1>5, <1>6 DEF EpochsInv, TabEpochs, TrustedPageIsCurrent, Built

\* Nobody but the builder writes, and it does not when its loop is over.
LEMMA OverWritesNothing ==
  ASSUME Step \/ Exit, loop \in LoopOver
  PROVE  file' = file
BY SiteFrame DEF Next, LoopOver, Clean, ReadSource, OpenOutput, WriteOutput

LEMMA NextRestart == RestartInv /\ [DevNext]_devVars => RestartInv'
<1> SUFFICES ASSUME RestartInv, [DevNext]_devVars
             PROVE  EpochsInv' /\ SiteInv' /\ TrustInv'
  BY NextLife DEF RestartInv
<1> USE DEF SiteInv, TrustInv
<1>1. LifeInv /\ EpochsInv /\ SiteInv /\ TrustInv
  BY DEF RestartInv
<1>2. CASE UNCHANGED devVars
  <2>1. UNCHANGED vars /\ UNCHANGED phase
    BY <1>2 DEF devVars, lifeVars
  <2>2. file' = file /\ Built' = Built
    BY <2>1 DEF vars, serverVars, siteVars, epochVars, Built
  <2> QED
    BY <1>1, <2>1, <2>2, ServerSteps
<1>3. CASE Launch \/ (\E p \in Pages : InitialRead(p)) \/ RemoveSiteDir
  <2>1. phase' \notin {"built", "bound", "serve"}
    BY <1>3 DEF Launch, InitialRead, RemoveSiteDir, lifeVars
  <2> QED
    BY <1>1, <1>3, <2>1, FileSteps
<1>4. CASE InitialWrite
  <2>1. phase' = "built" /\ \A p \in Pages : file'[p] = "whole"
    BY <1>4 DEF InitialWrite
  <2> QED
    BY <1>1, <1>4, <2>1, FileSteps
<1>5. CASE Construct
  <2>1. phase = "built" /\ phase' = "bound"
    BY <1>5 DEF Construct
  <2> QED
    BY <1>1, <1>5, <2>1, ConstructEpochs
<1>6. CASE Serve
  <2>1. /\ phase = "bound" /\ phase' = "serve" /\ loop' = "wait" /\ server' = "up" /\ seen' = src
        /\ loop \in LoopOver
        /\ UNCHANGED <<epochVars, condVars, src, events, siteVars, tabVars>>
    BY <1>1, <1>6 DEF Serve, LifeInv
  <2>2. TypeOK'
    BY <1>1, <2>1 DEF EpochsInv, TypeOK, LoopStates, epochVars, condVars, siteVars, tabVars
  <2>3. EpochOrder' /\ TabEpochs' /\ SiteProgress' /\ TrustedPageIsCurrent'
    BY <1>1, <2>1
    DEF EpochsInv, EpochOrder, TabEpochs, SiteProgress, TrustedPageIsCurrent, Built,
        epochVars, siteVars, tabVars
  <2> QED
    BY <2>1, <2>2, <2>3 DEF EpochsInv
<1>7. CASE Startup \/ StartupRaises \/ BodyRaises \/ LeaveServe \/ ShutdownEvent
  <2>1. UNCHANGED vars /\ phase' \notin {"built", "bound", "serve"}
    BY <1>7 DEF Startup, StartupRaises, BodyRaises, LeaveServe, ShutdownEvent
  <2> QED
    BY <1>1, <2>1, ServerSteps
<1>8. CASE ProcessExit
  <2>1. phase' = "off" /\ (Exit \/ UNCHANGED vars)
    BY <1>8 DEF ProcessExit
  <2> QED
    BY <1>1, <2>1, ServerSteps DEF Next
<1>9. CASE Step /\ UNCHANGED lifeVars
  <2>1. phase' = phase
    BY <1>9 DEF lifeVars
  <2>2. phase = "built" => file' = file
    BY <1>1, <1>9, OverWritesNothing DEF LifeInv
  <2>3. phase = "bound" => Built' = Built
    BY <1>1, <1>9, OverStays DEF LifeInv, Built
  <2> QED
    BY <1>1, <1>9, <2>1, <2>2, <2>3, ServerSteps DEF Next
<1> QED
  BY <1>2, <1>3, <1>4, <1>5, <1>6, <1>7, <1>8, <1>9 DEF DevNext, Proceed

(* However often the server is started while tabs stay open: a page that   *)
(* carries the epoch of the build last started by the server that now      *)
(* answers is complete and current, and so never one of an earlier         *)
(* process.                                                                *)
THEOREM TrustedInAnyProcess == DevSpec => []TrustedAcrossRestarts
<1>1. RestartInv => TrustedAcrossRestarts
  BY DEF RestartInv, TrustInv, TrustedAcrossRestarts
<1> QED
  BY <1>1, InitRestart, NextRestart, PTL DEF DevSpec
=============================================================================
