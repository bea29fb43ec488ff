----------------------------- MODULE LiveReload -----------------------------
(***************************************************************************)
(* The live reload server of `mkdocs serve` (livereload/__init__.py): the  *)
(* build loop of the main thread, the file observer's threads, one handler *)
(* thread per request and the script in every served page, together with   *)
(* the user who edits sources and opens tabs.                              *)
(*                                                                         *)
(* The site is rebuilt in place.  What keeps a browser from being left on  *)
(* a half built or outdated page is a pair of epochs: _wanted_epoch is     *)
(* raised when a build starts and _visible_epoch follows it when the build *)
(* is published.  A page carries the epoch it was served under and polls   *)
(* for a higher one.                                                       *)
(*                                                                         *)
(* The module starts where serve() does: initial build done, observer on.  *)
(* DevServer puts the life of the process around it.                       *)
(***************************************************************************)
EXTENDS Integers, FiniteSets

CONSTANTS Pages,      \* documents: one source file and one .html each
          Browsers,   \* tabs
          MaxEdits    \* bound: how often each source may be edited

ASSUME MaxEditsAssumption == MaxEdits \in Nat

VARIABLES
  clock,         \* time.monotonic(), in units of the debounce delay
  wantedEpoch,   \* _wanted_epoch: the version that started building
  visibleEpoch,  \* _visible_epoch: the latest fully built version
  toRebuild,     \* _to_rebuild is not empty
  notified,      \* _rebuild_cond was notified while the loop debounces
  shutdown,      \* _shutdown
  loop,          \* where the build loop is
  server,        \* "up", "closed" when the accept loop is over, "down" after exit
  src,           \* version of each source file on disk
  seen,          \* version in the polling observer's last snapshot
  events,        \* a file event is queued between observer and callback
  stage,         \* how far the running build is with each page
  read,          \* version of each source the running build has read
  site,          \* version of each output file on disk
  file,          \* state of each output file on disk
  pc,            \* what each tab, or the thread serving it, is doing
  page,          \* the document a tab asks for
  bare,          \* TRUE: it asks for the directory URL without its slash
  epoch,         \* the epoch its page carries (or will carry)
  version,       \* the version of the document it shows
  whole          \* TRUE: it shows all of the document

epochVars == <<clock, wantedEpoch, visibleEpoch>>
condVars  == <<toRebuild, notified, shutdown>>
loopVars  == <<loop, server>>
srcVars   == <<src, seen, events>>
siteVars  == <<stage, read, site, file>>
tabVars   == <<pc, page, bare, epoch, version, whole>>
serverVars == <<epochVars, condVars, loopVars, srcVars, siteVars>>
vars == <<serverVars, tabVars>>

(* "wait" and "debounce" hold the two waits of _build_loop; "clean" and    *)
(* "build" are inside func(); "publish" is about to take _epoch_cond.      *)
LoopStates == {"wait", "debounce", "clean", "build", "publish",
               "returned", "raised"}
Stages     == {"todo", "read", "torn", "done"}
FileStates == {"whole", "torn", "missing"}

(* A tab: "fetch" and "fetchWait" are a handler thread at wait_for (awake  *)
(* or asleep), "open" the thread past it, "poll" and "pollWait" the same   *)
(* for a poll.  "shown" is a page whose script is about to poll, "retry"   *)
(* one that waits for its 3 s timer, "dead" an error page: no script.      *)
TabStates == {"closed", "fetch", "fetchWait", "open", "shown", "poll",
              "pollWait", "retry", "dead"}

\* The tabs whose page runs the live reload script.
Scripted == {"shown", "poll", "pollWait", "retry"}

TypeOK ==
  /\ clock \in Nat /\ wantedEpoch \in Nat /\ visibleEpoch \in Nat
  /\ toRebuild \in BOOLEAN /\ notified \in BOOLEAN /\ shutdown \in BOOLEAN
  /\ loop \in LoopStates /\ server \in {"up", "closed", "down"}
  /\ src \in [Pages -> Nat] /\ seen \in [Pages -> Nat] /\ events \in BOOLEAN
  /\ stage \in [Pages -> Stages] /\ read \in [Pages -> Nat]
  /\ site \in [Pages -> Nat] /\ file \in [Pages -> FileStates]
  /\ pc \in [Browsers -> TabStates] /\ page \in [Browsers -> Pages]
  /\ bare \in [Browsers -> BOOLEAN] /\ epoch \in [Browsers -> Nat]
  /\ version \in [Browsers -> Nat] /\ whole \in [Browsers -> BOOLEAN]

InitTabs ==
  /\ pc = [b \in Browsers |-> "closed"]
  /\ page \in [Browsers -> Pages]
  /\ bare = [b \in Browsers |-> FALSE]
  /\ epoch = [b \in Browsers |-> 0]
  /\ version = [b \in Browsers |-> 0]
  /\ whole = [b \in Browsers |-> FALSE]

InitServer ==
  /\ clock = 0 /\ wantedEpoch = clock /\ visibleEpoch = wantedEpoch
  /\ toRebuild = FALSE /\ notified = FALSE /\ shutdown = FALSE
  /\ loop = "wait" /\ server = "up"
  /\ src = [p \in Pages |-> 0] /\ seen = src /\ events = FALSE
  /\ stage = [p \in Pages |-> "done"] /\ read = src
  /\ site = read /\ file = [p \in Pages |-> "whole"]

Init == InitServer /\ InitTabs

-----------------------------------------------------------------------------
\* The interpreter runs, and with it the threads that it has.
Alive == server # "down"

(* The user edits a source.  Saving is one step.                           *)
Edit(p) ==
  /\ src[p] < MaxEdits
  /\ src' = [src EXCEPT ![p] = @ + 1]
  /\ UNCHANGED <<epochVars, condVars, loopVars, seen, events, siteVars, tabVars>>

(* watchdog's PollingObserver compares a new snapshot with its last one    *)
(* and queues an event for what differs.  Edits between two snapshots      *)
(* give one event.                                                         *)
Notice(p) ==
  /\ server = "up" /\ ~shutdown
  /\ seen[p] # src[p]
  /\ seen' = [seen EXCEPT ![p] = src[p]]
  /\ events' = TRUE
  /\ UNCHANGED <<epochVars, condVars, loopVars, src, siteVars, tabVars>>

(* callback(): record the builder as wanted and notify the build loop.     *)
Callback ==
  /\ Alive
  /\ events
  /\ events' = FALSE
  /\ toRebuild' = TRUE
  /\ notified' = (loop = "debounce")
  /\ UNCHANGED <<epochVars, shutdown, loopVars, src, seen, siteVars, tabVars>>

-----------------------------------------------------------------------------
(* _build_loop, on the main thread.                                        *)

\* Faulty variant: the wait ends for changes only.
WakeForChanges ==
  /\ loop = "wait" /\ toRebuild
  /\ loop' = IF shutdown THEN "returned" ELSE "debounce"
  /\ notified' = FALSE
  /\ UNCHANGED <<epochVars, toRebuild, shutdown, server, srcVars, siteVars, tabVars>>

\* wait_for(_to_rebuild or _shutdown): it looks again every shutdown_delay.
Wake ==
  /\ loop = "wait"
  /\ toRebuild \/ shutdown
  /\ loop' = IF shutdown THEN "returned" ELSE "debounce"
  /\ notified' = FALSE
  /\ UNCHANGED <<epochVars, toRebuild, shutdown, server, srcVars, siteVars, tabVars>>

\* wait(timeout=build_delay) returned True: wait once more.
DebounceAgain ==
  /\ loop = "debounce"
  /\ notified
  /\ notified' = FALSE
  /\ UNCHANGED <<epochVars, toRebuild, shutdown, loopVars, srcVars, siteVars, tabVars>>

\* Faulty variant: build_delay is 0, and a build may start in the
\* millisecond of the one before.
NoDelay == 0

\* The least time wait(timeout=build_delay) takes when it returns False.
DebounceTime == 1

\* Faulty variant: the wanted epoch is left as it was.
StartBuildQuietly ==
  /\ loop = "debounce"
  /\ ~notified
  /\ clock' = clock + DebounceTime
  /\ toRebuild' = FALSE
  /\ loop' = "clean"
  /\ UNCHANGED <<wantedEpoch, visibleEpoch, notified, shutdown, server, srcVars, siteVars, tabVars>>

\* wait(timeout=build_delay) returned False, with the lock still held:
\* start a build, unaware of _shutdown.
StartBuild ==
  /\ loop = "debounce"
  /\ ~notified
  /\ clock' = clock + DebounceTime
  /\ wantedEpoch' = clock'
  /\ toRebuild' = FALSE
  /\ loop' = "clean"
  /\ UNCHANGED <<visibleEpoch, notified, shutdown, server, srcVars, siteVars, tabVars>>

\* build() empties the site directory before it looks for files.
Clean ==
  /\ loop = "clean"
  /\ loop' = "build"
  /\ file' = [p \in Pages |-> "missing"]
  /\ stage' = [p \in Pages |-> "todo"]
  /\ UNCHANGED <<epochVars, condVars, server, srcVars, read, site, tabVars>>

\* All pages are read before the first is written.
ReadSource(p) ==
  /\ loop = "build" /\ stage[p] = "todo"
  /\ stage' = [stage EXCEPT ![p] = "read"]
  /\ read' = [read EXCEPT ![p] = src[p]]
  /\ UNCHANGED <<epochVars, condVars, loopVars, srcVars, site, file, tabVars>>

AllRead == \A p \in Pages : stage[p] # "todo"

\* write_file: open(..., 'wb') leaves an empty file, write fills it.
OpenOutput(p) ==
  /\ loop = "build" /\ AllRead /\ stage[p] = "read"
  /\ stage' = [stage EXCEPT ![p] = "torn"]
  /\ file' = [file EXCEPT ![p] = "torn"]
  /\ UNCHANGED <<epochVars, condVars, loopVars, srcVars, read, site, tabVars>>

WriteOutput(p) ==
  /\ loop = "build" /\ stage[p] = "torn"
  /\ stage' = [stage EXCEPT ![p] = "done"]
  /\ file' = [file EXCEPT ![p] = "whole"]
  /\ site' = [site EXCEPT ![p] = read[p]]
  /\ UNCHANGED <<epochVars, condVars, loopVars, srcVars, read, tabVars>>

FinishBuild ==
  /\ loop = "build"
  /\ \A p \in Pages : stage[p] = "done"
  /\ loop' = "publish"
  /\ UNCHANGED <<epochVars, condVars, server, srcVars, siteVars, tabVars>>

\* notify_all on _epoch_cond: every sleeping handler looks again.
Awake(state) == CASE state = "fetchWait" -> "fetch"
                  [] state = "pollWait"  -> "poll"
                  [] OTHER -> state

\* Faulty variants: nobody is notified, or only the polls.
NotifyNobody == UNCHANGED pc
NotifyPolls == pc' = [b \in Browsers |-> IF pc[b] = "pollWait" THEN "poll" ELSE pc[b]]

NotifyEpoch == pc' = [b \in Browsers |-> Awake(pc[b])]

\* Faulty variant: _to_rebuild is cleared when the build is done.
PublishAndClear ==
  /\ loop = "publish"
  /\ visibleEpoch' = wantedEpoch
  /\ NotifyEpoch
  /\ toRebuild' = FALSE
  /\ loop' = "wait"
  /\ UNCHANGED <<clock, wantedEpoch, notified, shutdown, server, srcVars, siteVars,
                 page, bare, epoch, version, whole>>

Publish ==
  /\ loop = "publish"
  /\ visibleEpoch' = wantedEpoch
  /\ NotifyEpoch
  /\ loop' = "wait"
  /\ UNCHANGED <<clock, wantedEpoch, condVars, server, srcVars, siteVars,
                 page, bare, epoch, version, whole>>

\* The builder raises, or a KeyboardInterrupt hits the main thread.
LoopRaises ==
  /\ loop \notin {"returned", "raised"}
  /\ loop' = "raised"
  /\ UNCHANGED <<epochVars, condVars, server, srcVars, siteVars, tabVars>>

\* shutdown(), from any thread: the observer ends with it, the loop and the
\* accept loop when they look.
Shutdown ==
  /\ server = "up" /\ ~shutdown
  /\ shutdown' = TRUE
  /\ notified' = (loop = "debounce")
  /\ UNCHANGED <<epochVars, toRebuild, loopVars, srcVars, siteVars, tabVars>>

\* super().shutdown(), which shutdown() waits for: serve_forever ends.  Until
\* then requests are accepted as before.
StopAccepting ==
  /\ server = "up" /\ shutdown
  /\ server' = "closed"
  /\ UNCHANGED <<epochVars, condVars, loop, srcVars, siteVars, tabVars>>

\* serve() is left only through shutdown(); the handlers are daemon threads
\* and die with the interpreter, their tabs see the connection reset.
Dropped(state) == CASE state \in {"fetch", "fetchWait", "open"} -> "dead"
                    [] state \in {"poll", "pollWait"} -> "retry"
                    [] OTHER -> state

Exit ==
  /\ server = "closed"
  /\ loop \in {"returned", "raised"}
  /\ server' = "down"
  /\ pc' = [b \in Browsers |-> Dropped(pc[b])]
  /\ UNCHANGED <<epochVars, condVars, loop, srcVars, siteVars,
                 page, bare, epoch, version, whole>>

-----------------------------------------------------------------------------
(* Tabs and the handler threads that serve them.                           *)

Accepting == server = "up"

Goto(b, state) == pc' = [pc EXCEPT ![b] = state]

\* The tab no longer shows a document.
Blank(b) ==
  /\ epoch' = [epoch EXCEPT ![b] = 0]
  /\ version' = [version EXCEPT ![b] = 0]
  /\ whole' = [whole EXCEPT ![b] = FALSE]

\* The user opens a document, by either form of its URL.
Visit(b, p, noSlash) ==
  /\ pc[b] \in {"closed", "dead"} \cup Scripted
  /\ Accepting
  /\ Goto(b, "fetch")
  /\ page' = [page EXCEPT ![b] = p]
  /\ bare' = [bare EXCEPT ![b] = noSlash]
  /\ Blank(b)
  /\ UNCHANGED serverVars

\* location.reload(): the same address, after redirects.
Reload(b) ==
  /\ Goto(b, IF Accepting THEN "fetch" ELSE "dead")
  /\ Blank(b)
  /\ UNCHANGED <<serverVars, page, bare>>

Built == visibleEpoch = wantedEpoch

\* wait_for(visible == wanted) finds a build in progress.
FetchSleep(b) ==
  /\ pc[b] = "fetch" /\ Alive
  /\ ~Built
  /\ Goto(b, "fetchWait")
  /\ UNCHANGED <<serverVars, page, bare, epoch, version, whole>>

\* Faulty variant: no wait, and the epoch that is being built.
FetchWanted(b) ==
  /\ pc[b] = "fetch" /\ Alive
  /\ Goto(b, "open")
  /\ epoch' = [epoch EXCEPT ![b] = wantedEpoch]
  /\ UNCHANGED <<serverVars, page, bare, version, whole>>

\* It finds none; the thread notes the epoch and lets the lock go.
FetchEpoch(b) ==
  /\ pc[b] = "fetch" /\ Alive
  /\ Built
  /\ Goto(b, "open")
  /\ epoch' = [epoch EXCEPT ![b] = visibleEpoch]
  /\ UNCHANGED <<serverVars, page, bare, version, whole>>

\* open() finds the file: the page is sent with the script and the epoch.
ServeFile(b) ==
  /\ pc[b] = "open" /\ Alive
  /\ ~bare[b] /\ file[page[b]] # "missing"
  /\ Goto(b, "shown")
  /\ version' = [version EXCEPT ![b] = IF file[page[b]] = "whole"
                                       THEN site[page[b]] ELSE 0]
  /\ whole' = [whole EXCEPT ![b] = file[page[b]] = "whole"]
  /\ UNCHANGED <<serverVars, page, bare, epoch>>

\* open() fails on a directory that has an index.html: 302, and again.
Redirect(b) ==
  /\ pc[b] = "open" /\ Alive
  /\ bare[b] /\ file[page[b]] # "missing"
  /\ bare' = [bare EXCEPT ![b] = FALSE]
  /\ Goto(b, IF Accepting THEN "fetch" ELSE "dead")
  /\ Blank(b)
  /\ UNCHANGED <<serverVars, page>>

\* open() fails and there is no index.html: an error page without script.
NotFound(b) ==
  /\ pc[b] = "open" /\ Alive
  /\ file[page[b]] = "missing"
  /\ Goto(b, "dead")
  /\ Blank(b)
  /\ UNCHANGED <<serverVars, page, bare>>

\* The script sends a poll; if nobody accepts it, it will try again.
SendPoll(b) ==
  /\ pc[b] = "shown"
  /\ Goto(b, IF Accepting THEN "poll" ELSE "retry")
  /\ UNCHANGED <<serverVars, page, bare, epoch, version, whole>>

RetryTimer(b) ==
  /\ pc[b] = "retry"
  /\ Goto(b, "shown")
  /\ UNCHANGED <<serverVars, page, bare, epoch, version, whole>>

\* Faulty variant: off by one.
MuchNewer(b) == visibleEpoch > epoch[b] + 1

Newer(b) == visibleEpoch > epoch[b]

\* The poll is answered with a newer epoch: onloadend reloads the page.
PollNewer(b) ==
  /\ pc[b] = "poll" /\ Alive
  /\ Newer(b)
  /\ Reload(b)

PollSleep(b) ==
  /\ pc[b] = "poll" /\ Alive
  /\ ~Newer(b)
  /\ Goto(b, "pollWait")
  /\ UNCHANGED <<serverVars, page, bare, epoch, version, whole>>

\* poll_response_timeout is over: the answer holds no newer epoch, and
\* onloadend polls again.
PollTimeout(b) ==
  /\ pc[b] = "pollWait" /\ Alive
  /\ Goto(b, "shown")
  /\ UNCHANGED <<serverVars, page, bare, epoch, version, whole>>

-----------------------------------------------------------------------------
Observer == (\E p \in Pages : Notice(p)) \/ Callback

BuildLoop ==
  \/ Wake \/ DebounceAgain \/ StartBuild \/ Clean
  \/ \E p \in Pages : ReadSource(p) \/ OpenOutput(p) \/ WriteOutput(p)
  \/ FinishBuild \/ Publish

Handler(b) == FetchSleep(b) \/ FetchEpoch(b) \/ ServeFile(b) \/ Redirect(b)
              \/ NotFound(b) \/ PollNewer(b) \/ PollSleep(b) \/ PollTimeout(b)

Script(b) == SendPoll(b) \/ RetryTimer(b)

\* Every step but the last one of the interpreter.
Step ==
  \/ \E p \in Pages : Edit(p)
  \/ Observer
  \/ BuildLoop
  \/ LoopRaises \/ Shutdown \/ StopAccepting
  \/ \E b \in Browsers :
       \/ \E p \in Pages, noSlash \in BOOLEAN : Visit(b, p, noSlash)
       \/ Handler(b)
       \/ Script(b)

Next == Step \/ Exit

Spec == Init /\ [][Next]_vars

(* Threads that can run do run, timers fire.  Nothing is assumed of the    *)
(* user, of exceptions or of who calls shutdown().                         *)
Fairness ==
  /\ \A p \in Pages : WF_vars(Notice(p))
  /\ WF_vars(Callback)
  /\ WF_vars(BuildLoop)
  /\ WF_vars(StopAccepting) /\ WF_vars(Exit)
  /\ WF_vars(loop = "raised" /\ Shutdown)
  /\ \A b \in Browsers : WF_vars(Handler(b)) /\ WF_vars(Script(b))

FairSpec == Spec /\ Fairness

-----------------------------------------------------------------------------
(* The two epochs tell whether a build is under way, to the handlers that  *)
(* must wait for it: they are equal while the loop waits and differ from   *)
(* before the site is emptied until all of it is written, also if two      *)
(* builds follow each other at once.  And no tab has an epoch that is yet  *)
(* to be published, with which it would sleep through that publication.    *)
EpochsTellBuilds ==
  /\ loop \in {"wait", "debounce", "returned"} => visibleEpoch = wantedEpoch
  /\ loop \in {"clean", "build", "publish"} => visibleEpoch < wantedEpoch
  /\ \A b \in Browsers : epoch[b] <= visibleEpoch

(* A page that carries the epoch of the build last started is complete and *)
(* is the document as it is on disk: no page that is torn or out of date   *)
(* carries an epoch that would keep it from being reloaded (the lock       *)
(* around _visible_epoch is released before the file is opened).           *)
TrustedPageIsCurrent ==
  \A b \in Browsers :
    pc[b] \in Scripted /\ epoch[b] = wantedEpoch =>
      whole[b] /\ version[b] = site[page[b]] /\ file[page[b]] = "whole"

(* No handler sleeps on a condition that already holds: publishing a build *)
(* never leaves a poll or a page request behind.                           *)
NoLostWakeup ==
  \A b \in Browsers :
    /\ pc[b] = "pollWait" => ~Newer(b)
    /\ pc[b] = "fetchWait" => ~Built

(* What the latest build has, or will have, of a page.                     *)
Covered(p) == IF loop = "clean" \/ (loop = "build" /\ stage[p] = "todo")
              THEN src[p]
              ELSE IF loop = "build" THEN read[p] ELSE site[p]

(* An edit the observer has noticed is in the site, or in the build that   *)
(* is running, or will cause another build: clearing _to_rebuild when a    *)
(* build starts loses nothing.                                             *)
NoLostEdit ==
  \A p \in Pages :
    \/ seen[p] <= Covered(p)
    \/ events \/ toRebuild
    \/ loop = "raised"

(* Every build is published under an epoch higher than the one before, so  *)
(* that each page served before it reloads: two builds never share a       *)
(* millisecond timestamp.                                                  *)
PublishRaisesEpoch ==
  [][loop = "publish" /\ loop' = "wait" => visibleEpoch' > visibleEpoch]_vars

(* What the tabs have of the site: the pages with the epoch of the last    *)
(* build are up to date, the others have to reload.                        *)
Torn == -1
UpToDate(b) == pc[b] \in Scripted /\ epoch[b] = wantedEpoch
Shown(b) == <<page[b], IF whole[b] THEN version[b] ELSE Torn>>

Current  == [b \in Browsers |-> IF UpToDate(b) THEN {Shown(b)} ELSE {}]
Outdated == {b \in Browsers : pc[b] \in Scripted /\ epoch[b] # wantedEpoch}
Edition  == [p \in Pages |-> IF Built THEN site[p] ELSE 0]

Abstract == INSTANCE AtomicSite
  WITH settled <- Built, edition <- Edition, current <- Current, outdated <- Outdated

(* To a tab that goes by its epoch the site is replaced as a whole: once a *)
(* build has started, in place, no tab is up to date, and when it is over  *)
(* a tab that is shows the page as it was built.                           *)
PublishesAtomically == Abstract!Spec

(* Once the user stops editing, the site comes to hold every edit, and     *)
(* every tab that runs the script to show its document as edited, by       *)
(* polling alone, unless the server ends.                                  *)
TabsConverge ==
  \/ <>(server = "down")
  \/ <>[](/\ \A p \in Pages : site[p] = src[p] /\ file[p] = "whole"
          /\ \A b \in Browsers :
               pc[b] \in Scripted => whole[b] /\ version[b] = src[page[b]])

(* A page request waits for a build, but never for ever: not if the build  *)
(* raises, nor if the server is shut down meanwhile.                       *)
RequestsEnd ==
  \A b \in Browsers :
    pc[b] \in {"fetch", "fetchWait"} ~> pc[b] \notin {"fetch", "fetchWait"}

(* shutdown() ends the server, whatever the loop is doing.                *)
ShutdownEnds == shutdown ~> server = "down"

(* livereload/__init__.py:263, "so we're not serving a half-built site".   *)
HalfBuiltNeverServed ==
  \A b \in Browsers : pc[b] \in Scripted => whole[b]
=============================================================================
