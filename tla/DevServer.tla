----------------------------- MODULE DevServer ------------------------------
(***************************************************************************)
(* `mkdocs serve` from its start to its exit (commands/serve.py), around   *)
(* the live reload server, and again: the user may end it and start it     *)
(* anew while tabs of the earlier process stay open and keep polling.      *)
(***************************************************************************)
EXTENDS LiveReload

CONSTANT MaxRuns     \* bound: how often mkdocs is started

ASSUME MaxRunsAssumption == MaxRuns \in Nat

VARIABLES
  phase,    \* where serve() is; "off" between two processes
  runs,     \* how often it was started
  siteDir,  \* the temporary directory of this process exists
  plugins   \* the last one-time event the first configuration's plugins had

lifeVars == <<phase, runs, siteDir, plugins>>
devVars  == <<vars, lifeVars>>

(* The phases are "off" and "exit" without a process; "init", before the   *)
(* try; "build" and "built": initial build, reading and done; "bound": the *)
(* socket listens, nothing is watched yet; "serve"; "finally" and "rmtree" *)
(* are the two statements of the outer finally.                            *)

DevInit ==
  /\ clock = 0 /\ wantedEpoch = 0 /\ visibleEpoch = 0
  /\ toRebuild = FALSE /\ notified = FALSE /\ shutdown = TRUE
  /\ loop = "returned" /\ server = "down"
  /\ src = [p \in Pages |-> 0] /\ seen = src /\ events = FALSE
  /\ stage = [p \in Pages |-> "todo"] /\ read = src
  /\ site = src /\ file = [p \in Pages |-> "missing"]
  /\ InitTabs
  /\ phase = "off" /\ runs = 0 /\ siteDir = FALSE /\ plugins = "none"

-----------------------------------------------------------------------------
\* A new process and its own temporary directory.
Launch ==
  /\ phase = "off" /\ runs < MaxRuns
  /\ phase' = "init"
  /\ runs' = runs + 1
  /\ siteDir' = TRUE
  /\ plugins' = "none"
  /\ file' = [p \in Pages |-> "missing"]
  /\ stage' = [p \in Pages |-> "todo"]
  /\ UNCHANGED <<epochVars, condVars, loopVars, srcVars, read, site, tabVars>>

\* get_config() and the startup event, both before the try.
Startup ==
  /\ phase = "init"
  /\ phase' = "build"
  /\ plugins' = "startup"
  /\ UNCHANGED <<vars, runs, siteDir>>

\* Either raises: neither finally clause sees it, the directory stays.
StartupRaises ==
  /\ phase = "init"
  /\ phase' = "off"
  /\ plugins' \in {"none", "startup"}
  /\ UNCHANGED <<vars, runs, siteDir>>

\* The initial build reads the sources ...
InitialRead(p) ==
  /\ phase = "build" /\ stage[p] # "read"
  /\ stage' = [stage EXCEPT ![p] = "read"]
  /\ read' = [read EXCEPT ![p] = src[p]]
  /\ UNCHANGED <<epochVars, condVars, loopVars, srcVars, site, file, tabVars, lifeVars>>

\* ... and writes the site, which nobody can look at yet.
InitialWrite ==
  /\ phase = "build" /\ \A p \in Pages : stage[p] = "read"
  /\ phase' = "built"
  /\ stage' = [p \in Pages |-> "done"]
  /\ site' = read
  /\ file' = [p \in Pages |-> "whole"]
  /\ UNCHANGED <<epochVars, condVars, loopVars, srcVars, read, tabVars, runs, siteDir, plugins>>

\* Faulty variant: timestamps count from the start of the process.
ConstructAtZero ==
  /\ phase = "built"
  /\ phase' = "bound"
  /\ clock' = 0
  /\ wantedEpoch' = clock' /\ visibleEpoch' = wantedEpoch'
  /\ toRebuild' = FALSE /\ events' = FALSE /\ notified' = FALSE
  /\ shutdown' = FALSE
  /\ UNCHANGED <<loopVars, src, seen, siteVars, tabVars, runs, siteDir, plugins>>

\* LiveReloadServer(): all its fields are new.  The monotonic clock is the
\* machine's and has gone on since any earlier server's epochs.
Construct ==
  /\ phase = "built"
  /\ phase' = "bound"
  /\ clock' = clock + 1
  /\ wantedEpoch' = clock' /\ visibleEpoch' = wantedEpoch'
  /\ toRebuild' = FALSE /\ events' = FALSE /\ notified' = FALSE
  /\ shutdown' = FALSE
  /\ UNCHANGED <<loopVars, src, seen, siteVars, tabVars, runs, siteDir, plugins>>

\* server.serve(): the observer takes its first snapshot only now.
Serve ==
  /\ phase = "bound"
  /\ phase' = "serve"
  /\ seen' = src
  /\ server' = "up"
  /\ loop' = "wait"
  /\ UNCHANGED <<epochVars, condVars, src, events, siteVars, tabVars, runs, siteDir, plugins>>

\* The build, the socket, a serve event or a watch raises; the server that
\* "bound" may have is not shut down by anyone, but it never ran.
BodyRaises ==
  /\ phase \in {"build", "built", "bound"}
  /\ phase' = "finally"
  /\ UNCHANGED <<vars, runs, siteDir, plugins>>

\* Faulty variant: the loop is not waited for.
LeaveServeEarly ==
  /\ phase = "serve" /\ shutdown
  /\ phase' = "finally"
  /\ UNCHANGED <<vars, runs, siteDir, plugins>>

\* The build loop is over and server.shutdown() has returned.
LeaveServe ==
  /\ phase = "serve"
  /\ loop \in {"returned", "raised"} /\ server = "closed"
  /\ phase' = "finally"
  /\ UNCHANGED <<vars, runs, siteDir, plugins>>

\* The shutdown event; if a plugin raises, rmtree is not reached.
ShutdownEvent ==
  /\ phase = "finally"
  /\ plugins' = "shutdown"
  /\ phase' \in {"rmtree", "exit"}
  /\ UNCHANGED <<vars, runs, siteDir>>

\* Handler threads are still alive and find their files gone.
RemoveSiteDir ==
  /\ phase = "rmtree"
  /\ phase' = "exit"
  /\ siteDir' = FALSE
  /\ file' = [p \in Pages |-> "missing"]
  /\ UNCHANGED <<epochVars, condVars, loopVars, srcVars, stage, read, site, tabVars, runs, plugins>>

ProcessExit ==
  /\ phase = "exit"
  /\ phase' = "off"
  /\ IF Alive THEN Exit ELSE UNCHANGED vars
  /\ UNCHANGED <<runs, siteDir, plugins>>

Proceed ==
  \/ Startup
  \/ \E p \in Pages : InitialRead(p)
  \/ InitialWrite \/ Construct \/ Serve
  \/ LeaveServe \/ ShutdownEvent \/ RemoveSiteDir \/ ProcessExit

DevNext ==
  \/ Launch \/ StartupRaises \/ BodyRaises
  \/ Proceed
  \/ (Step /\ UNCHANGED lifeVars)

DevSpec == DevInit /\ [][DevNext]_devVars

(* serve() goes on unless something raises; nobody has to start it.        *)
DevFairSpec == DevSpec /\ Fairness /\ WF_devVars(Proceed)

-----------------------------------------------------------------------------
(* Across restarts: whatever process a page comes from, it is complete and *)
(* current if it carries the epoch of the build last started by the server *)
(* that now answers its polls.  A page of an earlier process never does.   *)
TrustedAcrossRestarts == phase = "serve" => TrustedPageIsCurrent

(* The serving process has its directory and its plugins were started and  *)
(* not yet shut down, whenever a build runs or a page is read.             *)
BuildsInsideLifetime ==
  Alive /\ loop \notin {"returned", "raised"} =>
    siteDir /\ plugins = "startup" /\ phase = "serve"

(* If in the end a server keeps serving, every tab that runs the script,   *)
(* whichever process sent its page, comes to show the site of that server. *)
TabsFollowRestart ==
  <>[](phase = "serve") =>
    <>[](\A b \in Browsers :
          pc[b] \in Scripted => whole[b] /\ version[b] = site[page[b]])
=============================================================================
