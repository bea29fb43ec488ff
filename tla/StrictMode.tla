----------------------------- MODULE StrictMode -----------------------------
(***************************************************************************)
(* How build() counts warnings in strict mode (commands/build.py): a       *)
(* CountHandler on the "mkdocs" logger for the time of the build, behind a *)
(* DuplicateFilter that lives as long as the process and sees the messages *)
(* logged by build.py itself.  `mkdocs serve` reads the configuration anew *)
(* before each build, so strict mode can be turned on in between.          *)
(***************************************************************************)
EXTENDS Naturals, FiniteSets

CONSTANTS BuildMsgs,   \* warnings logged by commands/build.py
          OtherMsgs,   \* warnings logged by other modules
          MaxBuilds    \* bound: builds in the process

ASSUME MaxBuildsAssumption == MaxBuilds \in Nat
ASSUME MessagesAssumption == IsFiniteSet(BuildMsgs \cup OtherMsgs)

VARIABLES
  msgs,      \* DuplicateFilter.msgs
  before,    \* what it held when the current build began
  handlers,  \* the builds whose CountHandler is on the logger
  counts,    \* messages counted, per build
  strict,    \* config.strict of the current build
  running,   \* a build is running
  builds,    \* number of builds begun; names the current one
  issued,    \* the warnings logged in the current build
  outcome    \* "none", "ok", "warned" (aborted by strict mode), "failed"

strictVars == <<msgs, before, handlers, counts, strict, running, builds, issued, outcome>>

StrictTypeOK ==
  /\ msgs \subseteq BuildMsgs /\ before \subseteq msgs
  /\ handlers \subseteq 1..MaxBuilds
  /\ counts \in [1..MaxBuilds -> 0..Cardinality(BuildMsgs \cup OtherMsgs)]
  /\ strict \in BOOLEAN /\ running \in BOOLEAN /\ builds \in 0..MaxBuilds
  /\ issued \subseteq BuildMsgs \cup OtherMsgs
  /\ outcome \in {"none", "ok", "warned", "failed"}

StrictInit ==
  /\ msgs = {} /\ before = {} /\ handlers = {} /\ counts = [n \in 1..MaxBuilds |-> 0]
  /\ strict = FALSE /\ running = FALSE /\ builds = 0
  /\ issued = {} /\ outcome = "none"

Begin(isStrict) ==
  /\ ~running /\ builds < MaxBuilds
  /\ running' = TRUE
  /\ builds' = builds + 1
  /\ strict' = isStrict
  /\ handlers' = handlers \cup (IF isStrict THEN {builds'} ELSE {})
  /\ before' = msgs /\ issued' = {} /\ outcome' = "none"
  /\ UNCHANGED <<msgs, counts>>

\* Faulty variant: the handler is on the logger of build.py.
PassesBuild(m) == m \in BuildMsgs \ msgs

\* DuplicateFilter.__call__: a filter of a logger is not asked for what its
\* other loggers in the hierarchy log.
Passes(m) == m \in OtherMsgs \/ m \notin msgs

\* Faulty variant: the filter is asked for every logger's messages.
RememberAll(m) == msgs \cup {m}

\* self.msgs.add(record.msg)
Remember(m) == msgs \cup ({m} \cap BuildMsgs)

\* log.warning: each cause warns once in a build.
Warn(m) ==
  /\ running /\ m \notin issued
  /\ issued' = issued \cup {m}
  /\ msgs' = Remember(m)
  /\ counts' = [n \in 1..MaxBuilds |->
                  IF n \in handlers /\ Passes(m) THEN counts[n] + 1 ELSE counts[n]]
  /\ UNCHANGED <<before, handlers, strict, running, builds, outcome>>

\* Faulty variant: the handler stays when the build raises.
EndAttached(how) ==
  /\ running' = FALSE
  /\ outcome' = how
  /\ handlers' = IF how = "failed" THEN handlers ELSE handlers \ {builds}
  /\ UNCHANGED <<msgs, before, counts, strict, builds, issued>>

\* finally: removeHandler
End(how) ==
  /\ running' = FALSE
  /\ outcome' = how
  /\ handlers' = handlers \ {builds}
  /\ UNCHANGED <<msgs, before, counts, strict, builds, issued>>

\* The counts are looked at when everything has been written.
Finish ==
  /\ running
  /\ End(IF counts[builds] > 0 THEN "warned" ELSE "ok")

Fail ==
  /\ running
  /\ End("failed")

StrictNext ==
  \/ \E isStrict \in BOOLEAN : Begin(isStrict)
  \/ \E m \in BuildMsgs \cup OtherMsgs : Warn(m)
  \/ Finish \/ Fail

StrictSpec == StrictInit /\ [][StrictNext]_strictVars

-----------------------------------------------------------------------------
(* A build counts its own warnings only, however earlier builds ended: the *)
(* only handler on the logger is that of the running strict build.         *)
HandlersMatchBuild ==
  handlers = IF running /\ strict THEN {builds} ELSE {}

(* A strict build is aborted in the end if it logs any warning but those   *)
(* of build.py that an earlier build in the process has logged; one that   *)
(* is aborted was strict and had a warning.                                *)
FirstWarningsAbort ==
  /\ outcome = "ok" /\ strict => issued \subseteq before
  /\ outcome = "warned" => strict /\ issued # {}
=============================================================================
