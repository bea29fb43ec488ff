------------------------------- MODULE Plugins -------------------------------
(***************************************************************************)
(* The plugins of one mkdocs process: each load of the configuration makes *)
(* a PluginCollection (config/config_options.py), whose events are run     *)
(* once per process or once per build (plugins.py).  `mkdocs serve` loads  *)
(* it anew for each build while the user edits mkdocs.yml, but keeps the   *)
(* objects of plugins that have one-time events.                           *)
(***************************************************************************)
EXTENDS Integers, Sequences, SequencesExt, FiniteSets

CONSTANTS Names,       \* installed plugins
          Persistent,  \* those with an on_startup or on_shutdown method
          Priority,    \* the event_priority of their methods
          MaxEntries,  \* bound: length of the list in mkdocs.yml
          MaxEdits,    \* bound: edits of mkdocs.yml
          MaxBuilds    \* bound: builds

ASSUME PersistentAssumption == Persistent \subseteq Names
ASSUME PriorityAssumption == Priority \in [Names -> Int]
ASSUME BoundsAssumption == {MaxEntries, MaxEdits, MaxBuilds} \subseteq Nat

VARIABLES
  yml,        \* the list of plugins in mkdocs.yml
  edits,      \* number of edits; names the version of mkdocs.yml
  cache,      \* plugin_cache: the objects to be kept
  plugins,    \* the current PluginCollection, in the order of mkdocs.yml
  first,      \* the one that serve() or the command was started with
  version,    \* the version of mkdocs.yml it was loaded from
  configured, \* the objects that load_config was called on, with versions
  phase,      \* what the process is doing
  todo,       \* the methods still to be called of the event being run
  called,     \* those called already
  builds,     \* number of builds begun
  used,       \* pairs of an object and a build that it had events of
  started,    \* the objects whose startup event is done
  ended,      \* the objects whose shutdown event is done
  raised      \* a one-time event raised

fileVars   == <<yml, edits>>
configVars == <<cache, plugins, version, configured>>
eventVars  == <<todo, called>>
pastVars   == <<builds, used, started, ended, raised>>
vars == <<fileVars, configVars, first, phase, eventVars, pastVars>>

Lists   == UNION {[1..n -> Names] : n \in 0..MaxEntries}
BuildEvents == {"config", "post_build", "build_error"}

Init ==
  /\ yml \in Lists /\ edits = 0
  /\ cache = {} /\ plugins = <<>> /\ first = <<>>
  /\ version = 0 /\ configured = {}
  /\ phase = "load" /\ todo = <<>> /\ called = <<>>
  /\ builds = 0 /\ used = {} /\ started = {} /\ ended = {} /\ raised = FALSE

Edit(list) ==
  /\ edits < MaxEdits /\ edits' = edits + 1
  /\ yml' = list
  /\ UNCHANGED <<configVars, first, phase, eventVars, pastVars>>

-----------------------------------------------------------------------------
\* _instance_counter: the how manyth entry of its name.
InstNumber(list, i) == Cardinality({j \in 1..i : list[j] = list[i]})

\* plugin_cache.get(inst_name)
Cached(name, num) == {o \in cache : o.name = name /\ o.num = num}

\* load_plugin: the cached object or a new one.
LoadPlugin(list, i) ==
  LET old == Cached(list[i], InstNumber(list, i)) IN
    IF old # {} THEN CHOOSE o \in old : TRUE
    ELSE [name |-> list[i], num |-> InstNumber(list, i), made |-> builds]

LoadPlugins(list) == [i \in 1..Len(list) |-> LoadPlugin(list, i)]

\* Faulty variant: whatever was there before is kept.
KeepAll(objects) == objects

\* hasattr(plugin, 'on_startup') or hasattr(plugin, 'on_shutdown')
Keep(objects) == {o \in objects : o.name \in Persistent}

\* plugin.load_config, which replaces the configuration it had.
Configure(objects) == {c \in configured : c[1] \notin objects} \cup (objects \X {edits})

\* Faulty variant: an equal priority goes before.
InsortLeft(methods, o) ==
  InsertAt(methods, 1 + Cardinality({i \in DOMAIN methods :
                                       Priority[methods[i].name] > Priority[o.name]}), o)

\* _register_event: utils.insort by descending priority.
Insort(methods, o) ==
  InsertAt(methods, 1 + Cardinality({i \in DOMAIN methods :
                                       Priority[methods[i].name] >= Priority[o.name]}), o)

\* PluginCollection.__setitem__: only what the plugin has.
Register(methods, o, having) ==
  IF o.name \in having THEN Insort(methods, o) ELSE methods

\* The methods of an event, of the plugins that have one.
Methods(collection, having) ==
  FoldLeft(LAMBDA methods, o : Register(methods, o, having), <<>>, collection)

\* run_event, from here on one step per method.
RunEvent(event, methods) ==
  /\ phase' = event
  /\ todo' = methods
  /\ called' = <<>>

Shut == RunEvent("shutdown", Methods(first, Persistent))

\* Faulty variant: the event is for the plugins of the last build.
ShutCurrent == RunEvent("shutdown", Methods(plugins, Persistent))

\* The finally clause of the command.
EndCommand == Shut

-----------------------------------------------------------------------------
\* load_config for the first time, and the startup event.
LoadFirst ==
  /\ phase = "load"
  /\ plugins' = LoadPlugins(yml)
  /\ first' = plugins'
  /\ cache' = Keep(ToSet(plugins'))
  /\ configured' = Configure(ToSet(plugins'))
  /\ version' = edits
  /\ RunEvent("startup", Methods(plugins', Persistent))
  /\ UNCHANGED <<fileVars, pastVars>>

\* The builder of `mkdocs serve` loads it again.
Reload ==
  /\ phase = "idle" /\ builds < MaxBuilds
  /\ builds' = builds + 1
  /\ plugins' = LoadPlugins(yml)
  /\ cache' = cache \cup Keep(ToSet(plugins'))
  /\ configured' = Configure(ToSet(plugins'))
  /\ version' = edits
  /\ RunEvent("config", Methods(plugins', Names))
  /\ UNCHANGED <<fileVars, first, used, started, ended, raised>>

\* The first k plugins have been loaded when it raises: the options of the
\* k-th are not valid, or the next one is not installed.
LoadFails(k) ==
  /\ phase \in {"load", "idle"} /\ yml # <<>> /\ k \in 0..Len(yml)
  /\ LET loaded == ToSet(LoadPlugins(SubSeq(yml, 1, k))) IN
       /\ cache' = cache \cup Keep(loaded)
       /\ configured' = Configure(loaded)
  /\ IF phase = "load" THEN phase' = "over" /\ UNCHANGED eventVars ELSE EndCommand
  /\ UNCHANGED <<fileVars, plugins, first, version, pastVars>>

\* The next method of the event returns.
Call ==
  /\ todo # <<>>
  /\ todo' = Tail(todo)
  /\ called' = Append(called, Head(todo))
  /\ used' = IF phase \in BuildEvents THEN used \cup {<<Head(todo), builds>>} ELSE used
  /\ started' = IF phase = "startup" THEN started \cup {Head(todo)} ELSE started
  /\ ended' = IF phase = "shutdown" THEN ended \cup {Head(todo)} ELSE ended
  /\ UNCHANGED <<fileVars, configVars, first, phase, builds, raised>>

\* It raises: the rest of the event is skipped.
CallRaises ==
  /\ todo # <<>>
  /\ \/ /\ phase \in {"startup", "shutdown"}
        /\ phase' = "over" /\ todo' = <<>> /\ called' = <<>>
        /\ raised' = TRUE
     \/ /\ phase \in {"config", "post_build"}
        /\ RunEvent("build_error", Methods(plugins, Names))
        /\ UNCHANGED raised
     \/ /\ phase = "build_error"
        /\ EndCommand
        /\ UNCHANGED raised
  /\ UNCHANGED <<fileVars, configVars, first, builds, used, started, ended>>

\* The build itself raises.
BuildFails ==
  /\ phase \in {"config", "post_build"} /\ todo = <<>>
  /\ RunEvent("build_error", Methods(plugins, Names))
  /\ UNCHANGED <<fileVars, configVars, first, pastVars>>

\* The event is over, what follows it begins.
EventEnds ==
  /\ todo = <<>>
  /\ \/ /\ phase = "startup"
        /\ builds < MaxBuilds /\ builds' = builds + 1
        /\ RunEvent("config", Methods(plugins, Names))
     \/ /\ phase = "config"
        /\ RunEvent("post_build", Methods(plugins, Names))
        /\ UNCHANGED builds
     \/ /\ phase = "build_error"
        /\ EndCommand
        /\ UNCHANGED builds
     \/ /\ phase \in {"post_build", "shutdown"}
        /\ phase' = IF phase = "shutdown" THEN "over" ELSE "idle"
        /\ called' = <<>> /\ UNCHANGED <<todo, builds>>
  /\ UNCHANGED <<fileVars, configVars, first, used, started, ended, raised>>

\* `mkdocs build` is done, or the user ends `mkdocs serve`.
Stop ==
  /\ phase = "idle"
  /\ EndCommand
  /\ UNCHANGED <<fileVars, configVars, first, pastVars>>

Next ==
  \/ \E list \in Lists : Edit(list)
  \/ LoadFirst \/ Reload \/ Stop
  \/ \E k \in 0..MaxEntries : LoadFails(k)
  \/ Call \/ CallRaises \/ BuildFails \/ EventEnds

Spec == Init /\ [][Next]_vars

-----------------------------------------------------------------------------
(* A plugin with one-time events has a single object for all the builds in *)
(* which it has the same place among those of its name; any other plugin   *)
(* has a new one for each build, and what it kept is gone.  However long   *)
(* an object lives, it has the options of the mkdocs.yml that the build    *)
(* was started with when the events of the build are run.                  *)
ObjectsFollowConfig ==
  /\ \A u, v \in used :
       u[1].name = v[1].name /\ u[1].num = v[1].num /\ u[2] # v[2] =>
         (u[1] = v[1]) = (u[1].name \in Persistent)
  /\ phase \in BuildEvents =>
       \A o \in ToSet(plugins) : {c[2] : c \in {d \in configured : d[1] = o}} = {version}

(* The methods of an event are called in the order of their priorities,    *)
(* and for equal ones in the order of mkdocs.yml.                          *)
CallsInOrder ==
  phase \in BuildEvents =>
    \A i, j \in DOMAIN called : i < j =>
      \/ Priority[called[i].name] > Priority[called[j].name]
      \/ /\ Priority[called[i].name] = Priority[called[j].name]
         /\ \E k, l \in DOMAIN plugins : k < l /\ plugins[k] = called[i] /\ plugins[l] = called[j]

(* Every plugin that was started is shut down when the process ends, even  *)
(* if it has been removed from mkdocs.yml since and whatever failed, but   *)
(* for an error in a one-time event; and it takes part in no build before  *)
(* the one or after the other.                                             *)
StartedAreShutDown ==
  /\ phase = "over" /\ ~raised => started = ended
  /\ ended \subseteq started
  /\ builds > 0 => \A o \in ToSet(first) : o.name \in Persistent => o \in started
  /\ ended # {} => phase \in {"shutdown", "over"}
=============================================================================
