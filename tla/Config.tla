------------------------------- MODULE Config -------------------------------
(***************************************************************************)
(* The loading of mkdocs.yml, or of a plugin's options (config/base.py,    *)
(* config/config_options.py): every option has three hooks, which run in   *)
(* three passes over the schema.  A hook may raise a ValidationError, and  *)
(* may leave warnings in a list of the option, which is read and reset     *)
(* after each hook.  The options belong to the class and live on between   *)
(* the loads of one process; wrappers share the list of what they wrap.    *)
(***************************************************************************)
EXTENDS Naturals, Sequences, SequencesExt, FiniteSets

CONSTANTS PluginConfig,  \* the schema of a plugin's options
          MaxSet,        \* bound: options that the user sets
          MaxLoads       \* bound: loads of one process

ASSUME BoundsAssumption == MaxSet \in Nat /\ MaxLoads \in Nat

\* The schema is a sequence; without an option there is nothing to validate.
ASSUME SchemaAssumption ==
  Len(PluginConfig) \in Nat \ {0} /\ DOMAIN PluginConfig = 1..Len(PluginConfig)

(* A schema is made from a dict, so that its keys differ.  Of the options, *)
(* as they are in every schema here: what is removed is not looked at any  *)
(* more; items of a list are not looked at again by the last pass; a       *)
(* template comes before the edit_uri that it takes the place of; and what *)
(* a deprecated option is moved to is there, is neither deprecated nor     *)
(* removed, and inherits from no other.                                    *)
WellFormed(options) ==
  /\ \A i, j \in DOMAIN options : options[i].key = options[j].key => i = j
  /\ \A i \in DOMAIN options :
       /\ options[i].key \notin {"none", "unknown"}
       /\ options[i].wrap = "removed" => options[i].type = "any"
       /\ options[i].wrap = "list" => options[i].type \notin {"dir", "address", "template"}
       /\ options[i].type = "template" =>
            \E j \in DOMAIN options : i < j /\ options[j].key = "edit_uri"
       /\ options[i].wrap = "deprecated" /\ options[i].to # "none" =>
            /\ \E j \in DOMAIN options : /\ options[j].key = options[i].to
                                         /\ options[j].wrap \notin {"deprecated", "removed"}
            /\ \A j \in DOMAIN options :
                 options[j].wrap = "deprecated" /\ options[j].to = options[i].to => i = j

ASSUME OptionsAssumption == WellFormed(PluginConfig)

(* An option: its key, what it validates, how that is wrapped, and the key *)
(* that a deprecated one was moved to.                                     *)
Option(key, type, wrap, to) == [key |-> key, type |-> type, wrap |-> wrap, to |-> to]
Plain(key, type) == Option(key, type, "none", "none")
Optional(key, type) == Option(key, type, "optional", "none")

\* defaults.py, but for options that behave like one of these.
MkDocsConfig == <<
  Plain("site_name", "required"), Optional("nav", "nav"),
  Option("pages", "any", "removed", "nav"),
  Plain("docs_dir", "dir"), Plain("site_dir", "dir"),
  Option("google_analytics", "value", "deprecated", "none"),
  Plain("dev_addr", "address"), Optional("repo_url", "value"),
  Optional("repo_name", "derived"), Optional("edit_uri_template", "template"),
  Optional("edit_uri", "derived"), Plain("plugins", "plugins"),
  Option("watch", "value", "list", "none")>>

(* What the user may write, by what the hooks make of it: "odd" is valid   *)
(* with a warning, "worse" has a warning and is not valid; "late" is valid *)
(* until post_validation looks at it.  Without the user there is a default *)
(* or None; a default that is not valid (there is no directory docs) makes *)
(* what a bad value does, and is taken as one.                             *)
Written(type) ==
  CASE type \in {"nav", "plugins", "sub"} -> {"good", "odd", "bad", "worse"}
    [] type \in {"dir", "address"} -> {"good", "bad", "late"}
    [] type = "any" -> {"good"}
    [] OTHER -> {"good", "bad"}

VARIABLES
  schema,   \* the options of the class, in order
  given,    \* values from the command line, the same for each load
  user,     \* values from the file
  unknown,  \* the file has a key that is none of the schema
  strict,   \* config['strict']
  loads,    \* number of loads begun
  phase,    \* the pass, or what came of the load
  at,       \* the option that it is at
  value,    \* the Config object
  checked,  \* ghost: what each option's own run_validation returned
  lists,    \* the list of each option and of the one that it wraps
  failed,   \* the errors of this load
  warnings  \* the warnings of this load

userVars == <<schema, given, user, unknown, strict, loads>>
vars == <<userVars, phase, at, value, checked, lists, failed, warnings>>

Keys == {schema[i].key : i \in DOMAIN schema}
Get(key) == CHOOSE o \in ToSet(schema) : o.key = key
Current == schema[at]
Passes == {"pre", "run", "post"}

(* outer is the list of the option itself, inner that of the option in it; *)
(* they are the same object if same is TRUE.                               *)
Fresh == [outer |-> <<>>, inner |-> <<>>, same |-> TRUE]
Warning(key, pass) == [key |-> key, pass |-> pass, load |-> loads]

\* The files that set at most MaxSet options of a class.
Files(options) ==
  LET Keyed(chosen) == {o.key : o \in chosen}
      Setting(chosen) == {f \in [Keyed(chosen) -> UNION {Written(o.type) : o \in chosen}] :
                            \A o \in chosen : f[o.key] \in Written(o.type)}
      Some == UNION {Setting(chosen) : chosen \in UNION {kSubset(n, options) : n \in 0..MaxSet}}
  IN {[k \in Keyed(options) |-> IF k \in DOMAIN f THEN f[k] ELSE "unset"] : f \in Some}
FilesOf == [class \in {MkDocsConfig, PluginConfig} |-> Files(ToSet(class))]

Init ==
  /\ schema \in {MkDocsConfig, PluginConfig}
  /\ given \in {[k \in Keys |-> "unset"]} \cup
               {[k \in Keys |-> IF k = "site_dir" THEN v ELSE "unset"] : v \in {"good", "late"}}
  /\ user = [k \in Keys |-> "unset"] /\ unknown = FALSE
  /\ strict \in BOOLEAN
  /\ loads = 0 /\ phase = "loaded" /\ at = 1
  /\ value = user /\ checked = user
  /\ lists = [k \in Keys |-> Fresh]
  /\ failed = <<>> /\ warnings = <<>>

-----------------------------------------------------------------------------
(* Lists of warnings.                                                      *)

\* self.warnings.append in the option that is wrapped.
Add(list, w) ==
  [list EXCEPT !.inner = Append(@, w), !.outer = IF list.same THEN Append(@, w) ELSE @]

\* SubConfig assigns a new list: the wrapper keeps the old one.
Replace(list, ws, wrap) ==
  [outer |-> IF wrap = "none" THEN ws ELSE list.outer, inner |-> ws, same |-> wrap = "none"]

\* Faulty variant: a wrapper resets its own list only.
ResetOuter(o, list) ==
  IF o.wrap = "none" THEN Fresh ELSE [list EXCEPT !.outer = <<>>, !.same = FALSE]

\* reset_warnings.  ListOfItems has that of BaseConfigOption, and no longer
\* shares a list with its items.
Reset(o, list) ==
  IF o.wrap = "list" THEN [list EXCEPT !.outer = <<>>, !.same = FALSE] ELSE Fresh

\* The body of each pass: a hook is called, what it warned of is taken over
\* unless it raised.
Hook(list, raises) ==
  IF raises
  THEN /\ failed' = Append(failed, Current.key)
       /\ lists' = [lists EXCEPT ![Current.key] = list]
       /\ UNCHANGED warnings
  ELSE /\ warnings' = warnings \o list.outer
       /\ lists' = [lists EXCEPT ![Current.key] = Reset(Current, list)]
       /\ UNCHANGED failed

Advance(next) ==
  IF at < Len(schema) THEN at' = at + 1 /\ UNCHANGED phase ELSE at' = 1 /\ phase' = next

-----------------------------------------------------------------------------
\* load_config: the defaults, the file, and the command line over them.
StartLoad(f, u) ==
  /\ phase = "loaded" /\ loads < MaxLoads
  /\ loads' = loads + 1
  /\ user' = f /\ unknown' = u
  /\ value' = [k \in Keys |-> IF given[k] # "unset" THEN given[k] ELSE f[k]]
  /\ checked' = [k \in Keys |-> "none"]
  /\ failed' = <<>> /\ warnings' = <<>>
  /\ phase' = "pre" /\ at' = 1
  /\ UNCHANGED <<schema, given, strict, lists>>

\* There is no file, or none that is a mapping in YAML.
LoadRaises ==
  /\ phase = "loaded" /\ loads < MaxLoads
  /\ phase' = "raised"
  /\ UNCHANGED <<userVars, at, value, checked, lists, failed, warnings>>

\* Deprecated.pre_validation: the value moves to the option's new name.
Moved(o) == IF o.wrap = "deprecated" /\ value[o.key] # "unset" /\ o.to # "none"
            THEN [value EXCEPT ![o.to] = value[o.key], ![o.key] = "unset"]
            ELSE value

PreValidate ==
  /\ phase = "pre"
  /\ LET o == Current
         set == value[o.key] # "unset"
     IN /\ Hook(IF o.wrap = "deprecated" /\ set
                THEN Add(lists[o.key], Warning(o.key, "pre")) ELSE lists[o.key],
                o.wrap = "removed" /\ set)
        /\ value' = Moved(o)
  /\ Advance("run")
  /\ UNCHANGED <<userVars, checked>>

\* What run_validation does with a value; of an unset one it is not called.
Warns(v) == v \in {"odd", "worse"}
Fails(o, v) == v \in {"bad", "worse"} \/ (o.type = "required" /\ v = "unset")

Captured(o, v) ==
  LET ws == IF Warns(v) THEN <<Warning(o.key, "run")>> ELSE <<>> IN
    IF o.type = "sub" /\ v # "unset" THEN Replace(lists[o.key], ws, o.wrap)
    ELSE IF ws # <<>> THEN Add(lists[o.key], Head(ws)) ELSE lists[o.key]

Validate ==
  /\ phase = "run"
  /\ LET o == Current
         v == value[o.key]
     IN /\ Hook(Captured(o, v), Fails(o, v))
        /\ checked' = IF Fails(o, v) THEN checked ELSE [checked EXCEPT ![o.key] = v]
  /\ Advance("keys")
  /\ UNCHANGED <<userVars, value>>

\* Faulty variant: the last pass is always made.
PostAnyway == "post"

\* Only if nothing failed, the last pass.
AfterRun == IF failed = <<>> THEN "post" ELSE "report"

\* The end of _validate: the keys that are not in the schema.
Unrecognised ==
  /\ phase = "keys"
  /\ warnings' = IF unknown THEN Append(warnings, Warning("unknown", "run")) ELSE warnings
  /\ phase' = AfterRun
  /\ UNCHANGED <<userVars, at, value, checked, lists, failed>>

\* IpAddress warns of some hosts, EditURITemplate of an edit_uri beside it;
\* DocsDir and SiteDir raise.
UnsafeHost(o) == o.type = "address" /\ value[o.key] = "late"
NoEffect(o) == o.type = "template" /\ value[o.key] # "unset" /\ value["edit_uri"] # "unset"
BadDirectory(o) == o.type = "dir" /\ value[o.key] = "late"

\* RepoName and EditURI: unset, they are derived from repo_url, edit_uri only
\* for the hosts that it knows.
Derived(o) ==
  IF o.type = "derived" /\ value[o.key] = "unset" /\ value["repo_url"] # "unset"
  THEN {[value EXCEPT ![o.key] = "derived"]} \cup (IF o.key = "edit_uri" THEN {value} ELSE {})
  ELSE {value}

\* Optional still has the list of the option in it.
PostValidate ==
  /\ phase = "post"
  /\ LET o == Current IN
       /\ Hook(IF UnsafeHost(o) \/ NoEffect(o)
               THEN Add(lists[o.key], Warning(o.key, "post")) ELSE lists[o.key],
               BadDirectory(o))
       /\ value' \in Derived(o)
  /\ Advance("report")
  /\ UNCHANGED <<userVars, checked>>

\* The end of load_config.
Report ==
  /\ phase = "report"
  /\ phase' = IF failed # <<>> \/ (strict /\ warnings # <<>>) THEN "aborted" ELSE "loaded"
  /\ UNCHANGED <<userVars, at, value, checked, lists, failed, warnings>>

Next ==
  \/ \E f \in FilesOf[schema], u \in BOOLEAN : StartLoad(f, u)
  \/ LoadRaises
  \/ PreValidate \/ Validate \/ Unrecognised \/ PostValidate
  \/ Report

Spec == Init /\ [][Next]_vars

-----------------------------------------------------------------------------
(* What the last pass looks at has been validated: every option, by its    *)
(* own type, and also what was moved there.  A configuration that is       *)
(* returned holds that and what was derived from it, and nothing else.     *)
LoadedIsValidated ==
  /\ phase \in {"post", "loaded"} /\ loads > 0 =>
       \A k \in Keys : \/ value[k] = checked[k]
                       \/ value[k] = "derived" /\ checked[k] = "unset"
  /\ phase = "loaded" /\ strict => warnings = <<>>

(* What the user asked for of an option: an older name goes before a newer *)
(* one, the command line before the file.                                  *)
Asked(key) == IF given[key] # "unset" THEN given[key] ELSE user[key]
Heirs(key) == {d \in ToSet(schema) : d.wrap = "deprecated" /\ d.to = key /\ Asked(d.key) # "unset"}
Wanted(o) == IF o.to # "none" /\ o.wrap = "deprecated" THEN "unset"
             ELSE IF Heirs(o.key) # {} THEN Asked((CHOOSE d \in Heirs(o.key) : TRUE).key)
             ELSE Asked(o.key)

\* The options whose run_validation can be heard of.
Heard(o) == o.wrap # "list" /\ (o.type = "sub" => o.wrap = "none")

Mistakes == {o \in ToSet(schema) : o.wrap = "removed" /\ Asked(o.key) # "unset"}
              \cup {o \in ToSet(schema) : Fails(o, Wanted(o))}
LateMistakes == {o \in ToSet(schema) : o.type = "dir" /\ Wanted(o) = "late"}

Hints ==
  {Warning(o.key, "pre") :
     o \in {p \in ToSet(schema) : p.wrap = "deprecated" /\ Asked(p.key) # "unset"}}
  \cup {Warning(o.key, "run") :
          o \in {p \in ToSet(schema) : Heard(p) /\ Wanted(p) = "odd"}}
  \cup (IF unknown THEN {Warning("unknown", "run")} ELSE {})
LateHints ==
  {Warning(o.key, "post") :
     o \in {p \in ToSet(schema) :
              \/ p.type = "address" /\ Wanted(p) = "late"
              \/ p.type = "template" /\ Wanted(p) # "unset" /\ Wanted(Get("edit_uri")) # "unset"}}

(* A load ends with all its errors, each once, and all its warnings: those *)
(* of this load, not of one before, each once, and about what the user has *)
(* written, not about what was derived.  What the last pass has to say     *)
(* comes only if there is no other error.  The warnings of list items and  *)
(* of a wrapped SubConfig are lost.                                        *)
ReportIsExact ==
  phase \in {"aborted", "loaded"} /\ loads > 0 =>
    /\ IsInjective(failed) /\ IsInjective(warnings)
    /\ ToSet(failed) = {o.key : o \in IF Mistakes # {} THEN Mistakes ELSE LateMistakes}
    /\ ToSet(warnings) = Hints \cup (IF Mistakes = {} THEN LateHints ELSE {})
=============================================================================
