---------------------------- MODULE ConfigProofs ----------------------------
(***************************************************************************)
(* For any schema of a plugin, any values and any number of loads: nothing *)
(* gets out of a load, or into its last pass, but what was validated, and  *)
(* a load reports what is to be said of it.  The passes go over the schema *)
(* in order; what the first has moved is looked at by the second, which    *)
(* leaves every value as it is.                                            *)
(***************************************************************************)
EXTENDS Config, SequenceTheorems, TLAPS

Key(i) == schema[i].key

\* What was validated, or derived from it where nothing was set.
Valid(k) == \/ value[k] = checked[k]
            \/ value[k] = "derived" /\ checked[k] = "unset"

Shape ==
  /\ Len(schema) \in Nat \ {0} /\ DOMAIN schema = 1..Len(schema) /\ at \in 1..Len(schema)
  /\ DOMAIN value = Keys /\ DOMAIN checked = Keys
  /\ failed \in Seq(Keys)

\* What the second pass has behind it is validated, if nothing failed.
RunInv ==
  /\ phase = "run" /\ failed = <<>> => \A i \in 1..(at - 1) : value[Key(i)] = checked[Key(i)]
  /\ phase = "keys" /\ failed = <<>> => \A k \in Keys : value[k] = checked[k]

\* The third is made only of what is validated, and derives the rest.
PostInv ==
  /\ phase = "post" => \A k \in Keys : Valid(k)
  /\ phase = "report" /\ failed = <<>> => \A k \in Keys : Valid(k)
  /\ phase = "loaded" /\ loads > 0 => \A k \in Keys : Valid(k)
  /\ phase = "loaded" /\ strict => warnings = <<>>

ConfigInv == Shape /\ RunInv /\ PostInv

-----------------------------------------------------------------------------
LEMMA Schemas == Len(MkDocsConfig) = 13 /\ DOMAIN MkDocsConfig = 1..13
BY DEF MkDocsConfig

LEMMA KeyInKeys == Shape => /\ \A i \in 1..Len(schema) : Key(i) \in Keys
                            /\ Current.key = Key(at)
                            /\ \A k \in Keys : \E i \in 1..Len(schema) : k = Key(i)
BY DEF Shape, Keys, Key, Current

LEMMA InitConfig == Init => ConfigInv
<1> SUFFICES ASSUME Init PROVE ConfigInv
  OBVIOUS
<1>1. Len(schema) \in Nat \ {0} /\ DOMAIN schema = 1..Len(schema)
  <2>1. schema = MkDocsConfig \/ schema = PluginConfig
    BY DEF Init
  <2>2. CASE schema = MkDocsConfig
    BY <2>2, Schemas
  <2>3. CASE schema = PluginConfig
    BY <2>3, SchemaAssumption
  <2> QED
    BY <2>1, <2>2, <2>3
<1>2. at \in 1..Len(schema) /\ failed \in Seq(Keys)
  BY <1>1 DEF Init
<1>3. user = [k \in Keys |-> "unset"] /\ value = user /\ checked = user
  BY DEF Init
<1>4. Shape
  BY <1>1, <1>2, <1>3 DEF Shape
<1> QED
  BY <1>4 DEF Init, ConfigInv, RunInv, PostInv

\* A hook that raises leaves an error, one that does not leaves none.
LEMMA HookFails ==
  ASSUME Shape, NEW list, NEW raises \in BOOLEAN, Hook(list, raises)
  PROVE  /\ failed' \in Seq(Keys)
         /\ failed' = <<>> => ~raises /\ failed = <<>>
<1>1. Current.key \in Keys
  BY KeyInKeys DEF Shape
<1>2. CASE raises
  <2>1. failed' = Append(failed, Current.key)
    BY <1>2 DEF Hook
  <2> QED
    BY <1>1, <1>2, <2>1 DEF Shape
<1>3. CASE ~raises
  BY <1>3 DEF Hook, Shape
<1> QED
  BY <1>2, <1>3

\* A pass goes to the next option, or to what is next.
LEMMA AdvanceAt ==
  ASSUME Shape, NEW next, Advance(next)
  PROVE  /\ at' \in 1..Len(schema)
         /\ \/ at < Len(schema) /\ at' = at + 1 /\ phase' = phase
            \/ at = Len(schema) /\ phase' = next
BY DEF Shape, Advance

LEMMA NextConfig == ConfigInv /\ [Next]_vars => ConfigInv'
<1> SUFFICES ASSUME ConfigInv, [Next]_vars PROVE ConfigInv'
  OBVIOUS
<1>0. Shape /\ RunInv /\ PostInv
  BY DEF ConfigInv
<1>1. CASE UNCHANGED vars
  BY <1>1 DEF vars, userVars, ConfigInv, Shape, RunInv, PostInv, Keys, Key, Valid
<1>2. ASSUME NEW f \in FilesOf[schema], NEW u \in BOOLEAN, StartLoad(f, u) PROVE ConfigInv'
  BY <1>0, <1>2 DEF StartLoad, ConfigInv, Shape, RunInv, PostInv, Keys
<1>3. CASE LoadRaises
  BY <1>0, <1>3 DEF LoadRaises, userVars, ConfigInv, Shape, RunInv, PostInv, Keys
<1>4. CASE PreValidate
  <2>0. value' = Moved(Current) /\ UNCHANGED <<schema, checked>>
    BY <1>4 DEF PreValidate, userVars
  <2>1. DOMAIN value' = Keys
    BY <1>0, <2>0 DEF Moved, Shape
  <2>2. failed' \in Seq(Keys)
    BY <1>0, <1>4, HookFails DEF PreValidate
  <2>3. at' \in 1..Len(schema) /\ phase' \in {"pre", "run"} /\ (phase' = "run" => at' = 1)
    BY <1>0, <1>4 DEF PreValidate, Advance, Shape
  <2> QED
    <3>1. Shape'
      BY <1>0, <2>0, <2>1, <2>2, <2>3 DEF Shape, Keys
    <3>2. phase' = "run" => 1..(at' - 1) = {}
      BY <2>3
    <3>3. RunInv'
      BY <2>3, <3>2 DEF RunInv
    <3>4. PostInv'
      BY <2>3 DEF PostInv
    <3> QED
      BY <3>1, <3>3, <3>4 DEF ConfigInv
<1>5. CASE Validate
  <2> DEFINE k == Current.key
             v == value[k]
  <2>1. k = Key(at) /\ k \in Keys
    BY <1>0, KeyInKeys DEF Shape
  <2>2. /\ phase = "run" /\ UNCHANGED <<schema, value>>
        /\ checked' = IF Fails(Current, v) THEN checked ELSE [checked EXCEPT ![k] = v]
        /\ Hook(Captured(Current, v), Fails(Current, v)) /\ Advance("keys")
    BY <1>5 DEF Validate, userVars
  <2>3. /\ failed' \in Seq(Keys)
        /\ failed' = <<>> => ~Fails(Current, v) /\ failed = <<>>
    BY <1>0, <2>2, HookFails DEF Fails
  <2>4. DOMAIN checked' = Keys
    BY <1>0, <2>2 DEF Shape
  <2>5. failed' = <<>> => \A i \in 1..at : value[Key(i)] = checked'[Key(i)]
    <3> SUFFICES ASSUME failed' = <<>>, NEW i \in 1..at PROVE value[Key(i)] = checked'[Key(i)]
      OBVIOUS
    <3>1. checked' = [checked EXCEPT ![k] = v] /\ Key(i) \in Keys
      BY <1>0, <2>2, <2>3, KeyInKeys DEF Shape
    <3>2. CASE i = at
      BY <1>0, <2>1, <3>1, <3>2 DEF Shape
    <3>3. CASE i # at
      <4>1. value[Key(i)] = checked[Key(i)]
        BY <1>0, <2>2, <2>3, <3>3 DEF RunInv, Shape
      <4> QED
        BY <1>0, <3>1, <4>1 DEF Shape
    <3> QED
      BY <3>2, <3>3
  <2>6. /\ at' \in 1..Len(schema)
        /\ \/ at' = at + 1 /\ phase' = "run"
           \/ at = Len(schema) /\ phase' = "keys"
    BY <1>0, <2>2, AdvanceAt
  <2>7. Shape'
    BY <1>0, <2>2, <2>3, <2>4, <2>6 DEF Shape, Keys
  <2>8. RunInv'
    <3>1. \A i \in 1..Len(schema) : Key(i)' = Key(i)
      BY <2>2 DEF Key
    <3>2. CASE at' = at + 1 /\ phase' = "run"
      BY <1>0, <2>2, <2>5, <3>1, <3>2 DEF RunInv, Shape, Key
    <3>3. CASE at = Len(schema) /\ phase' = "keys"
      <4>1. Keys' = Keys
        BY <2>2 DEF Keys
      <4> QED
        BY <1>0, <2>2, <2>5, <3>3, <4>1, KeyInKeys DEF RunInv
    <3> QED
      BY <2>6, <3>2, <3>3
  <2>9. PostInv'
    BY <2>6 DEF PostInv
  <2> QED
    BY <2>7, <2>8, <2>9 DEF ConfigInv
<1>6. CASE Unrecognised
  <2>1. /\ phase = "keys" /\ UNCHANGED <<userVars, at, value, checked, failed>>
        /\ phase' = IF failed = <<>> THEN "post" ELSE "report"
    BY <1>6 DEF Unrecognised, AfterRun
  <2> QED
    BY <1>0, <2>1 DEF ConfigInv, Shape, RunInv, PostInv, Keys, Valid, userVars
<1>7. CASE PostValidate
  <2>1. /\ phase = "post" /\ UNCHANGED <<schema, checked>>
        /\ value' \in Derived(Current) /\ Advance("report")
    BY <1>7 DEF PostValidate, userVars
  <2>2. failed' \in Seq(Keys)
    BY <1>0, <1>7, HookFails DEF PostValidate, BadDirectory
  <2>3. DOMAIN value' = Keys /\ Keys' = Keys
    BY <1>0, <2>1 DEF Derived, Shape, Keys
  <2>4. at' \in 1..Len(schema) /\ phase' \in {"post", "report"}
    BY <1>0, <2>1, AdvanceAt
  <2>5. \A k \in Keys : Valid(k)'
    <3> SUFFICES ASSUME NEW k \in Keys PROVE Valid(k)'
      OBVIOUS
    <3>1. Valid(k)
      BY <1>0, <2>1 DEF PostInv
    <3>2. \/ value'[k] = value[k]
          \/ value'[k] = "derived" /\ value[k] = "unset"
      BY <1>0, <2>1 DEF Derived, Shape
    <3> QED
      BY <2>1, <3>1, <3>2 DEF Valid
  <2> QED
    BY <1>0, <2>1, <2>2, <2>3, <2>4, <2>5 DEF ConfigInv, Shape, RunInv, PostInv
<1>8. CASE Report
  <2>1. /\ phase = "report" /\ UNCHANGED <<userVars, at, value, checked, failed, warnings>>
        /\ phase' \in {"aborted", "loaded"}
        /\ phase' = "loaded" => failed = <<>> /\ ~(strict /\ warnings # <<>>)
    BY <1>8 DEF Report
  <2> QED
    BY <1>0, <2>1 DEF ConfigInv, Shape, RunInv, PostInv, Keys, Valid, userVars
<1> QED
  BY <1>1, <1>2, <1>3, <1>4, <1>5, <1>6, <1>7, <1>8 DEF Next

(* Whatever the file and the command line hold, and whatever earlier loads *)
(* of the process left: what the last pass looks at and what is returned   *)
(* has been validated or derived, and a strict load that warned raises.    *)
THEOREM OnlyValidatedLoaded == Spec => []LoadedIsValidated
<1>1. ConfigInv => LoadedIsValidated
  BY DEF ConfigInv, PostInv, Valid, LoadedIsValidated
<1> QED
  BY <1>1, InitConfig, NextConfig, PTL DEF Spec
-----------------------------------------------------------------------------
(* Sequences without repetition.                                           *)
Holds(seq, S) == IsInjective(seq) /\ ToSet(seq) = S

LEMMA HoldsNothing == Holds(<<>>, {})
<1>1. DOMAIN <<>> = {}
  OBVIOUS
<1> QED
  BY <1>1 DEF Holds, IsInjective, ToSet

LEMMA HoldsOneMore ==
  ASSUME NEW T, NEW seq \in Seq(T), NEW S, Holds(seq, S), NEW e \in T, e \notin S
  PROVE  Append(seq, e) \in Seq(T) /\ Holds(Append(seq, e), S \cup {e})
<1> DEFINE n == Len(seq)
           longer == Append(seq, e)
<1>1. n \in Nat /\ DOMAIN seq = 1..n /\ S = {seq[i] : i \in 1..n}
  BY LenProperties DEF Holds, ToSet
<1>2. /\ longer \in Seq(T) /\ Len(longer) = n + 1
      /\ \A i \in 1..n : longer[i] = seq[i]
      /\ longer[n + 1] = e
  BY AppendProperties
<1>3. DOMAIN longer = 1..(n + 1)
  BY <1>2, LenProperties
<1> HIDE DEF n, longer
<1>4. 1..(n + 1) = (1..n) \cup {n + 1} /\ n + 1 \notin 1..n
  BY <1>1
<1>5. ToSet(longer) = S \cup {e}
  <2>1. ASSUME NEW x \in ToSet(longer) PROVE x \in S \cup {e}
    <3>1. PICK i \in 1..(n + 1) : x = longer[i]
      BY <1>3 DEF ToSet
    <3>2. CASE i \in 1..n
      BY <1>1, <1>2, <3>1, <3>2
    <3>3. CASE i = n + 1
      BY <1>2, <3>1, <3>3
    <3> QED
      BY <1>4, <3>2, <3>3
  <2>2. ASSUME NEW x \in S PROVE x \in ToSet(longer)
    <3>1. PICK i \in 1..n : x = seq[i]
      BY <1>1
    <3>2. i \in 1..(n + 1) /\ x = longer[i]
      BY <1>2, <1>4, <3>1
    <3> QED
      BY <1>3, <3>2 DEF ToSet
  <2>3. e \in ToSet(longer)
    BY <1>2, <1>3, <1>4 DEF ToSet
  <2> QED
    BY <2>1, <2>2, <2>3
<1>6. IsInjective(longer)
  <2> SUFFICES ASSUME NEW i \in 1..(n + 1), NEW j \in 1..(n + 1), longer[i] = longer[j]
               PROVE  i = j
    BY <1>3 DEF IsInjective
  <2>1. CASE i \in 1..n /\ j \in 1..n
    BY <1>1, <1>2, <2>1 DEF Holds, IsInjective
  <2>2. CASE i = n + 1 /\ j \in 1..n
    BY <1>1, <1>2, <2>2
  <2>3. CASE i \in 1..n /\ j = n + 1
    BY <1>1, <1>2, <2>3
  <2> QED
    BY <1>4, <2>1, <2>2, <2>3
<1> QED
  BY <1>2, <1>5, <1>6 DEF Holds, longer

-----------------------------------------------------------------------------
(* The schemas, and what may be written.                                   *)

LEMMA MkDocsWellFormed == WellFormed(MkDocsConfig)
<1> DEFINE keys == <<"site_name", "nav", "pages", "docs_dir", "site_dir", "google_analytics",
                     "dev_addr", "repo_url", "repo_name", "edit_uri_template", "edit_uri",
                     "plugins", "watch">>
<1>1. \A i \in 1..13 : MkDocsConfig[i].key = keys[i]
  BY DEF MkDocsConfig, Plain, Optional, Option
<1>2. \A i, j \in 1..13 : keys[i] = keys[j] => i = j
  OBVIOUS
<1>3. \A i \in 1..13 : keys[i] \notin {"none", "unknown"}
  OBVIOUS
<1>4. \A i, j \in DOMAIN MkDocsConfig : MkDocsConfig[i].key = MkDocsConfig[j].key => i = j
  BY <1>1, <1>2, Schemas
<1>5. ASSUME NEW i \in DOMAIN MkDocsConfig
      PROVE  /\ MkDocsConfig[i].wrap = "removed" => MkDocsConfig[i].type = "any"
             /\ MkDocsConfig[i].wrap = "list" => MkDocsConfig[i].type \notin {"dir", "address", "template"}
             /\ MkDocsConfig[i].wrap = "deprecated" => MkDocsConfig[i].to = "none"
             /\ MkDocsConfig[i].type = "template" => i = 10
  BY Schemas DEF MkDocsConfig, Plain, Optional, Option
<1>6. 11 \in DOMAIN MkDocsConfig /\ MkDocsConfig[11].key = "edit_uri"
  BY <1>1, Schemas
<1> HIDE DEF keys
<1>7. ASSUME NEW i \in DOMAIN MkDocsConfig
      PROVE  /\ MkDocsConfig[i].key \notin {"none", "unknown"}
             /\ MkDocsConfig[i].type = "template" =>
                  \E j \in DOMAIN MkDocsConfig : i < j /\ MkDocsConfig[j].key = "edit_uri"
  BY <1>1, <1>3, <1>5, <1>6, Schemas
<1> QED
  BY <1>4, <1>5, <1>7 DEF WellFormed

\* A file has for each option what may be written for it, or nothing.
LEMMA FilesTyped ==
  ASSUME NEW options, WellFormed(options), NEW f \in Files(ToSet(options))
  PROVE  /\ DOMAIN f = {options[i].key : i \in DOMAIN options}
         /\ \A i \in DOMAIN options :
              f[options[i].key] \in Written(options[i].type) \cup {"unset"}
<1> DEFINE os == ToSet(options)
           Keyed(chosen) == {o.key : o \in chosen}
           Setting(chosen) == {g \in [Keyed(chosen) -> UNION {Written(o.type) : o \in chosen}] :
                                 \A o \in chosen : g[o.key] \in Written(o.type)}
           Some == UNION {Setting(chosen) : chosen \in UNION {kSubset(n, os) : n \in 0..MaxSet}}
<1>1. os = {options[i] : i \in DOMAIN options}
  BY DEF ToSet
<1>2. Files(os) = {[k \in Keyed(os) |-> IF k \in DOMAIN g THEN g[k] ELSE "unset"] : g \in Some}
  BY DEF Files
<1>3. PICK g \in Some : f = [k \in Keyed(os) |-> IF k \in DOMAIN g THEN g[k] ELSE "unset"]
  BY <1>2
<1>4. PICK chosen \in SUBSET os : g \in Setting(chosen)
  <2>1. PICK chosen \in UNION {kSubset(n, os) : n \in 0..MaxSet} : g \in Setting(chosen)
    BY <1>3
  <2>2. \A n : kSubset(n, os) \subseteq SUBSET os
    BY DEF kSubset
  <2>3. chosen \in SUBSET os
    BY <2>2
  <2> HIDE DEF os, Setting
  <2> QED
    BY <2>1, <2>3
<1>5. DOMAIN f = Keyed(os)
  BY <1>3
<1>6. ASSUME NEW i \in DOMAIN options
      PROVE  f[options[i].key] \in Written(options[i].type) \cup {"unset"}
  <2> DEFINE k == options[i].key
  <2>1. k \in Keyed(os)
    BY <1>1
  <2>2. CASE k \in DOMAIN g
    <3>1. f[k] = g[k] /\ k \in Keyed(chosen)
      BY <1>3, <1>4, <2>1, <2>2
    <3>2. PICK o \in chosen : o.key = k
      BY <3>1
    <3>3. PICK j \in DOMAIN options : o = options[j]
      BY <1>1, <1>4
    <3>4. i = j
      BY <3>2, <3>3 DEF WellFormed
    <3> QED
      BY <1>4, <3>1, <3>2, <3>3, <3>4
  <2>3. CASE k \notin DOMAIN g
    BY <1>3, <2>1, <2>3
  <2> QED
    BY <2>2, <2>3
<1> QED
  BY <1>1, <1>5, <1>6


-----------------------------------------------------------------------------
(* The report.  Options go by their places in the schema.                  *)
Places == 1..Len(schema)

Mover(j) == schema[j].wrap = "deprecated" /\ schema[j].to # "none"
Heir(i, j) == Mover(i) /\ schema[i].to = Key(j)

\* Who fails and who warns, in each pass.
Removed == {j \in Places : schema[j].wrap = "removed" /\ Asked(Key(j)) # "unset"}
Failing == {j \in Places : Fails(schema[j], Wanted(schema[j]))}
BadDirs == {j \in Places : schema[j].type = "dir" /\ Wanted(schema[j]) = "late"}
Old     == {j \in Places : schema[j].wrap = "deprecated" /\ Asked(Key(j)) # "unset"}
Odd     == {j \in Places : Heard(schema[j]) /\ Wanted(schema[j]) = "odd"}
Late    == {j \in Places : \/ schema[j].type = "address" /\ Wanted(schema[j]) = "late"
                           \/ /\ schema[j].type = "template" /\ Wanted(schema[j]) # "unset"
                              /\ Wanted(Get("edit_uri")) # "unset"}

KeysOf(s, J) == {s[j].key : j \in J}
NotesOf(s, J, pass, load) == {[key |-> s[j].key, pass |-> pass, load |-> load] : j \in J}
Behind(J) == J \cap (1..(at - 1))

Notes == [key : Keys \cup {"unknown"}, pass : Passes, load : Nat]
ListRecords == [outer : Seq(Notes), inner : Seq(Notes), same : BOOLEAN]

Typed ==
  /\ schema \in {MkDocsConfig, PluginConfig} /\ WellFormed(schema) /\ loads \in Nat
  /\ \A k \in Keys : given[k] \in {"unset", "good", "late"}
  /\ \A i \in Places : schema[i].type = "any" => user[Key(i)] \in {"unset", "good"}
  /\ warnings \in Seq(Notes) /\ lists \in [Keys -> ListRecords]

(* The values when the first pass is through with those before n.          *)
MovedTo(n) ==
  \A j \in Places :
    IF Mover(j) THEN value[Key(j)] = IF j < n THEN "unset" ELSE Asked(Key(j))
    ELSE /\ \A i \in Places : i < n /\ Heir(i, j) /\ Asked(Key(i)) # "unset"
                                => value[Key(j)] = Asked(Key(i))
         /\ (\A i \in Places : i < n /\ Heir(i, j) => Asked(Key(i)) = "unset")
              => value[Key(j)] = Asked(Key(j))

AsWanted(i) == value[Key(i)] = Wanted(schema[i])

ValueInv ==
  /\ phase = "pre" => MovedTo(at)
  /\ phase \in {"run", "keys"} => \A i \in Places : AsWanted(i)
  /\ phase = "keys" => at = 1
  /\ phase = "post" => \A i \in Places : AsWanted(i) \/ (schema[i].type = "derived" /\ i < at)

(* An option's list is empty and, but for ListOfItems, the one that what   *)
(* is in it adds to.                                                       *)
Ready(i) == lists[Key(i)].outer = <<>> /\ (schema[i].wrap = "list" \/ lists[Key(i)].same)
Apart(i) == schema[i].wrap = "list" => ~lists[Key(i)].same

ListsInv ==
  /\ phase = "pre" => \A i \in Places : Ready(i) /\ (i < at => Apart(i))
  /\ phase = "run" => \A i \in Places : Apart(i) /\ (i >= at \/ failed = <<>> => Ready(i))
  /\ phase \in {"keys", "report"} /\ failed = <<>> => \A i \in Places : Ready(i)
  /\ phase = "post" => \A i \in Places : i >= at \/ failed = <<>> => Ready(i)
  /\ phase = "loaded" => \A i \in Places : Ready(i)

PreNotes == NotesOf(schema, Old, "pre", loads)
RunNotes == NotesOf(schema, Odd, "run", loads)
Said == PreNotes \cup RunNotes \cup (IF unknown THEN {Warning("unknown", "run")} ELSE {})
Wrong == Removed \cup Failing

Exact ==
  /\ Holds(failed, KeysOf(schema, IF Wrong # {} THEN Wrong ELSE BadDirs))
  /\ Holds(warnings, Said \cup (IF Wrong = {} THEN NotesOf(schema, Late, "post", loads) ELSE {}))

ReportInv ==
  /\ phase = "pre" =>
       /\ Holds(failed, KeysOf(schema, Behind(Removed)))
       /\ Holds(warnings, NotesOf(schema, Behind(Old), "pre", loads))
  /\ phase = "run" =>
       /\ Holds(failed, KeysOf(schema, Removed \cup Behind(Failing)))
       /\ Holds(warnings, PreNotes \cup NotesOf(schema, Behind(Odd), "run", loads))
  /\ phase = "keys" =>
       /\ Holds(failed, KeysOf(schema, Wrong))
       /\ Holds(warnings, PreNotes \cup RunNotes)
  /\ phase = "post" =>
       /\ Wrong = {}
       /\ Holds(failed, KeysOf(schema, Behind(BadDirs)))
       /\ Holds(warnings, Said \cup NotesOf(schema, Behind(Late), "post", loads))
  /\ phase = "report" \/ (phase \in {"aborted", "loaded"} /\ loads > 0) => Exact

\* What is known of the options, by their places.
LEMMA OptionsApart ==
  ASSUME Shape, Typed
  PROVE  /\ Places = DOMAIN schema /\ at \in Places /\ Len(schema) \in Nat
         /\ \A i, j \in Places : Key(i) = Key(j) => i = j
         /\ \A i \in Places : Key(i) \in Keys /\ Key(i) \notin {"none", "unknown"}
         /\ \A k \in Keys : \E i \in Places : k = Key(i)
         /\ Current = schema[at] /\ Current.key = Key(at)
         /\ \A i \in Places :
              /\ schema[i].wrap = "removed" => schema[i].type = "any"
              /\ schema[i].wrap = "list" => schema[i].type \notin {"dir", "address", "template"}
              /\ schema[i].type = "template" => \E j \in Places : i < j /\ Key(j) = "edit_uri"
BY KeyInKeys DEF Shape, Typed, WellFormed, Places, Key, Current

\* What is moved goes to one that is there, and is not moved or removed.
LEMMA HeirsApart ==
  ASSUME Shape, Typed
  PROVE  /\ \A i \in Places : Mover(i) => schema[i].to \in Keys
         /\ \A i, j \in Places : Heir(i, j) => schema[j].wrap \notin {"deprecated", "removed"}
         /\ \A i, j, n \in Places : Heir(i, j) /\ Heir(n, j) => i = n
<1>1. WellFormed(schema) /\ Places = DOMAIN schema
  BY OptionsApart DEF Typed
<1>2. ASSUME NEW i \in Places, Mover(i)
      PROVE  \E j \in Places : schema[j].key = schema[i].to /\ schema[j].wrap \notin {"deprecated", "removed"}
  BY <1>1, <1>2 DEF WellFormed, Mover
<1>3. \A i \in Places : Mover(i) => schema[i].to \in Keys
  BY <1>1, <1>2 DEF Keys
<1>4. \A i, j \in Places : Heir(i, j) => schema[j].wrap \notin {"deprecated", "removed"}
  BY <1>1, <1>2 DEF Heir, Key, WellFormed
<1>5. \A i, j, n \in Places : Heir(i, j) /\ Heir(n, j) => i = n
  BY <1>1 DEF Heir, Mover, WellFormed
<1> QED
  BY <1>3, <1>4, <1>5

\* One option more has one key more, and one note.
LEMMA OneKeyMore ==
  ASSUME Shape, Typed, NEW J \in SUBSET Places, NEW i \in Places, i \notin J, NEW pass, NEW load
  PROVE  /\ KeysOf(schema, J \cup {i}) = KeysOf(schema, J) \cup {Key(i)}
         /\ Key(i) \notin KeysOf(schema, J)
         /\ NotesOf(schema, J \cup {i}, pass, load) =
              NotesOf(schema, J, pass, load) \cup {[key |-> Key(i), pass |-> pass, load |-> load]}
         /\ [key |-> Key(i), pass |-> pass, load |-> load] \notin NotesOf(schema, J, pass, load)
<1>1. Key(i) \notin KeysOf(schema, J)
  BY OptionsApart DEF KeysOf, Key
<1>2. [key |-> Key(i), pass |-> pass, load |-> load] \notin NotesOf(schema, J, pass, load)
  <2> SUFFICES ASSUME NEW j \in J,
                      [key |-> Key(i), pass |-> pass, load |-> load] =
                        [key |-> schema[j].key, pass |-> pass, load |-> load]
               PROVE  FALSE
    BY DEF NotesOf
  <2>1. Key(i) = Key(j) /\ j \in Places
    BY DEF Key
  <2> QED
    BY <2>1, OptionsApart
<1>3. KeysOf(schema, J \cup {i}) = KeysOf(schema, J) \cup {Key(i)}
  BY DEF KeysOf, Key
<1>4. NotesOf(schema, J \cup {i}, pass, load) =
        NotesOf(schema, J, pass, load) \cup {[key |-> Key(i), pass |-> pass, load |-> load]}
  BY DEF NotesOf, Key
<1> QED
  BY <1>1, <1>2, <1>3, <1>4

\* Going on, the pass has one option more behind it.
LEMMA BehindNext ==
  ASSUME NEW n \in Nat \ {0}, NEW J
  PROVE  J \cap (1..((n + 1) - 1)) = (J \cap (1..(n - 1))) \cup (J \cap {n})
<1>1. 1..((n + 1) - 1) = (1..(n - 1)) \cup {n}
  OBVIOUS
<1> QED
  BY <1>1

OneOf(S) == CHOOSE d \in S : TRUE

\* Between two loads, nothing changes of what the user asked for.
LEMMA AskedTheSame ==
  ASSUME UNCHANGED userVars
  PROVE  /\ Places' = Places /\ Keys' = Keys /\ Notes' = Notes /\ ListRecords' = ListRecords
         /\ \A i : Key(i)' = Key(i)
         /\ \A k : Asked(k)' = Asked(k)
         /\ \A o : Wanted(o)' = Wanted(o)
         /\ Removed' = Removed /\ Failing' = Failing /\ BadDirs' = BadDirs
         /\ Old' = Old /\ Odd' = Odd /\ Late' = Late /\ Said' = Said
<1>1. /\ Places' = Places /\ Keys' = Keys /\ \A i : Key(i)' = Key(i)
      /\ schema' = schema /\ loads' = loads /\ unknown' = unknown
  BY DEF userVars, Places, Keys, Key
<1>2. Notes' = Notes /\ ListRecords' = ListRecords
  BY <1>1 DEF Notes, ListRecords
<1>3. \A k : Asked(k)' = Asked(k)
  BY DEF userVars, Asked
<1>4. \A k : Heirs(k)' = Heirs(k)
  BY <1>1, <1>3 DEF Heirs
<1>5. \A o : Wanted(o)' = Wanted(o)
  <2>1. \A o : Wanted(o) = IF o.to # "none" /\ o.wrap = "deprecated" THEN "unset"
                           ELSE IF Heirs(o.key) # {} THEN Asked(OneOf(Heirs(o.key)).key)
                           ELSE Asked(o.key)
    BY DEF Wanted, OneOf
  <2>2. \A o : Wanted(o)' = IF o.to # "none" /\ o.wrap = "deprecated" THEN "unset"
                            ELSE IF (Heirs(o.key))' # {} THEN Asked(OneOf(Heirs(o.key)).key)'
                            ELSE Asked(o.key)'
    BY DEF Wanted, OneOf
  <2> QED
    BY <1>3, <1>4, <2>1, <2>2
<1>6. Removed' = Removed /\ Old' = Old
  BY <1>1, <1>3 DEF Removed, Old
<1>7. Failing' = Failing
  BY <1>1, <1>5 DEF Failing, Fails
<1>8. BadDirs' = BadDirs /\ Odd' = Odd
  BY <1>1, <1>5 DEF BadDirs, Odd, Heard
<1>9. Late' = Late
  <2>1. Get("edit_uri")' = Get("edit_uri")
    BY <1>1 DEF Get
  <2> QED
    BY <1>1, <1>5, <2>1 DEF Late
<1>10. Said' = Said
  BY <1>1, <1>6, <1>8 DEF Said, PreNotes, RunNotes, Warning, NotesOf
<1> QED
  BY <1>1, <1>2, <1>3, <1>5, <1>6, <1>7, <1>8, <1>9, <1>10

-----------------------------------------------------------------------------
(* What a hook does to the report and to the lists.                        *)

LEMMA HookRaised ==
  ASSUME Shape, Typed, NEW list, NEW F, NEW W, Hook(list, TRUE),
         Holds(failed, F), Holds(warnings, W), Key(at) \notin F
  PROVE  /\ Holds(failed', F \cup {Key(at)}) /\ failed' # <<>>
         /\ Holds(warnings', W) /\ warnings' \in Seq(Notes)
<1>1. failed' = Append(failed, Key(at)) /\ warnings' = warnings
  BY OptionsApart DEF Hook
<1>2. failed \in Seq(Keys) /\ Key(at) \in Keys
  BY OptionsApart DEF Shape
<1>3. Holds(failed', F \cup {Key(at)})
  BY <1>1, <1>2, HoldsOneMore
<1>4. failed' # <<>>
  BY <1>1, <1>2, AppendProperties
<1> QED
  BY <1>1, <1>3, <1>4 DEF Typed

LEMMA HookSilent ==
  ASSUME Shape, Typed, NEW list, NEW F, NEW W, Hook(list, FALSE), list.outer = <<>>,
         Holds(failed, F), Holds(warnings, W)
  PROVE  /\ Holds(failed', F) /\ failed' = failed
         /\ Holds(warnings', W) /\ warnings' \in Seq(Notes)
<1>1. failed' = failed /\ warnings' = warnings \o <<>>
  BY DEF Hook
<1>2. warnings' = warnings
  BY <1>1, ConcatEmptySeq DEF Typed
<1> QED
  BY <1>1, <1>2 DEF Typed

LEMMA HookHeard ==
  ASSUME Shape, Typed, NEW list, NEW F, NEW W, NEW w \in Notes, w \notin W,
         Hook(list, FALSE), list.outer = <<w>>,
         Holds(failed, F), Holds(warnings, W)
  PROVE  /\ Holds(failed', F) /\ failed' = failed
         /\ Holds(warnings', W \cup {w}) /\ warnings' \in Seq(Notes)
<1>1. failed' = failed /\ warnings' = warnings \o <<w>>
  BY DEF Hook
<1>2. warnings' = Append(warnings, w)
  BY <1>1, AppendIsConcat DEF Typed
<1>3. Holds(warnings', W \cup {w}) /\ warnings' \in Seq(Notes)
  BY <1>2, HoldsOneMore DEF Typed
<1> QED
  BY <1>1, <1>3

\* The list of the option is the one the hook leaves if it raises, and
\* otherwise reset; others stay as they are.
LEMMA HookLists ==
  ASSUME Shape, Typed, NEW list \in ListRecords, NEW raises \in BOOLEAN, Hook(list, raises)
  PROVE  /\ lists' \in [Keys -> ListRecords]
         /\ \A i \in Places : i # at => lists'[Key(i)] = lists[Key(i)]
         /\ raises => lists'[Key(at)] = list
         /\ ~raises => /\ lists'[Key(at)].outer = <<>>
                       /\ lists'[Key(at)].same <=> schema[at].wrap # "list"
<1>1. /\ Key(at) \in Keys /\ Current.key = Key(at) /\ Current = schema[at]
      /\ \A i \in Places : i # at => Key(i) # Key(at) /\ Key(i) \in Keys
      /\ lists \in [Keys -> ListRecords]
  BY OptionsApart DEF Typed
<1>2. Reset(Current, list) \in ListRecords
  <2>1. <<>> \in Seq(Notes)
    OBVIOUS
  <2>2. Fresh \in ListRecords
    BY <2>1 DEF Fresh, ListRecords
  <2>3. [list EXCEPT !.outer = <<>>, !.same = FALSE] \in ListRecords
    BY <2>1 DEF ListRecords
  <2> QED
    BY <2>2, <2>3 DEF Reset
<1>3. PICK l \in ListRecords :
        /\ lists' = [lists EXCEPT ![Key(at)] = l]
        /\ raises => l = list
        /\ ~raises => l = Reset(Current, list)
  BY <1>1, <1>2 DEF Hook
<1>4. /\ lists' \in [Keys -> ListRecords] /\ lists'[Key(at)] = l
      /\ \A i \in Places : i # at => lists'[Key(i)] = lists[Key(i)]
  BY <1>1, <1>3
<1>5. Reset(Current, list).outer = <<>>
  BY DEF Reset, Fresh, ListRecords
<1>6. Reset(Current, list).same <=> schema[at].wrap # "list"
  BY <1>1 DEF Reset, Fresh, ListRecords
<1> QED
  BY <1>3, <1>4, <1>5, <1>6

\* A warning, where the list is ready for it.
LEMMA AddHeard ==
  ASSUME NEW list \in ListRecords, NEW w \in Notes, list.outer = <<>>
  PROVE  /\ Add(list, w) \in ListRecords /\ Add(list, w).same = list.same
         /\ Add(list, w).outer = IF list.same THEN <<w>> ELSE <<>>
<1>1. /\ list.inner \in Seq(Notes) /\ list.outer \in Seq(Notes) /\ list.same \in BOOLEAN
      /\ DOMAIN list = {"outer", "inner", "same"}
  BY DEF ListRecords
<1>2. Append(list.inner, w) \in Seq(Notes) /\ Append(list.outer, w) \in Seq(Notes)
  BY <1>1, AppendProperties
<1>3. Append(list.outer, w) = <<w>>
  OBVIOUS
<1>4. CASE list.same
  <2>1. Add(list, w) = [list EXCEPT !.inner = Append(list.inner, w), !.outer = <<w>>]
    BY <1>3, <1>4 DEF Add
  <2>2. <<w>> \in Seq(Notes)
    OBVIOUS
  <2> QED
    BY <1>2, <1>4, <2>1, <2>2 DEF ListRecords
<1>5. CASE ~list.same
  <2>1. Add(list, w) = [list EXCEPT !.inner = Append(list.inner, w), !.outer = list.outer]
    BY <1>5 DEF Add
  <2> QED
    BY <1>1, <1>2, <1>5, <2>1 DEF ListRecords
<1> QED
  BY <1>4, <1>5

\* The notes of this schema.
LEMMA NotesTyped ==
  ASSUME Shape, Typed, NEW pass \in Passes
  PROVE  /\ \A i \in Places : Warning(Key(i), pass) \in Notes
         /\ Warning("unknown", pass) \in Notes
BY OptionsApart DEF Warning, Notes, Typed

-----------------------------------------------------------------------------
(* Values.                                                                 *)

\* The first pass moves what it is at, and nothing else.
LEMMA MovedOneMore ==
  ASSUME Shape, Typed, NEW n \in Places, MovedTo(n), at = n, value' = Moved(schema[n]),
         UNCHANGED userVars
  PROVE  MovedTo(n + 1)'
<1>1. \A j \in Places : j < n + 1 <=> j < n \/ j = n
  BY OptionsApart DEF Places
<1>2. /\ Places' = Places /\ \A i : Key(i)' = Key(i)
      /\ \A i : Mover(i)' <=> Mover(i)
      /\ \A i, j : Heir(i, j)' <=> Heir(i, j)
      /\ \A k : Asked(k)' = Asked(k)
  <2>1. \A i : Mover(i)' <=> Mover(i)
    BY DEF Mover, userVars
  <2> QED
    BY <2>1, AskedTheSame DEF Heir, userVars
<1>3. DOMAIN value = Keys
  BY DEF Shape
<1> SUFFICES ASSUME NEW j \in Places
             PROVE  IF Mover(j) THEN value'[Key(j)] = IF j < n + 1 THEN "unset" ELSE Asked(Key(j))
                    ELSE /\ \A i \in Places : i < n + 1 /\ Heir(i, j) /\ Asked(Key(i)) # "unset"
                                                => value'[Key(j)] = Asked(Key(i))
                         /\ (\A i \in Places : i < n + 1 /\ Heir(i, j) => Asked(Key(i)) = "unset")
                              => value'[Key(j)] = Asked(Key(j))
  BY <1>2 DEF MovedTo
<1>4. IF Mover(j) THEN value[Key(j)] = IF j < n THEN "unset" ELSE Asked(Key(j))
      ELSE /\ \A i \in Places : i < n /\ Heir(i, j) /\ Asked(Key(i)) # "unset"
                                  => value[Key(j)] = Asked(Key(i))
           /\ (\A i \in Places : i < n /\ Heir(i, j) => Asked(Key(i)) = "unset")
                => value[Key(j)] = Asked(Key(j))
  BY DEF MovedTo
<1>5. Key(j) \in Keys /\ Key(n) \in Keys /\ (j # n => Key(j) # Key(n))
  BY OptionsApart
<1>6. Mover(n) => value[Key(n)] = Asked(Key(n))
  BY OptionsApart DEF MovedTo, Places
<1>7. value' = IF Mover(n) /\ value[Key(n)] # "unset"
               THEN [value EXCEPT ![schema[n].to] = value[Key(n)], ![Key(n)] = "unset"]
               ELSE value
  BY DEF Moved, Mover, Key
<1>8. CASE Mover(j)
  <2>1. ~Heir(n, j)
    BY <1>8, HeirsApart DEF Mover
  <2>2. Mover(n) => schema[n].to # Key(j) /\ schema[n].to # Key(n)
    <3>1. ~Heir(n, n)
      BY HeirsApart DEF Heir, Mover
    <3> QED
      BY <2>1, <3>1 DEF Heir
  <2>3. j # n => value'[Key(j)] = value[Key(j)]
    BY <1>3, <1>5, <1>7, <2>2
  <2>4. j = n => value'[Key(j)] = "unset"
    BY <1>3, <1>5, <1>7, <1>8, <2>2
  <2> QED
    BY <1>1, <1>4, <1>8, <2>3, <2>4
<1>9. CASE ~Mover(j) /\ Heir(n, j)
  <2>1. Mover(n) /\ schema[n].to = Key(j) /\ n # j
    BY <1>9 DEF Heir
  <2>2. \A i \in Places : Heir(i, j) => i = n
    BY <1>9, HeirsApart
  <2>3. CASE Asked(Key(n)) # "unset"
    <3>1. value'[Key(j)] = Asked(Key(n))
      BY <1>3, <1>5, <1>6, <1>7, <2>1, <2>3
    <3> QED
      BY <1>1, <1>9, <2>2, <2>3, <3>1
  <2>4. CASE Asked(Key(n)) = "unset"
    <3>1. value' = value
      BY <1>6, <1>7, <2>1, <2>4
    <3>2. \A i \in Places : ~(i < n /\ Heir(i, j))
      BY <2>2, OptionsApart DEF Places
    <3>3. value[Key(j)] = Asked(Key(j))
      BY <1>4, <1>9, <3>2
    <3> QED
      BY <1>9, <2>2, <2>4, <3>1, <3>3
  <2> QED
    BY <2>3, <2>4
<1>10. CASE ~Mover(j) /\ ~Heir(n, j)
  <2>1. value'[Key(j)] = value[Key(j)]
    BY <1>3, <1>5, <1>7, <1>10 DEF Heir
  <2> QED
    BY <1>1, <1>4, <1>10, <2>1
<1> QED
  BY <1>8, <1>9, <1>10

\* When it is through, every option has what is wanted of it.
LEMMA AllMoved ==
  Shape /\ Typed /\ MovedTo(Len(schema) + 1) => \A j \in Places : AsWanted(j)
<1> SUFFICES ASSUME Shape, Typed, MovedTo(Len(schema) + 1), NEW j \in Places PROVE AsWanted(j)
  OBVIOUS
<1>1. \A i \in Places : i < Len(schema) + 1
  BY OptionsApart DEF Places
<1>2. Wanted(schema[j]) = IF Mover(j) THEN "unset"
                          ELSE IF Heirs(Key(j)) # {} THEN Asked(OneOf(Heirs(Key(j))).key)
                          ELSE Asked(Key(j))
  BY DEF Wanted, OneOf, Mover, Key
<1>3. CASE Mover(j)
  BY <1>1, <1>2, <1>3 DEF MovedTo, AsWanted
<1>4. CASE ~Mover(j) /\ Heirs(Key(j)) # {}
  <2>1. OneOf(Heirs(Key(j))) \in Heirs(Key(j))
    BY <1>4 DEF OneOf
  <2> DEFINE d == OneOf(Heirs(Key(j)))
  <2>2. d \in ToSet(schema) /\ d.wrap = "deprecated" /\ d.to = Key(j) /\ Asked(d.key) # "unset"
    BY <2>1 DEF Heirs
  <2>3. PICK i \in DOMAIN schema : d = schema[i]
    BY <2>2 DEF ToSet
  <2>4. i \in Places /\ Asked(Key(i)) # "unset"
    BY <2>2, <2>3, OptionsApart DEF Key
  <2>5. Heir(i, j)
    BY <2>2, <2>3, OptionsApart DEF Heir, Mover
  <2>6. value[Key(j)] = Asked(Key(i))
    BY <1>1, <1>4, <2>4, <2>5 DEF MovedTo
  <2> QED
    BY <1>2, <1>4, <2>3, <2>6 DEF AsWanted, Key
<1>5. CASE ~Mover(j) /\ Heirs(Key(j)) = {}
  <2>1. \A i \in Places : Heir(i, j) => Asked(Key(i)) = "unset"
    BY <1>5, OptionsApart DEF Heirs, Heir, Mover, ToSet, Key
  <2>2. value[Key(j)] = Asked(Key(j))
    BY <1>1, <1>5, <2>1 DEF MovedTo
  <2> QED
    BY <1>2, <1>5, <2>2 DEF AsWanted
<1> QED
  BY <1>3, <1>4, <1>5

-----------------------------------------------------------------------------
(* The passes.                                                             *)

LoadInv == ConfigInv /\ Typed /\ ValueInv /\ ListsInv /\ ReportInv

\* With what the pass is at.
Upto(J) == Behind(J) \cup (J \cap {at})

LEMMA UptoOne ==
  ASSUME Shape, Typed, NEW J \in SUBSET Places
  PROVE  /\ at \notin Behind(J) /\ Behind(J) \in SUBSET Places
         /\ at \in J => Upto(J) = Behind(J) \cup {at}
         /\ at \notin J => Upto(J) = Behind(J)
BY OptionsApart DEF Behind, Upto, Places

LEMMA KeyUpto ==
  ASSUME Shape, Typed, NEW J \in SUBSET Places
  PROVE  /\ Key(at) \notin KeysOf(schema, Behind(J))
         /\ at \in J => KeysOf(schema, Upto(J)) = KeysOf(schema, Behind(J)) \cup {Key(at)}
<1>1. at \in Places
  BY OptionsApart
<1>2. at \notin Behind(J) /\ Behind(J) \in SUBSET Places
  BY UptoOne
<1>3. /\ KeysOf(schema, Behind(J) \cup {at}) = KeysOf(schema, Behind(J)) \cup {Key(at)}
      /\ Key(at) \notin KeysOf(schema, Behind(J))
  BY <1>1, <1>2, OneKeyMore
<1> QED
  BY <1>3, UptoOne

LEMMA NoteUpto ==
  ASSUME Shape, Typed, NEW J \in SUBSET Places, NEW pass
  PROVE  /\ Warning(Key(at), pass) \notin NotesOf(schema, Behind(J), pass, loads)
         /\ at \in J => NotesOf(schema, Upto(J), pass, loads) =
                          NotesOf(schema, Behind(J), pass, loads) \cup {Warning(Key(at), pass)}
<1>1. at \in Places
  BY OptionsApart
<1>2. Warning(Key(at), pass) = [key |-> Key(at), pass |-> pass, load |-> loads]
  BY DEF Warning
<1>3. at \notin Behind(J) /\ Behind(J) \in SUBSET Places
  BY UptoOne
<1>4. /\ NotesOf(schema, Behind(J) \cup {at}, pass, loads) =
           NotesOf(schema, Behind(J), pass, loads) \cup {[key |-> Key(at), pass |-> pass, load |-> loads]}
      /\ [key |-> Key(at), pass |-> pass, load |-> loads] \notin NotesOf(schema, Behind(J), pass, loads)
  BY <1>1, <1>3, OneKeyMore
<1> QED
  BY <1>2, <1>4, UptoOne

LEMMA PassGoesOn ==
  ASSUME Shape, Typed, NEW next, Advance(next)
  PROVE  \/ /\ at' = at + 1 /\ phase' = phase
            /\ \A J : J \cap (1..(at' - 1)) = Upto(J)
         \/ /\ at' = 1 /\ phase' = next
            /\ \A J \in SUBSET Places : J \cap (1..(at' - 1)) = {} /\ Upto(J) = J
<1>1. at \in 1..Len(schema) /\ Len(schema) \in Nat
  BY DEF Shape
<1>2. CASE at < Len(schema)
  <2>1. at' = at + 1 /\ phase' = phase /\ at \in Nat \ {0}
    BY <1>1, <1>2 DEF Advance
  <2>2. \A J : J \cap (1..((at + 1) - 1)) = Upto(J)
    BY <2>1, BehindNext DEF Upto, Behind
  <2> QED
    BY <2>1, <2>2
<1>3. CASE ~(at < Len(schema))
  <2>1. at' = 1 /\ phase' = next
    BY <1>3 DEF Advance
  <2>2. 1..(1 - 1) = {}
    OBVIOUS
  <2>3. Places = (1..(at - 1)) \cup {at}
    BY <1>1, <1>3 DEF Places
  <2> QED
    BY <2>1, <2>2, <2>3 DEF Upto, Behind
<1> QED
  BY <1>2, <1>3

LEMMA NoneOfNone ==
  ASSUME NEW s, NEW pass, NEW load
  PROVE  KeysOf(s, {}) = {} /\ NotesOf(s, {}, pass, load) = {}
BY DEF KeysOf, NotesOf

\* A removed option that is set is an error, a deprecated one a warning.
LEMMA PreLooks ==
  ASSUME LoadInv, PreValidate
  PROVE  /\ Holds(failed', KeysOf(schema, Upto(Removed)))
         /\ Holds(warnings', NotesOf(schema, Upto(Old), "pre", loads))
         /\ warnings' \in Seq(Notes) /\ lists' \in [Keys -> ListRecords]
         /\ \A i \in Places : i # at => lists'[Key(i)] = lists[Key(i)]
         /\ lists'[Key(at)].outer = <<>> /\ (lists'[Key(at)].same <=> schema[at].wrap # "list")
<1> DEFINE o == schema[at]
           set == value[Key(at)] # "unset"
           old == o.wrap = "deprecated" /\ set
           list == IF old THEN Add(lists[Key(at)], Warning(Key(at), "pre")) ELSE lists[Key(at)]
           gone == o.wrap = "removed" /\ set
<1>0. /\ Shape /\ Typed /\ ValueInv /\ ListsInv /\ ReportInv /\ phase = "pre"
      /\ at \in Places /\ Key(at) \in Keys
  BY OptionsApart DEF LoadInv, ConfigInv, PreValidate
<1>1. Hook(list, gone) /\ UNCHANGED userVars
  BY <1>0, OptionsApart DEF PreValidate
<1>2. o.wrap \in {"removed", "deprecated"} => value[Key(at)] = Asked(Key(at))
  <2>1. \A i \in Places : o.wrap \in {"removed", "deprecated"} => ~Heir(i, at)
    BY <1>0, HeirsApart
  <2> QED
    BY <1>0, <2>1, OptionsApart DEF ValueInv, MovedTo, Places
<1>3. (gone <=> at \in Removed) /\ (old <=> at \in Old)
  BY <1>0, <1>2 DEF Removed, Old
<1>4. lists[Key(at)] \in ListRecords /\ lists[Key(at)].outer = <<>>
      /\ (o.wrap # "list" => lists[Key(at)].same)
  BY <1>0 DEF Typed, ListsInv, Ready
<1>5. /\ list \in ListRecords /\ list.same = lists[Key(at)].same
      /\ list.outer = IF old THEN <<Warning(Key(at), "pre")>> ELSE <<>>
  BY <1>0, <1>4, AddHeard, NotesTyped DEF Passes
<1>6. Removed \in SUBSET Places /\ Old \in SUBSET Places
      /\ ~(gone /\ old) /\ gone \in BOOLEAN
  BY DEF Removed, Old
<1>7. /\ Holds(failed, KeysOf(schema, Behind(Removed)))
      /\ Holds(warnings, NotesOf(schema, Behind(Old), "pre", loads))
  BY <1>0 DEF ReportInv
<1>8. /\ Key(at) \notin KeysOf(schema, Behind(Removed))
      /\ Warning(Key(at), "pre") \notin NotesOf(schema, Behind(Old), "pre", loads)
      /\ at \in Removed => KeysOf(schema, Upto(Removed)) = KeysOf(schema, Behind(Removed)) \cup {Key(at)}
      /\ at \in Old => NotesOf(schema, Upto(Old), "pre", loads) =
                         NotesOf(schema, Behind(Old), "pre", loads) \cup {Warning(Key(at), "pre")}
  BY <1>0, <1>6, KeyUpto, NoteUpto
<1>9. /\ at \notin Removed => Upto(Removed) = Behind(Removed)
      /\ at \notin Old => Upto(Old) = Behind(Old)
  BY <1>0, <1>6, UptoOne
<1>10. /\ lists' \in [Keys -> ListRecords]
       /\ \A i \in Places : i # at => lists'[Key(i)] = lists[Key(i)]
       /\ gone => lists'[Key(at)] = list
       /\ ~gone => lists'[Key(at)].outer = <<>> /\ (lists'[Key(at)].same <=> o.wrap # "list")
  BY <1>0, <1>1, <1>5, HookLists
<1>11. lists'[Key(at)].outer = <<>> /\ (lists'[Key(at)].same <=> o.wrap # "list")
  <2>1. CASE gone
    BY <1>4, <1>5, <1>6, <1>10, <2>1
  <2>2. CASE ~gone
    BY <1>10, <2>2
  <2> QED
    BY <2>1, <2>2
<1> HIDE DEF o, list, gone, old
<1>12. CASE gone
  <2>1. Hook(list, TRUE) /\ at \in Removed /\ at \notin Old
    BY <1>1, <1>3, <1>6, <1>12
  <2>2. /\ Holds(failed', KeysOf(schema, Behind(Removed)) \cup {Key(at)})
        /\ Holds(warnings', NotesOf(schema, Behind(Old), "pre", loads)) /\ warnings' \in Seq(Notes)
    BY <1>0, <1>7, <1>8, <2>1, HookRaised
  <2> QED
    BY <1>8, <1>9, <1>10, <1>11, <2>1, <2>2 DEF o
<1>13. CASE old
  <2>1. Hook(list, FALSE) /\ at \notin Removed /\ at \in Old
    BY <1>1, <1>3, <1>6, <1>13
  <2>2. Warning(Key(at), "pre") \in Notes
    BY <1>0, NotesTyped DEF Passes
  <2>3. /\ Holds(failed', KeysOf(schema, Behind(Removed)))
        /\ Holds(warnings', NotesOf(schema, Behind(Old), "pre", loads) \cup {Warning(Key(at), "pre")})
        /\ warnings' \in Seq(Notes)
    BY <1>0, <1>5, <1>7, <1>8, <1>13, <2>1, <2>2, HookHeard
  <2> QED
    BY <1>8, <1>9, <1>10, <1>11, <2>1, <2>3 DEF o
<1>14. CASE ~gone /\ ~old
  <2>1. Hook(list, FALSE) /\ at \notin Removed /\ at \notin Old /\ list.outer = <<>>
    BY <1>1, <1>3, <1>5, <1>6, <1>14
  <2>2. /\ Holds(failed', KeysOf(schema, Behind(Removed)))
        /\ Holds(warnings', NotesOf(schema, Behind(Old), "pre", loads)) /\ warnings' \in Seq(Notes)
    BY <1>0, <1>7, <2>1, HookSilent
  <2> QED
    BY <1>9, <1>10, <1>11, <2>1, <2>2 DEF o
<1> QED
  BY <1>12, <1>13, <1>14

LEMMA TypedStays ==
  ASSUME Typed, UNCHANGED userVars, warnings' \in Seq(Notes), lists' \in [Keys -> ListRecords]
  PROVE  Typed'
<1>1. /\ schema' = schema /\ loads' = loads /\ given' = given /\ user' = user
      /\ Places' = Places /\ Keys' = Keys /\ Notes' = Notes /\ ListRecords' = ListRecords
      /\ \A i : Key(i)' = Key(i)
  BY AskedTheSame DEF userVars
<1>2. \A i \in Places : schema'[i].type = "any" => user'[Key(i)'] \in {"unset", "good"}
  BY <1>1 DEF Typed
<1> QED
  BY <1>1, <1>2 DEF Typed

\* Lists that are ready stay so, but for that of the option at hand.
LEMMA ListsStay ==
  ASSUME Shape, Typed, UNCHANGED userVars,
         \A i \in Places : i # at => lists'[Key(i)] = lists[Key(i)]
  PROVE  \A i \in Places : /\ i # at => (Ready(i)' <=> Ready(i)) /\ (Apart(i)' <=> Apart(i))
                           /\ lists'[Key(i)].outer = <<>> /\ (lists'[Key(i)].same <=> schema[i].wrap # "list")
                                => Ready(i)' /\ Apart(i)'
BY AskedTheSame DEF Ready, Apart, userVars

LEMMA PreReport ==
  ASSUME LoadInv, PreValidate, Shape'
  PROVE  Typed' /\ ValueInv' /\ ListsInv' /\ ReportInv'
<1>0. /\ Shape /\ Typed /\ ValueInv /\ ListsInv /\ ReportInv /\ phase = "pre"
      /\ at \in Places /\ UNCHANGED userVars /\ value' = Moved(schema[at]) /\ Advance("run")
  BY OptionsApart DEF LoadInv, ConfigInv, PreValidate
<1>1. /\ Holds(failed', KeysOf(schema, Upto(Removed)))
      /\ Holds(warnings', NotesOf(schema, Upto(Old), "pre", loads))
      /\ warnings' \in Seq(Notes) /\ lists' \in [Keys -> ListRecords]
      /\ \A i \in Places : i # at => lists'[Key(i)] = lists[Key(i)]
      /\ lists'[Key(at)].outer = <<>> /\ (lists'[Key(at)].same <=> schema[at].wrap # "list")
  BY PreLooks
<1>2. Typed'
  BY <1>0, <1>1, TypedStays
<1>3. PICK n \in Places : n = at /\ MovedTo(n)
  BY <1>0 DEF ValueInv
<1>4. MovedTo(n + 1)'
  BY <1>0, <1>3, MovedOneMore
<1>5. /\ schema' = schema /\ loads' = loads /\ unknown' = unknown /\ Places' = Places
      /\ Removed' = Removed /\ Failing' = Failing /\ Old' = Old /\ Odd' = Odd
      /\ Removed \in SUBSET Places /\ Failing \in SUBSET Places
      /\ Old \in SUBSET Places /\ Odd \in SUBSET Places
  BY <1>0, AskedTheSame DEF userVars, Removed, Failing, Old, Odd
<1>6. \A i \in Places : /\ Ready(i)'
                        /\ i < at \/ i = at => Apart(i)'
  BY <1>0, <1>1, ListsStay DEF ListsInv
<1>7. CASE /\ at' = at + 1 /\ phase' = phase
           /\ \A J : J \cap (1..(at' - 1)) = Upto(J)
  <2>1. ValueInv'
    BY <1>0, <1>3, <1>4, <1>7 DEF ValueInv
  <2>2. \A i \in Places : i < at' => i < at \/ i = at
    BY <1>0, <1>7 DEF Places
  <2>3. ListsInv'
    BY <1>0, <1>5, <1>6, <1>7, <2>2 DEF ListsInv
  <2>4. ReportInv'
    BY <1>0, <1>1, <1>5, <1>7 DEF ReportInv, Behind
  <2> QED
    BY <1>2, <2>1, <2>3, <2>4
<1>8. CASE /\ at' = 1 /\ phase' = "run"
           /\ \A J \in SUBSET Places : J \cap (1..(at' - 1)) = {} /\ Upto(J) = J
  <2>1. n = Len(schema)
    BY <1>0, <1>3, <1>8, PassGoesOn, OptionsApart DEF Advance, Places
  <2>2. MovedTo(Len(schema) + 1)'
    BY <1>4, <1>5, <2>1
  <2>3. (\A j \in Places : AsWanted(j))'
    BY <1>2, <2>2, AllMoved, PTL
  <2>4. ValueInv'
    BY <1>8, <2>3 DEF ValueInv
  <2>5. \A i \in Places : Apart(i)'
    BY <1>3, <1>6, <2>1, OptionsApart, <1>0 DEF Places
  <2>6. ListsInv'
    BY <1>5, <1>6, <1>8, <2>5 DEF ListsInv
  <2>7. /\ Holds(failed', KeysOf(schema, Removed))
        /\ Holds(warnings', NotesOf(schema, Old, "pre", loads))
    BY <1>1, <1>5, <1>8
  <2>8. /\ Failing \cap (1..(at' - 1)) = {} /\ Odd \cap (1..(at' - 1)) = {}
        /\ NotesOf(schema, {}, "run", loads) = {}
    BY <1>5, <1>8, NoneOfNone
  <2>9. ReportInv'
    BY <1>5, <1>8, <2>7, <2>8 DEF ReportInv, Behind, PreNotes
  <2> QED
    BY <1>2, <2>4, <2>6, <2>9
<1> QED
  BY <1>0, <1>7, <1>8, PassGoesOn

\* What a hook makes of the value that is wanted.
LEMMA CapturedHeard ==
  ASSUME LoadInv, phase = "run", ~Fails(schema[at], value[Key(at)])
  PROVE  LET list == Captured(schema[at], value[Key(at)]) IN
           /\ list \in ListRecords
           /\ list.outer = IF at \in Odd THEN <<Warning(Key(at), "run")>> ELSE <<>>
<1> DEFINE o == schema[at]
           v == value[Key(at)]
           old == lists[Key(at)]
           w == Warning(Key(at), "run")
           list == Captured(o, v)
<1>0. /\ Shape /\ Typed /\ ValueInv /\ ListsInv /\ at \in Places /\ Key(at) \in Keys
  BY OptionsApart DEF LoadInv, ConfigInv
<1>1. o.key = Key(at) /\ v = Wanted(o) /\ v \notin {"bad", "worse"} /\ w \in Notes
  BY <1>0, NotesTyped DEF ValueInv, AsWanted, Fails, Key, Passes
<1>2. /\ old \in ListRecords /\ old.outer = <<>>
      /\ old.same <=> o.wrap # "list"
  BY <1>0 DEF Typed, ListsInv, Ready, Apart, Places
<1>3. at \in Odd <=> Heard(o) /\ v = "odd"
  BY <1>0, <1>1 DEF Odd
<1>4. <<w>> \in Seq(Notes) /\ <<>> \in Seq(Notes) /\ <<w>> # <<>> /\ Head(<<w>>) = w
  BY <1>1
<1>5. CASE v = "odd" /\ o.type = "sub"
  <2>1. list = Replace(old, <<w>>, o.wrap)
    BY <1>1, <1>5 DEF Captured, Warns
  <2>2. list.outer = IF o.wrap = "none" THEN <<w>> ELSE <<>>
    BY <1>2, <2>1 DEF Replace
  <2>3. list \in ListRecords
    BY <1>2, <1>4, <2>1 DEF Replace, ListRecords
  <2>4. at \in Odd <=> o.wrap = "none"
    BY <1>3, <1>5 DEF Heard
  <2> QED
    BY <2>2, <2>3, <2>4
<1>6. CASE v = "odd" /\ o.type # "sub"
  <2>1. list = Add(old, w)
    BY <1>1, <1>4, <1>6 DEF Captured, Warns
  <2>2. list \in ListRecords /\ list.outer = IF old.same THEN <<w>> ELSE <<>>
    BY <1>1, <1>2, <2>1, AddHeard
  <2>3. at \in Odd <=> old.same
    BY <1>2, <1>3, <1>6 DEF Heard
  <2> QED
    BY <2>2, <2>3
<1>7. CASE v # "odd"
  <2>1. at \notin Odd
    BY <1>3, <1>7
  <2>2. list = IF o.type = "sub" /\ v # "unset" THEN Replace(old, <<>>, o.wrap) ELSE old
    BY <1>1, <1>7 DEF Captured, Warns
  <2>3. list.outer = <<>> /\ list \in ListRecords
    BY <1>2, <1>4, <2>2 DEF Replace, ListRecords
  <2> QED
    BY <2>1, <2>3
<1> QED
  BY <1>5, <1>6, <1>7

\* A list of the option that raises stays a list, and apart.
LEMMA CapturedTyped ==
  ASSUME LoadInv, phase = "run"
  PROVE  LET list == Captured(schema[at], value[Key(at)]) IN
           /\ list \in ListRecords
           /\ schema[at].wrap = "list" => ~list.same
<1> DEFINE o == schema[at]
           v == value[Key(at)]
           old == lists[Key(at)]
           w == Warning(Key(at), "run")
           ws == IF Warns(v) THEN <<w>> ELSE <<>>
           list == Captured(o, v)
<1>0. /\ Shape /\ Typed /\ ListsInv /\ at \in Places /\ Key(at) \in Keys
  BY OptionsApart DEF LoadInv, ConfigInv
<1>1. o.key = Key(at) /\ w \in Notes
  BY <1>0, NotesTyped DEF Key, Passes
<1>2. /\ old \in ListRecords /\ old.outer = <<>>
      /\ o.wrap = "list" => ~old.same
  BY <1>0 DEF Typed, ListsInv, Ready, Apart, Places
<1>3. ws \in Seq(Notes) /\ (ws # <<>> => Head(ws) = w)
  BY <1>1
<1>4. list \in {Replace(old, ws, o.wrap), Add(old, w), old}
  BY <1>1, <1>3 DEF Captured
<1>5. Replace(old, ws, o.wrap) \in ListRecords /\ (o.wrap = "list" => ~Replace(old, ws, o.wrap).same)
  BY <1>2, <1>3 DEF Replace, ListRecords
<1>6. Add(old, w) \in ListRecords /\ Add(old, w).same = old.same
  BY <1>1, <1>2, AddHeard
<1> HIDE DEF list, old, w, ws
<1> QED
  BY <1>2, <1>4, <1>5, <1>6 DEF list

\* What is removed is not otherwise wrong.
LEMMA RemovedNotFailing ==
  ASSUME Shape, Typed
  PROVE  Removed \cap Failing = {}
<1> SUFFICES ASSUME NEW j \in Removed, j \in Failing PROVE FALSE
  OBVIOUS
<1> DEFINE o == schema[j]
<1>1. j \in Places /\ o.wrap = "removed" /\ o.type = "any" /\ Asked(Key(j)) # "unset"
  BY OptionsApart DEF Removed
<1>2. Heirs(Key(j)) = {}
  <2>1. \A i \in Places : ~Heir(i, j)
    BY <1>1, HeirsApart
  <2> QED
    BY <1>1, <2>1, OptionsApart DEF Heirs, Heir, Mover, ToSet, Key
<1>3. Wanted(o) = Asked(Key(j))
  BY <1>1, <1>2 DEF Wanted, Key
<1>4. Asked(Key(j)) \in {"good", "late"}
  BY <1>1, OptionsApart DEF Asked, Typed
<1> QED
  BY <1>1, <1>3, <1>4 DEF Failing, Fails

\* Every option's value is an error, a warning or neither.
LEMMA RunLooks ==
  ASSUME LoadInv, Validate
  PROVE  /\ Holds(failed', KeysOf(schema, Removed \cup Upto(Failing)))
         /\ Holds(warnings', PreNotes \cup NotesOf(schema, Upto(Odd), "run", loads))
         /\ warnings' \in Seq(Notes) /\ lists' \in [Keys -> ListRecords]
         /\ \A i \in Places : i # at => lists'[Key(i)] = lists[Key(i)]
         /\ schema[at].wrap = "list" => ~lists'[Key(at)].same
         /\ failed' = <<>> => /\ failed = <<>> /\ lists'[Key(at)].outer = <<>>
                              /\ lists'[Key(at)].same <=> schema[at].wrap # "list"
<1> DEFINE o == schema[at]
           v == value[Key(at)]
           w == Warning(Key(at), "run")
           list == Captured(o, v)
           bad == Fails(o, v)
           F == KeysOf(schema, Removed \cup Behind(Failing))
           W == PreNotes \cup NotesOf(schema, Behind(Odd), "run", loads)
<1>0. /\ Shape /\ Typed /\ ValueInv /\ ListsInv /\ ReportInv /\ phase = "run"
      /\ at \in Places /\ Key(at) \in Keys /\ bad \in BOOLEAN
  BY OptionsApart DEF LoadInv, ConfigInv, Validate, Fails
<1>1. Hook(list, bad)
  BY <1>0, OptionsApart DEF Validate
<1>2. v = Wanted(o)
  BY <1>0 DEF ValueInv, AsWanted
<1>3. (bad <=> at \in Failing) /\ (bad => at \notin Odd)
  BY <1>0, <1>2 DEF Failing, Odd, Fails
<1>4. list \in ListRecords /\ (o.wrap = "list" => ~list.same)
  BY <1>0, CapturedTyped
<1>5. ~bad => list.outer = IF at \in Odd THEN <<w>> ELSE <<>>
  BY <1>0, CapturedHeard
<1>6. Holds(failed, F) /\ Holds(warnings, W)
  BY <1>0 DEF ReportInv
<1>7. /\ lists' \in [Keys -> ListRecords]
      /\ \A i \in Places : i # at => lists'[Key(i)] = lists[Key(i)]
      /\ bad => lists'[Key(at)] = list
      /\ ~bad => lists'[Key(at)].outer = <<>> /\ (lists'[Key(at)].same <=> o.wrap # "list")
  BY <1>0, <1>1, <1>4, HookLists
<1>8. Failing \in SUBSET Places /\ Odd \in SUBSET Places /\ Removed \in SUBSET Places
  BY DEF Failing, Odd, Removed
<1>9. /\ at \notin Failing => Upto(Failing) = Behind(Failing)
      /\ at \notin Odd => Upto(Odd) = Behind(Odd)
  BY <1>0, <1>8, UptoOne
<1> HIDE DEF o, v, list, bad
<1>10. CASE bad
  <2>1. Hook(list, TRUE) /\ at \in Failing /\ at \notin Odd
    BY <1>0, <1>1, <1>3, <1>10
  <2>2. at \notin Removed \cup Behind(Failing) /\ Removed \cup Behind(Failing) \in SUBSET Places
    BY <1>0, <1>8, <2>1, UptoOne, RemovedNotFailing
  <2>3. (Removed \cup Behind(Failing)) \cup {at} = Removed \cup Upto(Failing)
    BY <1>0, <1>8, <2>1, UptoOne
  <2>4. Key(at) \notin F /\ KeysOf(schema, Removed \cup Upto(Failing)) = F \cup {Key(at)}
    <3> DEFINE J == Removed \cup Behind(Failing)
    <3> HIDE DEF J
    <3>1. J \in SUBSET Places /\ at \notin J
      BY <2>2 DEF J
    <3>2. /\ KeysOf(schema, J \cup {at}) = KeysOf(schema, J) \cup {Key(at)}
          /\ Key(at) \notin KeysOf(schema, J)
      BY <1>0, <3>1, OneKeyMore
    <3> QED
      BY <2>3, <3>2 DEF J
  <2> HIDE DEF F, W
  <2>5. /\ Holds(failed', F \cup {Key(at)}) /\ failed' # <<>>
        /\ Holds(warnings', W) /\ warnings' \in Seq(Notes)
    BY <1>0, <1>6, <2>1, <2>4, HookRaised
  <2> QED
    BY <1>4, <1>7, <1>9, <1>10, <2>1, <2>4, <2>5 DEF o, W
<1>11. CASE ~bad /\ at \in Odd
  <2>1. Hook(list, FALSE) /\ at \notin Failing /\ list.outer = <<w>>
    BY <1>0, <1>1, <1>3, <1>5, <1>11
  <2>2. /\ w \notin NotesOf(schema, Behind(Odd), "run", loads)
        /\ NotesOf(schema, Upto(Odd), "run", loads) = NotesOf(schema, Behind(Odd), "run", loads) \cup {w}
    BY <1>0, <1>8, <1>11, NoteUpto
  <2>3. w \notin PreNotes
    BY DEF PreNotes, NotesOf, Warning
  <2>4. w \in Notes
    BY <1>0, NotesTyped DEF Passes
  <2>5. w \notin W /\ PreNotes \cup NotesOf(schema, Upto(Odd), "run", loads) = W \cup {w}
    BY <2>2, <2>3
  <2> HIDE DEF w, F, W
  <2>6. /\ Holds(failed', F) /\ failed' = failed
        /\ Holds(warnings', W \cup {w}) /\ warnings' \in Seq(Notes)
    BY <1>0, <1>6, <2>1, <2>4, <2>5, HookHeard
  <2> QED
    BY <1>7, <1>9, <1>11, <2>1, <2>5, <2>6 DEF o, F
<1>12. CASE ~bad /\ at \notin Odd
  <2>1. Hook(list, FALSE) /\ at \notin Failing /\ list.outer = <<>>
    BY <1>0, <1>1, <1>3, <1>5, <1>12
  <2> HIDE DEF F, W
  <2>2. /\ Holds(failed', F) /\ failed' = failed
        /\ Holds(warnings', W) /\ warnings' \in Seq(Notes)
    BY <1>0, <1>6, <2>1, HookSilent
  <2> QED
    BY <1>7, <1>9, <1>12, <2>1, <2>2 DEF o, F, W
<1> QED
  BY <1>10, <1>11, <1>12

LEMMA RunReport ==
  ASSUME LoadInv, Validate
  PROVE  Typed' /\ ValueInv' /\ ListsInv' /\ ReportInv'
<1>0. /\ Shape /\ Typed /\ ValueInv /\ ListsInv /\ ReportInv /\ phase = "run"
      /\ at \in Places /\ UNCHANGED userVars /\ value' = value /\ Advance("keys")
  BY OptionsApart DEF LoadInv, ConfigInv, Validate
<1>1. /\ Holds(failed', KeysOf(schema, Removed \cup Upto(Failing)))
      /\ Holds(warnings', PreNotes \cup NotesOf(schema, Upto(Odd), "run", loads))
      /\ warnings' \in Seq(Notes) /\ lists' \in [Keys -> ListRecords]
      /\ \A i \in Places : i # at => lists'[Key(i)] = lists[Key(i)]
      /\ schema[at].wrap = "list" => ~lists'[Key(at)].same
      /\ failed' = <<>> => /\ failed = <<>> /\ lists'[Key(at)].outer = <<>>
                           /\ lists'[Key(at)].same <=> schema[at].wrap # "list"
  BY RunLooks
<1>2. Typed'
  BY <1>0, <1>1, TypedStays
<1>3. /\ schema' = schema /\ loads' = loads /\ unknown' = unknown /\ Places' = Places
      /\ Removed' = Removed /\ Failing' = Failing /\ Old' = Old /\ Odd' = Odd
      /\ Failing \in SUBSET Places /\ Odd \in SUBSET Places
  BY <1>0, AskedTheSame DEF userVars, Failing, Odd
<1>4. \A i \in Places : AsWanted(i)'
  BY <1>0, <1>3, AskedTheSame DEF ValueInv, AsWanted
<1>5. \A i \in Places : Apart(i)'
  <2>2. \A i \in Places : i # at => Apart(i)'
    BY <1>0, <1>1, ListsStay DEF ListsInv
  <2>3. \A i \in Places : i = at => Apart(i)'
    BY <1>0, <1>1, <1>3, AskedTheSame DEF Apart
  <2> QED
    BY <2>2, <2>3
<1>6. \A i \in Places : i # at /\ (i >= at \/ failed = <<>>) => Ready(i)'
  BY <1>0, <1>1, ListsStay DEF ListsInv
<1>7. failed' = <<>> => \A i \in Places : Ready(i)'
  <2> SUFFICES ASSUME failed' = <<>>, NEW i \in Places PROVE Ready(i)'
    OBVIOUS
  <2>1. CASE i = at
    BY <1>0, <1>1, <2>1, ListsStay
  <2>2. CASE i # at
    BY <1>1, <1>6, <2>2
  <2> QED
    BY <2>1, <2>2
<1>8. CASE /\ at' = at + 1 /\ phase' = phase
           /\ \A J : J \cap (1..(at' - 1)) = Upto(J)
  <2>1. ValueInv'
    BY <1>0, <1>3, <1>4, <1>8 DEF ValueInv
  <2>2. \A i \in Places : i >= at' => i >= at /\ i # at
    BY <1>0, <1>8 DEF Places
  <2>3. ListsInv'
    BY <1>0, <1>3, <1>5, <1>6, <1>7, <1>8, <2>2 DEF ListsInv
  <2>4. PreNotes' = PreNotes
    BY <1>3 DEF PreNotes, NotesOf
  <2>5. Behind(Failing)' = Upto(Failing) /\ Behind(Odd)' = Upto(Odd)
    BY <1>3, <1>8 DEF Behind
  <2>6. ReportInv'
    BY <1>0, <1>1, <1>3, <1>8, <2>4, <2>5 DEF ReportInv
  <2> QED
    BY <1>2, <2>1, <2>3, <2>6
<1>9. CASE /\ at' = 1 /\ phase' = "keys"
           /\ \A J \in SUBSET Places : J \cap (1..(at' - 1)) = {} /\ Upto(J) = J
  <2>1. ValueInv'
    BY <1>3, <1>4, <1>9 DEF ValueInv
  <2>2. ListsInv'
    BY <1>3, <1>7, <1>9 DEF ListsInv
  <2>3. Upto(Failing) = Failing /\ Upto(Odd) = Odd
    BY <1>3, <1>9
  <2>4. PreNotes' = PreNotes /\ RunNotes' = RunNotes /\ Wrong' = Wrong
    BY <1>3 DEF PreNotes, RunNotes, Wrong, NotesOf
  <2>5. ReportInv'
    BY <1>1, <1>3, <1>9, <2>3, <2>4 DEF ReportInv, RunNotes, Wrong
  <2> QED
    BY <1>2, <2>1, <2>2, <2>5
<1> QED
  BY <1>0, <1>8, <1>9, PassGoesOn

\* An unknown key is a warning.  The last pass begins where nothing is wrong.
LEMMA KeysReport ==
  ASSUME LoadInv, Unrecognised
  PROVE  Typed' /\ ValueInv' /\ ListsInv' /\ ReportInv'
<1> DEFINE w == Warning("unknown", "run")
           W == PreNotes \cup RunNotes
<1>0. /\ Shape /\ Typed /\ ValueInv /\ ListsInv /\ ReportInv /\ phase = "keys"
      /\ UNCHANGED userVars /\ UNCHANGED <<at, value, lists, failed>>
      /\ phase' = IF failed = <<>> THEN "post" ELSE "report"
      /\ warnings' = IF unknown THEN Append(warnings, w) ELSE warnings
  BY DEF LoadInv, ConfigInv, Unrecognised, AfterRun
<1>1. /\ schema' = schema /\ Places' = Places /\ unknown' = unknown /\ Said' = Said
      /\ Removed' = Removed /\ Failing' = Failing /\ BadDirs' = BadDirs /\ Late' = Late
      /\ \A i : Key(i)' = Key(i)
      /\ \A i \in Places : (AsWanted(i)' <=> AsWanted(i)) /\ (Ready(i)' <=> Ready(i))
  BY <1>0, AskedTheSame DEF userVars, AsWanted, Ready
<1>2. Holds(failed, KeysOf(schema, Wrong)) /\ Holds(warnings, W) /\ at = 1
  BY <1>0 DEF ReportInv, ValueInv
<1>3. w \in Notes /\ w \notin W
  <2>1. w \in Notes
    BY <1>0, NotesTyped DEF Passes
  <2>2. \A i \in Places : schema[i].key # "unknown"
    BY <1>0, OptionsApart DEF Key
  <2>3. Old \subseteq Places /\ Odd \subseteq Places
    BY DEF Old, Odd
  <2> QED
    BY <2>1, <2>2, <2>3 DEF PreNotes, RunNotes, NotesOf, Warning
<1>4. Holds(warnings', Said) /\ warnings' \in Seq(Notes)
  <2>1. Said = IF unknown THEN W \cup {w} ELSE W
    BY DEF Said
  <2> HIDE DEF w, W
  <2>2. CASE unknown
    <3>1. warnings' = Append(warnings, w) /\ warnings \in Seq(Notes)
      BY <1>0, <2>2 DEF Typed
    <3> QED
      BY <1>2, <1>3, <2>1, <2>2, <3>1, HoldsOneMore
  <2>3. CASE ~unknown
    BY <1>0, <1>2, <2>1, <2>3 DEF Typed
  <2> QED
    BY <2>2, <2>3
<1>5. failed = <<>> <=> Wrong = {}
  <2>1. failed = <<>> => KeysOf(schema, Wrong) = {}
    BY <1>2, HoldsNothing DEF Holds
  <2>2. KeysOf(schema, Wrong) = {} => Wrong = {}
    BY DEF KeysOf
  <2>3. Wrong = {} => failed = <<>>
    <3> SUFFICES ASSUME Wrong = {} PROVE failed = <<>>
      OBVIOUS
    <3>1. ToSet(failed) = {} /\ failed \in Seq(Keys)
      BY <1>0, <1>2, NoneOfNone DEF Holds, Shape
    <3>2. DOMAIN failed = {} /\ DOMAIN failed = 1..Len(failed) /\ Len(failed) \in Nat
      BY <3>1 DEF ToSet
    <3>3. Len(failed) = 0
      BY <3>2
    <3> QED
      BY <3>1, <3>3, EmptySeq
  <2> QED
    BY <2>1, <2>2, <2>3
<1>6. Typed'
  BY <1>0, <1>4, TypedStays DEF Typed
<1>7. ValueInv'
  BY <1>0, <1>1 DEF ValueInv
<1>8. ListsInv'
  BY <1>0, <1>1 DEF ListsInv
<1>9. ReportInv'
  <2>1. Wrong' = Wrong
    BY <1>1 DEF Wrong
  <2>2. CASE failed = <<>>
    <3>1. phase' = "post" /\ Wrong' = {} /\ at' = 1 /\ failed' = failed
      BY <1>0, <1>2, <1>5, <2>1, <2>2
    <3>2. Behind(BadDirs)' = {} /\ Behind(Late)' = {}
      BY <3>1 DEF Behind
    <3>3. KeysOf(schema', {}) = {} /\ NotesOf(schema', {}, "post", loads') = {}
      BY NoneOfNone
    <3>4. Holds(failed', {})
      BY <2>2, <3>1, HoldsNothing
    <3> QED
      BY <1>1, <1>4, <3>1, <3>2, <3>3, <3>4 DEF ReportInv
  <2>3. CASE failed # <<>>
    <3>1. phase' = "report" /\ Wrong' # {} /\ failed' = failed
      BY <1>0, <1>5, <2>1, <2>3
    <3>2. Holds(failed', KeysOf(schema', Wrong'))
      BY <1>1, <1>2, <2>1, <3>1
    <3>3. Exact'
      BY <1>1, <1>4, <3>1, <3>2 DEF Exact
    <3> QED
      BY <3>1, <3>3 DEF ReportInv
  <2> QED
    BY <2>2, <2>3
<1> QED
  BY <1>6, <1>7, <1>8, <1>9

\* What the last pass says of an option.
LEMMA PostLooks ==
  ASSUME LoadInv, PostValidate
  PROVE  /\ Holds(failed', KeysOf(schema, Upto(BadDirs)))
         /\ Holds(warnings', Said \cup NotesOf(schema, Upto(Late), "post", loads))
         /\ warnings' \in Seq(Notes) /\ lists' \in [Keys -> ListRecords]
         /\ \A i \in Places : i # at => lists'[Key(i)] = lists[Key(i)]
         /\ failed' = <<>> => /\ failed = <<>> /\ lists'[Key(at)].outer = <<>>
                              /\ lists'[Key(at)].same <=> schema[at].wrap # "list"
<1> DEFINE o == schema[at]
           w == Warning(Key(at), "post")
           late == UnsafeHost(o) \/ NoEffect(o)
           list == IF late THEN Add(lists[Key(at)], w) ELSE lists[Key(at)]
           bad == BadDirectory(o)
           F == KeysOf(schema, Behind(BadDirs))
           W == Said \cup NotesOf(schema, Behind(Late), "post", loads)
<1>0. /\ Shape /\ Typed /\ ValueInv /\ ListsInv /\ ReportInv /\ phase = "post"
      /\ at \in Places /\ Key(at) \in Keys /\ bad \in BOOLEAN /\ o.key = Key(at)
  BY OptionsApart DEF LoadInv, ConfigInv, PostValidate, BadDirectory, Key
<1>1. Hook(list, bad)
  BY <1>0, OptionsApart DEF PostValidate
<1>2. value[Key(at)] = Wanted(o) \/ o.type = "derived"
  BY <1>0 DEF ValueInv, AsWanted
<1>3. o.type = "template" => value["edit_uri"] = Wanted(Get("edit_uri"))
  <2> SUFFICES ASSUME o.type = "template" PROVE value["edit_uri"] = Wanted(Get("edit_uri"))
    OBVIOUS
  <2>1. PICK j \in Places : at < j /\ Key(j) = "edit_uri"
    BY <1>0, OptionsApart
  <2>2. AsWanted(j)
    BY <1>0, <2>1 DEF ValueInv, Places
  <2>3. schema[j] \in ToSet(schema) /\ schema[j].key = "edit_uri"
    BY <1>0, <2>1, OptionsApart DEF ToSet, Key
  <2>4. Get("edit_uri") \in ToSet(schema) /\ Get("edit_uri").key = "edit_uri"
    BY <2>3 DEF Get
  <2>5. Get("edit_uri") = schema[j]
    BY <1>0, <2>1, <2>4, OptionsApart DEF ToSet, Key
  <2> QED
    BY <2>1, <2>2, <2>5 DEF AsWanted
<1>4. (bad <=> at \in BadDirs) /\ (late <=> at \in Late) /\ ~(bad /\ late)
  BY <1>0, <1>2, <1>3 DEF BadDirs, Late, BadDirectory, UnsafeHost, NoEffect
<1>5. /\ lists[Key(at)] \in ListRecords /\ lists[Key(at)].outer = <<>>
      /\ late => lists[Key(at)].same
  <2>1. late => o.wrap # "list"
    BY <1>0, OptionsApart DEF UnsafeHost, NoEffect
  <2> QED
    BY <1>0, <2>1 DEF Typed, ListsInv, Ready, Places
<1>6. w \in Notes
  BY <1>0, NotesTyped DEF Passes
<1>7. list \in ListRecords /\ list.outer = IF late THEN <<w>> ELSE <<>>
  BY <1>5, <1>6, AddHeard
<1>8. Holds(failed, F) /\ Holds(warnings, W)
  BY <1>0 DEF ReportInv
<1>9. /\ lists' \in [Keys -> ListRecords]
      /\ \A i \in Places : i # at => lists'[Key(i)] = lists[Key(i)]
      /\ ~bad => lists'[Key(at)].outer = <<>> /\ (lists'[Key(at)].same <=> o.wrap # "list")
  BY <1>0, <1>1, <1>7, HookLists
<1>10. BadDirs \in SUBSET Places /\ Late \in SUBSET Places
  BY DEF BadDirs, Late
<1>11. /\ at \notin BadDirs => Upto(BadDirs) = Behind(BadDirs)
       /\ at \notin Late => Upto(Late) = Behind(Late)
  BY <1>0, <1>10, UptoOne
<1> HIDE DEF o, late, list, bad
<1>12. CASE bad
  <2>1. Hook(list, TRUE) /\ at \in BadDirs /\ at \notin Late
    BY <1>0, <1>1, <1>4, <1>12
  <2>2. Key(at) \notin F /\ KeysOf(schema, Upto(BadDirs)) = F \cup {Key(at)}
    BY <1>0, <1>10, <2>1, KeyUpto
  <2> HIDE DEF F, W
  <2>3. /\ Holds(failed', F \cup {Key(at)}) /\ failed' # <<>>
        /\ Holds(warnings', W) /\ warnings' \in Seq(Notes)
    BY <1>0, <1>8, <2>1, <2>2, HookRaised
  <2> QED
    BY <1>9, <1>11, <2>1, <2>2, <2>3 DEF W
<1>13. CASE late
  <2>1. Hook(list, FALSE) /\ at \notin BadDirs /\ at \in Late /\ list.outer = <<w>>
    BY <1>0, <1>1, <1>4, <1>7, <1>13
  <2>2. /\ w \notin NotesOf(schema, Behind(Late), "post", loads)
        /\ NotesOf(schema, Upto(Late), "post", loads) = NotesOf(schema, Behind(Late), "post", loads) \cup {w}
    BY <1>0, <1>10, <2>1, NoteUpto
  <2>3. w \notin Said
    BY DEF Said, PreNotes, RunNotes, NotesOf, Warning
  <2>4. w \notin W /\ Said \cup NotesOf(schema, Upto(Late), "post", loads) = W \cup {w}
    BY <2>2, <2>3
  <2> HIDE DEF w, F, W
  <2>5. /\ Holds(failed', F) /\ failed' = failed
        /\ Holds(warnings', W \cup {w}) /\ warnings' \in Seq(Notes)
    BY <1>0, <1>6, <1>8, <2>1, <2>4, HookHeard
  <2> QED
    BY <1>4, <1>9, <1>11, <1>13, <2>1, <2>4, <2>5 DEF o, F
<1>14. CASE ~bad /\ ~late
  <2>1. Hook(list, FALSE) /\ at \notin BadDirs /\ at \notin Late /\ list.outer = <<>>
    BY <1>0, <1>1, <1>4, <1>7, <1>14
  <2> HIDE DEF F, W
  <2>2. /\ Holds(failed', F) /\ failed' = failed
        /\ Holds(warnings', W) /\ warnings' \in Seq(Notes)
    BY <1>0, <1>8, <2>1, HookSilent
  <2> QED
    BY <1>9, <1>11, <1>14, <2>1, <2>2 DEF o, F, W
<1> QED
  BY <1>12, <1>13, <1>14

LEMMA PostReport ==
  ASSUME LoadInv, PostValidate
  PROVE  Typed' /\ ValueInv' /\ ListsInv' /\ ReportInv'
<1>0. /\ Shape /\ Typed /\ ValueInv /\ ListsInv /\ ReportInv /\ phase = "post"
      /\ at \in Places /\ UNCHANGED userVars /\ value' \in Derived(schema[at]) /\ Advance("report")
  BY OptionsApart DEF LoadInv, ConfigInv, PostValidate
<1>1. /\ Holds(failed', KeysOf(schema, Upto(BadDirs)))
      /\ Holds(warnings', Said \cup NotesOf(schema, Upto(Late), "post", loads))
      /\ warnings' \in Seq(Notes) /\ lists' \in [Keys -> ListRecords]
      /\ \A i \in Places : i # at => lists'[Key(i)] = lists[Key(i)]
      /\ failed' = <<>> => /\ failed = <<>> /\ lists'[Key(at)].outer = <<>>
                           /\ lists'[Key(at)].same <=> schema[at].wrap # "list"
  BY PostLooks
<1>2. Typed'
  BY <1>0, <1>1, TypedStays
<1>3. /\ schema' = schema /\ loads' = loads /\ unknown' = unknown /\ Places' = Places
      /\ Wrong' = Wrong /\ BadDirs' = BadDirs /\ Late' = Late /\ Said' = Said
      /\ BadDirs \in SUBSET Places /\ Late \in SUBSET Places
  BY <1>0, AskedTheSame DEF userVars, Wrong, BadDirs, Late
<1>4. \A i \in Places : i # at => (AsWanted(i)' <=> AsWanted(i))
  <2> SUFFICES ASSUME NEW i \in Places, i # at PROVE AsWanted(i)' <=> AsWanted(i)
    OBVIOUS
  <2>1. Key(i) \in Keys /\ Key(i) # Key(at) /\ DOMAIN value = Keys
    BY <1>0, OptionsApart DEF Shape
  <2>2. value'[Key(i)] = value[Key(i)]
    BY <1>0, <2>1 DEF Derived, Key
  <2> QED
    BY <1>0, <2>2, AskedTheSame DEF AsWanted, userVars
<1>5. schema[at].type # "derived" => (AsWanted(at) => \A i \in Places : i = at => AsWanted(i)')
  <2>1. schema[at].type # "derived" => value' = value
    BY <1>0 DEF Derived
  <2> QED
    BY <1>0, <2>1, AskedTheSame DEF AsWanted, userVars
<1>6. \A i \in Places : i # at /\ (i >= at \/ failed = <<>>) => Ready(i)'
  BY <1>0, <1>1, ListsStay DEF ListsInv
<1>7. failed' = <<>> => \A i \in Places : Ready(i)'
  <2> SUFFICES ASSUME failed' = <<>>, NEW i \in Places PROVE Ready(i)'
    OBVIOUS
  <2>1. CASE i = at
    BY <1>0, <1>1, <2>1, ListsStay
  <2>2. CASE i # at
    BY <1>1, <1>6, <2>2
  <2> QED
    BY <2>1, <2>2
<1>8. CASE /\ at' = at + 1 /\ phase' = phase
           /\ \A J : J \cap (1..(at' - 1)) = Upto(J)
  <2>1. \A i \in Places : /\ i >= at' => i >= at /\ i # at
                          /\ i < at \/ i = at => i < at'
    BY <1>0, <1>8 DEF Places
  <2>2. \A i \in Places : AsWanted(i)' \/ (schema[i].type = "derived" /\ i < at')
    <3> SUFFICES ASSUME NEW i \in Places PROVE AsWanted(i)' \/ (schema[i].type = "derived" /\ i < at')
      OBVIOUS
    <3>1. AsWanted(i) \/ (schema[i].type = "derived" /\ i < at)
      BY <1>0 DEF ValueInv
    <3>2. CASE i = at
      BY <1>0, <1>5, <2>1, <3>1, <3>2
    <3>3. CASE i # at
      BY <1>4, <2>1, <3>1, <3>3
    <3> QED
      BY <3>2, <3>3
  <2>3. ValueInv'
    BY <1>0, <1>3, <1>8, <2>2 DEF ValueInv
  <2>4. ListsInv'
    BY <1>0, <1>3, <1>6, <1>7, <1>8, <2>1 DEF ListsInv
  <2>5. Behind(BadDirs)' = Upto(BadDirs) /\ Behind(Late)' = Upto(Late)
    BY <1>3, <1>8 DEF Behind
  <2>6. Wrong = {}
    BY <1>0 DEF ReportInv
  <2>7. ReportInv'
    BY <1>0, <1>1, <1>3, <1>8, <2>5, <2>6 DEF ReportInv
  <2> QED
    BY <1>2, <2>3, <2>4, <2>7
<1>9. CASE /\ at' = 1 /\ phase' = "report"
           /\ \A J \in SUBSET Places : J \cap (1..(at' - 1)) = {} /\ Upto(J) = J
  <2>1. ValueInv'
    BY <1>9 DEF ValueInv
  <2>2. ListsInv'
    BY <1>3, <1>7, <1>9 DEF ListsInv
  <2>3. Upto(BadDirs) = BadDirs /\ Upto(Late) = Late /\ Wrong = {}
    BY <1>0, <1>3, <1>9 DEF ReportInv
  <2>4. Exact'
    BY <1>1, <1>3, <2>3 DEF Exact
  <2>5. ReportInv'
    BY <1>9, <2>4 DEF ReportInv
  <2> QED
    BY <1>2, <2>1, <2>2, <2>5
<1> QED
  BY <1>0, <1>8, <1>9, PassGoesOn

\* The end of a load, and one that raises at once.
LEMMA EndReport ==
  ASSUME LoadInv, Report \/ LoadRaises \/ UNCHANGED vars
  PROVE  Typed' /\ ValueInv' /\ ListsInv' /\ ReportInv'
<1>0. /\ Shape /\ Typed /\ ValueInv /\ ListsInv /\ ReportInv
      /\ UNCHANGED userVars /\ UNCHANGED <<at, value, lists, failed, warnings>>
      /\ \/ phase = "report" /\ phase' \in {"aborted", "loaded"} /\ (phase' = "loaded" => failed = <<>>)
         \/ phase' = "raised"
         \/ phase' = phase
  BY DEF LoadInv, ConfigInv, Report, LoadRaises, vars
<1>1. Typed'
  BY <1>0, TypedStays DEF Typed
<1>2. /\ schema' = schema /\ Places' = Places /\ unknown' = unknown /\ Said' = Said /\ loads' = loads
      /\ Removed' = Removed /\ Failing' = Failing /\ BadDirs' = BadDirs /\ Late' = Late
      /\ Old' = Old /\ Odd' = Odd
      /\ \A i \in Places : /\ AsWanted(i)' <=> AsWanted(i)
                           /\ Ready(i)' <=> Ready(i)
                           /\ Apart(i)' <=> Apart(i)
  BY <1>0, AskedTheSame DEF userVars, AsWanted, Ready, Apart
<1>3. Wrong' = Wrong /\ PreNotes' = PreNotes /\ RunNotes' = RunNotes
  BY <1>2 DEF Wrong, PreNotes, RunNotes, NotesOf
<1>4. Exact' <=> Exact
  BY <1>0, <1>2, <1>3 DEF Exact
<1>5. CASE phase' \in {"aborted", "loaded", "raised"} /\ phase # phase'
  <2>1. ValueInv'
    BY <1>5 DEF ValueInv
  <2>2. phase' = "loaded" => phase = "report" /\ failed = <<>>
    BY <1>0, <1>5
  <2>3. ListsInv'
    BY <1>0, <1>2, <1>5, <2>2 DEF ListsInv
  <2>4. phase' # "raised" => phase = "report"
    BY <1>0, <1>5
  <2>5. ReportInv'
    BY <1>0, <1>4, <1>5, <2>4 DEF ReportInv
  <2> QED
    BY <1>1, <2>1, <2>3, <2>5
<1>6. CASE phase' = phase
  <2>1. MovedTo(at)' <=> MovedTo(at)
    BY <1>0, <1>2, AskedTheSame DEF MovedTo, Mover, Heir
  <2>2. ValueInv'
    BY <1>0, <1>2, <1>6, <2>1 DEF ValueInv
  <2>3. ListsInv'
    BY <1>0, <1>2, <1>6 DEF ListsInv
  <2>4. /\ Behind(Removed)' = Behind(Removed) /\ Behind(Old)' = Behind(Old)
        /\ Behind(Failing)' = Behind(Failing) /\ Behind(Odd)' = Behind(Odd)
        /\ Behind(BadDirs)' = Behind(BadDirs) /\ Behind(Late)' = Behind(Late)
    BY <1>0, <1>2 DEF Behind
  <2>5. ReportInv'
    BY <1>0, <1>2, <1>3, <1>4, <1>6, <2>4 DEF ReportInv
  <2> QED
    BY <1>1, <2>2, <2>3, <2>5
<1> QED
  BY <1>0, <1>5, <1>6

LEMMA StartReport ==
  ASSUME LoadInv, NEW f \in FilesOf[schema], NEW u \in BOOLEAN, StartLoad(f, u)
  PROVE  Typed' /\ ValueInv' /\ ListsInv' /\ ReportInv'
<1>0. /\ Shape /\ Typed /\ ValueInv /\ ListsInv /\ ReportInv
      /\ phase = "loaded" /\ phase' = "pre" /\ at' = 1 /\ loads' = loads + 1
      /\ UNCHANGED <<schema, given, lists>> /\ user' = f /\ failed' = <<>> /\ warnings' = <<>>
      /\ value' = [k \in Keys |-> IF given[k] # "unset" THEN given[k] ELSE f[k]]
  BY DEF LoadInv, ConfigInv, StartLoad
<1>1. /\ Places' = Places /\ Keys' = Keys /\ Notes' = Notes /\ ListRecords' = ListRecords
      /\ \A i : Key(i)' = Key(i)
      /\ \A i : Mover(i)' <=> Mover(i)
      /\ \A i, j : Heir(i, j)' <=> Heir(i, j)
  <2>1. Places' = Places /\ Keys' = Keys /\ \A i : Key(i)' = Key(i)
    BY <1>0 DEF Places, Keys, Key
  <2>2. Notes' = Notes /\ ListRecords' = ListRecords
    BY <2>1 DEF Notes, ListRecords
  <2>3. \A i : Mover(i)' <=> Mover(i)
    BY <1>0 DEF Mover
  <2> QED
    BY <1>0, <2>1, <2>2, <2>3 DEF Heir
<1>2. f \in Files(ToSet(schema)) /\ WellFormed(schema)
  BY <1>0 DEF FilesOf, Typed
<1>3. \A i \in Places : f[Key(i)] \in Written(schema[i].type) \cup {"unset"}
  BY <1>0, <1>2, FilesTyped, OptionsApart DEF Key
<1>4. \A i \in Places : schema[i].type = "any" => f[Key(i)] \in {"unset", "good"}
  BY <1>3 DEF Written
<1>5. Typed'
  <2>1. loads + 1 \in Nat /\ <<>> \in Seq(Notes)
    BY <1>0 DEF Typed
  <2>2. \A i \in Places : schema'[i].type = "any" => user'[Key(i)'] \in {"unset", "good"}
    BY <1>0, <1>1, <1>4
  <2> QED
    BY <1>0, <1>1, <2>1, <2>2 DEF Typed
<1>6. MovedTo(1)'
  <2>1. \A j \in Places : Key(j) \in Keys /\ ~(j < 1)
    BY <1>0, OptionsApart DEF Places
  <2>2. \A j \in Places : value'[Key(j)] = Asked(Key(j))'
    BY <1>0, <1>1, <2>1 DEF Asked
  <2> QED
    BY <1>1, <2>1, <2>2 DEF MovedTo
<1>7. ValueInv'
  BY <1>0, <1>6 DEF ValueInv
<1>8. ListsInv'
  <2>1. \A i \in Places : Ready(i)' /\ ~(i < 1)
    BY <1>0, <1>1 DEF ListsInv, Ready, Places
  <2> QED
    BY <1>0, <1>1, <2>1 DEF ListsInv
<1>9. ReportInv'
  <2>1. Behind(Removed)' = {} /\ Behind(Old)' = {}
    BY <1>0 DEF Behind
  <2>2. KeysOf(schema', {}) = {} /\ NotesOf(schema', {}, "pre", loads') = {}
    BY NoneOfNone
  <2> QED
    BY <1>0, <2>1, <2>2, HoldsNothing DEF ReportInv
<1> QED
  BY <1>5, <1>7, <1>8, <1>9

LEMMA InitReport == Init => LoadInv
<1> SUFFICES ASSUME Init PROVE LoadInv
  OBVIOUS
<1>1. ConfigInv /\ Shape
  BY InitConfig DEF ConfigInv
<1>2. /\ schema \in {MkDocsConfig, PluginConfig} /\ WellFormed(schema)
      /\ phase = "loaded" /\ loads = 0 /\ warnings = <<>> /\ lists = [k \in Keys |-> Fresh]
      /\ user = [k \in Keys |-> "unset"]
  BY MkDocsWellFormed, OptionsAssumption DEF Init
<1>3. \A k \in Keys : given[k] \in {"unset", "good", "late"}
  BY DEF Init
<1>4. \A i \in Places : Key(i) \in Keys
  BY <1>1, KeyInKeys DEF Places
<1>5. Fresh \in ListRecords /\ Fresh.outer = <<>> /\ Fresh.same /\ <<>> \in Seq(Notes)
  <2>1. <<>> \in Seq(Notes)
    OBVIOUS
  <2> QED
    BY <2>1 DEF Fresh, ListRecords
<1>6. Typed
  BY <1>2, <1>3, <1>4, <1>5 DEF Typed
<1>7. ListsInv
  BY <1>2, <1>4, <1>5 DEF ListsInv, Ready
<1>8. ValueInv /\ ReportInv
  BY <1>2 DEF ValueInv, ReportInv
<1> QED
  BY <1>1, <1>6, <1>7, <1>8 DEF LoadInv

LEMMA NextReport == LoadInv /\ [Next]_vars => LoadInv'
<1> SUFFICES ASSUME LoadInv, [Next]_vars PROVE LoadInv'
  OBVIOUS
<1>1. ConfigInv' /\ Shape'
  BY NextConfig DEF LoadInv, ConfigInv
<1>2. Typed' /\ ValueInv' /\ ListsInv' /\ ReportInv'
  <2>1. CASE UNCHANGED vars
    BY <2>1, EndReport
  <2>2. ASSUME NEW f \in FilesOf[schema], NEW u \in BOOLEAN, StartLoad(f, u)
        PROVE  Typed' /\ ValueInv' /\ ListsInv' /\ ReportInv'
    BY <2>2, StartReport
  <2>3. CASE LoadRaises
    BY <2>3, EndReport
  <2>4. CASE PreValidate
    BY <1>1, <2>4, PreReport
  <2>5. CASE Validate
    BY <2>5, RunReport
  <2>6. CASE Unrecognised
    BY <2>6, KeysReport
  <2>7. CASE PostValidate
    BY <2>7, PostReport
  <2>8. CASE Report
    BY <2>8, EndReport
  <2> QED
    BY <2>1, <2>2, <2>3, <2>4, <2>5, <2>6, <2>7, <2>8 DEF Next
<1> QED
  BY <1>1, <1>2 DEF LoadInv

\* What is in the report, by options and by their places.
LEMMA ReportOfOptions ==
  ASSUME Shape, Typed
  PROVE  /\ KeysOf(schema, Wrong) = {o.key : o \in Mistakes} /\ (Wrong = {} <=> Mistakes = {})
         /\ KeysOf(schema, BadDirs) = {o.key : o \in LateMistakes}
         /\ Said = Hints /\ NotesOf(schema, Late, "post", loads) = LateHints
<1>1. ToSet(schema) = {schema[j] : j \in Places}
  BY OptionsApart DEF ToSet
<1>2. Mistakes = {schema[j] : j \in Wrong}
  BY <1>1 DEF Mistakes, Wrong, Removed, Failing, Key
<1>3. LateMistakes = {schema[j] : j \in BadDirs}
  BY <1>1 DEF LateMistakes, BadDirs
<1>4. PreNotes = {Warning(o.key, "pre") :
                    o \in {p \in ToSet(schema) : p.wrap = "deprecated" /\ Asked(p.key) # "unset"}}
  BY <1>1 DEF PreNotes, Old, NotesOf, Warning, Key
<1>5. RunNotes = {Warning(o.key, "run") :
                    o \in {p \in ToSet(schema) : Heard(p) /\ Wanted(p) = "odd"}}
  BY <1>1 DEF RunNotes, Odd, NotesOf, Warning
<1>6. NotesOf(schema, Late, "post", loads) = LateHints
  BY <1>1 DEF Late, NotesOf, Warning, LateHints
<1> QED
  BY <1>2, <1>3, <1>4, <1>5, <1>6 DEF KeysOf, Said, Hints

(* For every schema, whatever the file and the command line hold and       *)
(* however many loads the process has made before: the errors and warnings *)
(* that a load ends with are those of this load, each once, and all.       *)
THEOREM ReportsExact == Spec => []ReportIsExact
<1>1. LoadInv => ReportIsExact
  <2> SUFFICES ASSUME LoadInv, phase \in {"aborted", "loaded"}, loads > 0
               PROVE  /\ IsInjective(failed) /\ IsInjective(warnings)
                      /\ ToSet(failed) = {o.key : o \in IF Mistakes # {} THEN Mistakes ELSE LateMistakes}
                      /\ ToSet(warnings) = Hints \cup (IF Mistakes = {} THEN LateHints ELSE {})
    BY DEF ReportIsExact
  <2>1. Exact /\ Shape /\ Typed
    BY DEF LoadInv, ConfigInv, ReportInv
  <2> QED
    BY <2>1, ReportOfOptions DEF Exact, Holds
<1> QED
  BY <1>1, InitReport, NextReport, PTL DEF Spec
=============================================================================
