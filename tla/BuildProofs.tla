---------------------------- MODULE BuildProofs ----------------------------
(***************************************************************************)
(* Proofs about Build, for any files, edits and builds: what a build has   *)
(* read, indexed and written at each step of its loops.                    *)
(***************************************************************************)
EXTENDS Build, TLAPS

Steps == {"files", "populate", "static", "templates", "extras", "pages", "finish"}

TypeOK ==
  /\ now \in Nat /\ mtime \in [Files -> Nat] /\ ver \in [Files -> Nat]
  /\ exists \in [Files -> BOOLEAN]
  /\ out \in [Outputs -> [by : Sources \cup {Absent}, ver : Nat \cup {Torn}, at : Nat]]
  /\ phase \in Steps \cup {"idle"} /\ dirty \in BOOLEAN
  /\ files \subseteq Files /\ left \subseteq Sources
  /\ content \in [Docs -> Nat \cup {Unread}]
  /\ quiet \in BOOLEAN /\ settled \subseteq Files

(* A loop has left to do some of what it began with, and a build that has  *)
(* ended well is no longer running.                                        *)
LoopOrder ==
  /\ phase = "populate" => left \subseteq files \cap Docs
  /\ phase # "populate" => left \subseteq Work(phase)
  /\ outcome = "ok" => phase = "idle" /\ left = {}

(* Which of the loops that write a build is at, in the order of Rank.      *)
Loop == CASE phase = "static" -> 1
          [] phase = "templates" -> 2
          [] phase = "extras" -> 3
          [] phase = "pages" -> 4
          [] phase = "finish" \/ outcome = "ok" -> 5
          [] OTHER -> 0

(* A build runs, or the last one ended well and nothing happened since.    *)
Live == phase # "idle" \/ outcome = "ok"

(* The files of a build are those that exist, but for the edits since.     *)
FilesRead ==
  Live /\ phase # "files" => \A f \in Files :
    /\ exists[f] => f \in files
    /\ quiet /\ f \in files => exists[f]

(* The index of a clean build has the pages that were written so far.      *)
Indexed ==
  Live /\ ~dirty =>
    index = IF Loop >= 4 THEN {<<d, content[d]>> : d \in (files \cap Docs) \ left} ELSE {}

(* A build is through with a page, when it reads, or with a source, in the *)
(* nth of the loops that write.                                            *)
Populated(d) == Loop > 0 \/ (phase = "populate" /\ d \notin left)
Passed(s, n) == Loop > n \/ (Loop = n /\ s \notin left)

(* The last loop so far in which a clean build wrote the output of s, 0 if *)
(* it has not.                                                             *)
Level(s) ==
  CASE s \in (Docs \cap files) \ Empty /\ Passed(s, 4) -> 4
    [] s \in Templates \ Empty /\ Passed(s, 2) -> 2
    [] s \in Statics \cap files /\ Passed(s, 1) ->
         IF s \in Extras \ Empty /\ Passed(s, 3) THEN 3 ELSE 1
    [] OTHER -> 0

(* A clean build that no edit disturbs, until the next edit.               *)
Undisturbed == Live /\ quiet /\ ~dirty

CleanRead ==
  Undisturbed => \A d \in files \cap Docs : Populated(d) => content[d] = ver[d]

(* What is at an output was written by one of the sources that had the     *)
(* last say so far, in its current version.                                *)
CoveredAt(o) ==
  \/ out[o] = NoOutput /\ \A s \in Sources : Dest[s] = o => Level(s) = 0
  \/ \E s \in Sources : /\ Dest[s] = o /\ Level(s) > 0 /\ Current(s)
                        /\ \A r \in Sources : Dest[r] = o => Level(r) <= Level(s)

Covered == Undisturbed => \A o \in Outputs : CoveredAt(o)

(* No modification time is ahead of the clock, and an output tells from    *)
(* which of its own sources it was written.                                *)
Timely ==
  /\ \A f \in Files : mtime[f] <= now
  /\ \A o \in Outputs : /\ out[o].at <= now
                        /\ out[o].by # Absent => Dest[out[o].by] = o

(* What a build has read of a settled page is still what is there.         *)
ReadSettled ==
  phase # "idle" => \A d \in settled \cap Docs :
    content[d] # Unread => content[d] = ver[d]

(* The build is through with writing f.                                    *)
Written(f) == IF f \in Docs THEN Passed(f, 4) ELSE Passed(f, 1)

(* If the times say that the output of f is up to date it is so, and after *)
(* a build is through with f the output is up to date.                     *)
Tended(f) ==
  exists[f] /\ Sole(f) => /\ ~IsModified(f) => Current(f)
                          /\ Written(f) /\ f \notin Empty => Current(f)

SettledTended == \A f \in settled : Tended(f)

-----------------------------------------------------------------------------
\* A write keeps the types, whatever is written.
LEMMA WriteType ==
  ASSUME TypeOK, NEW s \in Sources, NEW version \in Nat,
         Write(s, version)
  PROVE  now' \in Nat /\ out' \in [Outputs -> [by : Sources \cup {Absent}, ver : Nat \cup {Torn}, at : Nat]]
<1>1. Dest[s] \in Outputs
  BY DestAssumption
<1> QED
  BY <1>1 DEF Write, TypeOK

LEMMA TypeStep == TypeOK /\ [Next]_vars => TypeOK'
<1> SUFFICES ASSUME TypeOK, [Next]_vars PROVE TypeOK'
  OBVIOUS
<1> USE DEF TypeOK, Steps, fileVars, buildVars, vars, Enter, Failed
<1>1. ASSUME NEW f \in Files, Edit(f) PROVE TypeOK'
  <2>1. now' \in Nat /\ mtime' \in [Files -> Nat] /\ ver' \in [Files -> Nat]
    <3>1. now' \in Nat
      BY <1>1 DEF Edit
    <3> QED
      BY <1>1, <3>1 DEF Edit
  <2> QED
    BY <1>1, <2>1 DEF Edit, Touched
<1>2. ASSUME NEW f \in Files, Delete(f) PROVE TypeOK'
  BY <1>2 DEF Delete, Touched
<1>3. ASSUME NEW isDirty \in BOOLEAN, Begin(isDirty) PROVE TypeOK'
  BY <1>3 DEF Begin, NoOutput
<1>4. CASE GetFiles
  BY <1>4 DEF GetFiles, Sources, Files
<1>5. ASSUME NEW d \in Docs, Populate(d) PROVE TypeOK'
  BY <1>5 DEF Populate, Files
<1>6. ASSUME NEW d \in Docs, SkipPage(d) PROVE TypeOK'
  BY <1>6 DEF SkipPage
<1>7. ASSUME NEW d \in Docs, BuildPage(d) PROVE TypeOK'
  BY <1>7, WriteType DEF BuildPage, Sources, Files
<1>8. ASSUME NEW d \in Docs, BuildUnreadPage(d) PROVE TypeOK'
  BY <1>8 DEF BuildUnreadPage
<1>9. ASSUME NEW s \in Statics, CopyStatic(s) PROVE TypeOK'
  BY <1>9, DestAssumption DEF CopyStatic, Sources, Files
<1>10. ASSUME NEW s \in Statics, BuildExtra(s) PROVE TypeOK'
  BY <1>10, WriteType DEF BuildExtra, Sources, Files
<1>11. ASSUME NEW t \in Templates, BuildTemplate(t) PROVE TypeOK'
  BY <1>11, WriteType DEF BuildTemplate, Sources
<1>12. CASE EndLoop
  <2>1. Follows[phase] \in Steps /\ Work(Follows[phase]) \subseteq Sources
    BY <1>12 DEF EndLoop, Follows, Work, Sources, Files
  <2> QED
    BY <1>12, <2>1 DEF EndLoop
<1>13. CASE Finish
  BY <1>13 DEF Finish
<1>14. CASE Raise
  BY <1>14 DEF Raise
<1>15. ASSUME NEW s \in Sources, Tear(s) PROVE TypeOK'
  BY <1>15, DestAssumption DEF Tear
<1>16. CASE UNCHANGED vars
  BY <1>16
<1> QED
  BY <1>1, <1>2, <1>3, <1>4, <1>5, <1>6, <1>7, <1>8, <1>9, <1>10, <1>11, <1>12, <1>13,
     <1>14, <1>15, <1>16 DEF Next

(* Every variable keeps its type.                                          *)
THEOREM BuildTypes == Spec => []TypeOK
<1>1. Init => TypeOK
  <2> SUFFICES ASSUME Init PROVE TypeOK
    OBVIOUS
  <2>1. /\ now \in Nat /\ mtime \in [Files -> Nat] /\ ver \in [Files -> Nat]
        /\ exists \in [Files -> BOOLEAN]
    BY DEF Init
  <2>2. out \in [Outputs -> [by : Sources \cup {Absent}, ver : Nat \cup {Torn}, at : Nat]]
    BY DEF Init, NoOutput
  <2>3. /\ phase \in Steps \cup {"idle"} /\ dirty \in BOOLEAN /\ files \subseteq Files
        /\ left \subseteq Sources /\ content \in [Docs -> Nat \cup {Unread}]
        /\ quiet \in BOOLEAN /\ settled \subseteq Files
    BY DEF Init, Steps
  <2> QED
    BY <2>1, <2>2, <2>3 DEF TypeOK
<1> QED
  BY <1>1, TypeStep, PTL DEF Spec

-----------------------------------------------------------------------------
LEMMA LoopStep == TypeOK /\ LoopOrder /\ [Next]_vars => LoopOrder'
<1> SUFFICES ASSUME TypeOK, LoopOrder, [Next]_vars PROVE LoopOrder'
  OBVIOUS
<1> USE DEF LoopOrder, fileVars, buildVars, vars
<1>1. ASSUME NEW f \in Files, Edit(f) \/ Delete(f) PROVE LoopOrder'
  BY <1>1 DEF Edit, Delete, Touched, Work
<1>2. ASSUME NEW isDirty \in BOOLEAN, Begin(isDirty) PROVE LoopOrder'
  BY <1>2 DEF Begin, Enter
<1>3. CASE GetFiles
  BY <1>3 DEF GetFiles, Enter
<1>4. ASSUME NEW d \in Docs, Populate(d) \/ SkipPage(d) \/ BuildPage(d) PROVE LoopOrder'
  BY <1>4 DEF Populate, SkipPage, BuildPage, Work
<1>5. ASSUME NEW d \in Docs, BuildUnreadPage(d) PROVE LoopOrder'
  BY <1>5 DEF BuildUnreadPage, Failed, Enter
<1>6. ASSUME NEW s \in Statics, CopyStatic(s) \/ BuildExtra(s) PROVE LoopOrder'
  BY <1>6 DEF CopyStatic, BuildExtra, Work
<1>7. ASSUME NEW t \in Templates, BuildTemplate(t) PROVE LoopOrder'
  BY <1>7 DEF BuildTemplate, Work
<1>8. CASE EndLoop
  <2>1. Follows[phase] # "populate" /\ files' = files
    BY <1>8 DEF EndLoop, Follows
  <2>3. phase' = Follows[phase] /\ left' = Work(Follows[phase]) /\ outcome # "ok" /\ outcome' = outcome
    BY <1>8 DEF EndLoop, Enter, Follows
  <2>4. Work(phase)' = left'
    BY <2>1, <2>3 DEF Work
  <2> QED
    BY <2>1, <2>3, <2>4
<1>9. CASE Finish \/ Raise
  BY <1>9 DEF Finish, Raise, Failed, Enter, Work
<1>10. ASSUME NEW s \in Sources, Tear(s) PROVE LoopOrder'
  BY <1>10 DEF Tear, Enter, Work
<1>11. CASE UNCHANGED vars
  BY <1>11 DEF Work
<1> QED
  BY <1>1, <1>2, <1>3, <1>4, <1>5, <1>6, <1>7, <1>8, <1>9, <1>10, <1>11 DEF Next

-----------------------------------------------------------------------------
LEMMA FilesStep == TypeOK /\ LoopOrder /\ FilesRead /\ [Next]_vars => FilesRead'
<1> SUFFICES ASSUME TypeOK, LoopOrder, FilesRead, [Next]_vars PROVE FilesRead'
  OBVIOUS
<1> USE DEF FilesRead, Live, fileVars, buildVars, vars
<1>1. ASSUME NEW f \in Files, Edit(f) PROVE FilesRead'
  BY <1>1 DEF Edit, Touched
<1>2. ASSUME NEW f \in Files, Delete(f) PROVE FilesRead'
  BY <1>2 DEF Delete, Touched, TypeOK
<1>3. ASSUME NEW isDirty \in BOOLEAN, Begin(isDirty) PROVE FilesRead'
  BY <1>3 DEF Begin, Enter
<1>4. CASE GetFiles
  BY <1>4 DEF GetFiles, Enter
<1>5. ASSUME NEW d \in Docs, Populate(d) \/ SkipPage(d) \/ BuildPage(d) PROVE FilesRead'
  BY <1>5 DEF Populate, SkipPage, BuildPage
<1>6. ASSUME NEW d \in Docs, BuildUnreadPage(d) PROVE FilesRead'
  BY <1>6 DEF BuildUnreadPage, Failed, Enter
<1>7. ASSUME NEW s \in Statics, CopyStatic(s) \/ BuildExtra(s) PROVE FilesRead'
  BY <1>7 DEF CopyStatic, BuildExtra
<1>8. ASSUME NEW t \in Templates, BuildTemplate(t) PROVE FilesRead'
  BY <1>8 DEF BuildTemplate
<1>9. CASE EndLoop
  BY <1>9 DEF EndLoop, Follows, Enter
<1>10. CASE Finish \/ Raise
  BY <1>10 DEF Finish, Raise, Failed, Enter
<1>11. ASSUME NEW s \in Sources, Tear(s) PROVE FilesRead'
  BY <1>11 DEF Tear, Enter
<1>12. CASE UNCHANGED vars
  BY <1>12
<1> QED
  BY <1>1, <1>2, <1>3, <1>4, <1>5, <1>6, <1>7, <1>8, <1>9, <1>10, <1>11, <1>12 DEF Next

LEMMA IndexStep == TypeOK /\ LoopOrder /\ Indexed /\ [Next]_vars => Indexed'
<1> SUFFICES ASSUME TypeOK, LoopOrder, Indexed, [Next]_vars PROVE Indexed'
  OBVIOUS
<1> USE DEF Indexed, Live, Loop, LoopOrder, fileVars, buildVars, vars
<1>1. ASSUME NEW f \in Files, Edit(f) \/ Delete(f) PROVE Indexed'
  BY <1>1 DEF Edit, Delete, Touched
<1>2. ASSUME NEW isDirty \in BOOLEAN, Begin(isDirty) PROVE Indexed'
  BY <1>2 DEF Begin, Enter
<1>3. CASE GetFiles
  BY <1>3 DEF GetFiles, Enter
<1>4. ASSUME NEW d \in Docs, Populate(d) \/ SkipPage(d) PROVE Indexed'
  BY <1>4 DEF Populate, SkipPage
<1>5. ASSUME NEW d \in Docs, BuildPage(d) PROVE Indexed'
  <2>1. /\ phase = "pages" /\ phase' = "pages" /\ d \in (files \cap Docs) \ left'
        /\ left' = left \ {d} /\ left \subseteq files \cap Docs /\ d \in left
        /\ index' = index \cup {<<d, content[d]>>}
        /\ UNCHANGED <<files, content, dirty, outcome>>
    BY <1>5 DEF BuildPage, Work
  <2> QED
    BY <2>1
<1>6. ASSUME NEW d \in Docs, BuildUnreadPage(d) PROVE Indexed'
  BY <1>6 DEF BuildUnreadPage, Failed, Enter
<1>7. ASSUME NEW s \in Statics, CopyStatic(s) \/ BuildExtra(s) PROVE Indexed'
  BY <1>7 DEF CopyStatic, BuildExtra
<1>8. ASSUME NEW t \in Templates, BuildTemplate(t) PROVE Indexed'
  BY <1>8 DEF BuildTemplate
<1>9. CASE EndLoop
  BY <1>9 DEF EndLoop, Follows, Enter, Work
<1>10. CASE Finish \/ Raise
  BY <1>10 DEF Finish, Raise, Failed, Enter, Work
<1>11. ASSUME NEW s \in Sources, Tear(s) PROVE Indexed'
  BY <1>11 DEF Tear, Enter
<1>12. CASE UNCHANGED vars
  BY <1>12
<1> QED
  BY <1>1, <1>2, <1>3, <1>4, <1>5, <1>6, <1>7, <1>8, <1>9, <1>10, <1>11, <1>12 DEF Next

(* A page has one entry, as it was rendered for the site, and nothing of   *)
(* an earlier build is in the index of a clean one.                        *)
THEOREM IndexOfSite == Spec => []IndexMatchesSite
<1>1. Init => LoopOrder /\ Indexed
  BY DEF Init, LoopOrder, Indexed, Live, Work
<1>2. LoopOrder /\ Indexed => IndexMatchesSite
  BY DEF LoopOrder, Indexed, Live, Loop, IndexMatchesSite
<1> QED
  BY <1>1, <1>2, LoopStep, IndexStep, BuildTypes, PTL DEF Spec

-----------------------------------------------------------------------------
LEMMA CleanReadStep ==
  TypeOK /\ LoopOrder /\ CleanRead /\ [Next]_vars => CleanRead'
<1> SUFFICES ASSUME TypeOK, LoopOrder, CleanRead, [Next]_vars PROVE CleanRead'
  OBVIOUS
<1> USE DEF CleanRead, Undisturbed, Populated, Live, Loop, LoopOrder, fileVars, buildVars, vars
<1>1. ASSUME NEW f \in Files, Edit(f) \/ Delete(f) PROVE CleanRead'
  BY <1>1 DEF Edit, Delete, Touched
<1>2. ASSUME NEW isDirty \in BOOLEAN, Begin(isDirty) PROVE CleanRead'
  BY <1>2 DEF Begin, Enter
<1>3. CASE GetFiles
  BY <1>3 DEF GetFiles, Enter
<1>4. ASSUME NEW d \in Docs, Populate(d) PROVE CleanRead'
  BY <1>4 DEF Populate, TypeOK
<1>5. ASSUME NEW d \in Docs, SkipPage(d) \/ BuildPage(d) PROVE CleanRead'
  BY <1>5 DEF SkipPage, BuildPage
<1>6. ASSUME NEW d \in Docs, BuildUnreadPage(d) PROVE CleanRead'
  BY <1>6 DEF BuildUnreadPage, Failed, Enter
<1>7. ASSUME NEW s \in Statics, CopyStatic(s) \/ BuildExtra(s) PROVE CleanRead'
  BY <1>7 DEF CopyStatic, BuildExtra
<1>8. ASSUME NEW t \in Templates, BuildTemplate(t) PROVE CleanRead'
  BY <1>8 DEF BuildTemplate
<1>9. CASE EndLoop
  BY <1>9 DEF EndLoop, Follows, Enter
<1>10. CASE Finish \/ Raise
  BY <1>10 DEF Finish, Raise, Failed, Enter
<1>11. ASSUME NEW s \in Sources, Tear(s) PROVE CleanRead'
  BY <1>11 DEF Tear, Enter
<1>12. CASE UNCHANGED vars
  BY <1>12
<1> QED
  BY <1>1, <1>2, <1>3, <1>4, <1>5, <1>6, <1>7, <1>8, <1>9, <1>10, <1>11, <1>12 DEF Next

\* A source is written in one of the loops up to the present one.
LEMMA LevelBounds ==
  ASSUME NEW s \in Sources
  PROVE  Level(s) \in 0..4 /\ Level(s) <= Loop
<1>1. Loop \in 0..5
  BY DEF Loop
<1> QED
  BY <1>1 DEF Level, Passed

\* Nothing has been written before the first of them.
LEMMA LevelAtFirst ==
  ASSUME Loop = 0, NEW s \in Sources
  PROVE  Level(s) = 0
BY LevelBounds

\* A write of s, in its current version, that leaves the other outputs alone.
WritesCurrent(s) ==
  /\ Current(s)'
  /\ \A o \in Outputs \ {Dest[s]} : out'[o] = out[o]
  /\ ver' = ver

LEMMA OutputWritten ==
  ASSUME TypeOK, NEW s \in Sources, NEW version, NEW time,
         out' = [out EXCEPT ![Dest[s]] = [by |-> s, ver |-> version, at |-> time]],
         s \in Files => version = ver[s],
         ver' = ver
  PROVE  WritesCurrent(s)
BY DestAssumption DEF WritesCurrent, Current, TypeOK

\* It keeps every output covered if s was next.
LEMMA WriteCovers ==
  ASSUME NEW s \in Sources, WritesCurrent(s),
         \A o \in Outputs : CoveredAt(o),
         Loop > 0, Level(s)' = Loop,
         \A r \in Sources \ {s} : Level(r)' = Level(r)
  PROVE  \A o \in Outputs : CoveredAt(o)'
<1> SUFFICES ASSUME NEW o \in Outputs PROVE CoveredAt(o)'
  OBVIOUS
<1>1. Loop \in Nat
  BY DEF Loop
<1>2. CASE o = Dest[s]
  <2>1. Current(s)'
    BY <1>2 DEF WritesCurrent
  <2>2. \A r \in Sources : Level(r)' <= Level(s)'
    BY <1>1, LevelBounds
  <2> QED
    BY <1>1, <1>2, <2>1, <2>2 DEF CoveredAt
<1>3. CASE o # Dest[s]
  <2>1. out'[o] = out[o]
    BY <1>3 DEF WritesCurrent
  <2>2. \A r \in Sources : Dest[r] = o => Level(r)' = Level(r) /\ (Current(r)' <=> Current(r))
    BY <1>3, <2>1 DEF Current, WritesCurrent
  <2> QED
    BY <2>1, <2>2 DEF CoveredAt
<1> QED
  BY <1>2, <1>3

\* Nor does a step that writes nothing change anything.
LEMMA KeepCovers ==
  ASSUME \A o \in Outputs : CoveredAt(o),
         UNCHANGED <<out, ver>>,
         \A r \in Sources : Level(r)' = Level(r)
  PROVE  \A o \in Outputs : CoveredAt(o)'
BY DEF CoveredAt, Current

LEMMA CoveredStep ==
  TypeOK /\ LoopOrder /\ FilesRead /\ CleanRead /\ Covered /\ [Next]_vars => Covered'
<1> SUFFICES ASSUME TypeOK, LoopOrder, FilesRead, CleanRead, Covered, [Next]_vars, Undisturbed'
             PROVE  \A o \in Outputs : CoveredAt(o)'
  BY DEF Covered
<1> USE DEF Undisturbed, Live, fileVars, buildVars, vars
<1>1. ASSUME NEW f \in Files, Edit(f) \/ Delete(f) PROVE FALSE
  BY <1>1 DEF Edit, Delete, Touched
<1>2. ASSUME NEW isDirty \in BOOLEAN, Begin(isDirty) PROVE \A o \in Outputs : CoveredAt(o)'
  <2>1. out' = [o \in Outputs |-> NoOutput]
    BY <1>2 DEF Begin
  <2>2. Loop' = 0
    BY <1>2 DEF Begin, Enter, Loop
  <2>3. \A s \in Sources : Level(s)' = 0
    BY <2>2 DEF Level, Passed
  <2> QED
    BY <2>1, <2>3 DEF CoveredAt
<1>3. CASE GetFiles
  <2>1. Loop = 0 /\ Loop' = 0 /\ UNCHANGED <<out, ver>> /\ Undisturbed
    BY <1>3 DEF GetFiles, Enter, Loop, LoopOrder
  <2>2. \A s \in Sources : Level(s)' = 0 /\ Level(s) = 0
    BY <2>1 DEF Level, Passed
  <2> QED
    BY <2>1, <2>2, KeepCovers DEF Covered
<1>4. ASSUME NEW d \in Docs, Populate(d) PROVE \A o \in Outputs : CoveredAt(o)'
  <2>1. Loop = 0 /\ Loop' = 0 /\ UNCHANGED <<out, ver>> /\ Undisturbed
    BY <1>4 DEF Populate, Enter, Loop, LoopOrder
  <2>2. \A s \in Sources : Level(s)' = 0 /\ Level(s) = 0
    BY <2>1 DEF Level, Passed
  <2> QED
    BY <2>1, <2>2, KeepCovers DEF Covered
<1>5. ASSUME NEW s \in Statics, CopyStatic(s) PROVE \A o \in Outputs : CoveredAt(o)'
  <2>1. /\ Loop = 1 /\ Loop' = 1 /\ left' = left \ {s} /\ s \in left /\ s \in files
        /\ UNCHANGED <<files, ver>> /\ Undisturbed
    BY <1>5 DEF CopyStatic, Loop, LoopOrder, Work
  <2>2. out' = [out EXCEPT ![Dest[s]] = [by |-> s, ver |-> ver[s], at |-> now']]
    BY <1>5 DEF CopyStatic
  <2>3. WritesCurrent(s)
    BY <2>1, <2>2, OutputWritten DEF Sources, Files
  <2>4. Level(s)' = 1 /\ \A r \in Sources \ {s} : Level(r)' = Level(r)
    BY <2>1, KindsAssumption DEF Level, Passed, Files
  <2> QED
    BY <2>1, <2>3, <2>4, WriteCovers DEF Covered, Sources, Files
<1>6. ASSUME NEW t \in Templates, BuildTemplate(t) PROVE \A o \in Outputs : CoveredAt(o)'
  <2>1. /\ Loop = 2 /\ Loop' = 2 /\ left' = left \ {t} /\ t \in left /\ t \notin Files
        /\ UNCHANGED <<files, ver>> /\ Undisturbed
    BY <1>6, KindsAssumption DEF BuildTemplate, Loop, LoopOrder, Work
  <2>2. \A r \in Sources \ {t} : Level(r)' = Level(r)
    BY <2>1 DEF Level, Passed
  <2>3. CASE t \in Empty
    <3>1. Level(t)' = Level(t) /\ out' = out
      BY <1>6, <2>1, <2>3, ExtrasAssumption DEF Level, Passed, Files, BuildTemplate, Write
    <3> QED
      BY <2>1, <2>2, <3>1, KeepCovers DEF Covered
  <2>4. CASE t \notin Empty
    <3>1. out' = [out EXCEPT ![Dest[t]] = [by |-> t, ver |-> 0, at |-> now']]
      BY <1>6, <2>4 DEF BuildTemplate, Write
    <3>2. WritesCurrent(t)
      BY <2>1, <3>1, OutputWritten DEF Sources, Files
    <3>3. Level(t)' = 2
      BY <2>1, <2>4, ExtrasAssumption DEF Level, Passed, Files
    <3> QED
      BY <2>1, <2>2, <3>2, <3>3, WriteCovers DEF Covered, Sources
  <2> QED
    BY <2>3, <2>4
<1>7. ASSUME NEW s \in Statics, BuildExtra(s) PROVE \A o \in Outputs : CoveredAt(o)'
  <2>1. /\ Loop = 3 /\ Loop' = 3 /\ left' = left \ {s} /\ s \in left /\ s \in files \cap Extras
        /\ UNCHANGED <<files, ver>> /\ Undisturbed
    BY <1>7 DEF BuildExtra, Loop, LoopOrder, Work
  <2>2. \A r \in Sources \ {s} : Level(r)' = Level(r)
    BY <2>1 DEF Level, Passed
  <2>3. exists[s]
    BY <1>7, <2>1 DEF FilesRead, BuildExtra, Files
  <2>4. s \notin Docs /\ s \notin Templates
    BY KindsAssumption DEF Files
  <2>5. CASE s \in Empty
    <3>1. Level(s)' = Level(s) /\ out' = out
      BY <1>7, <2>1, <2>4, <2>5 DEF Level, Passed, BuildExtra, Write
    <3> QED
      BY <2>1, <2>2, <3>1, KeepCovers DEF Covered
  <2>6. CASE s \notin Empty
    <3>1. out' = [out EXCEPT ![Dest[s]] = [by |-> s, ver |-> ver[s], at |-> now']]
      BY <1>7, <2>3, <2>6 DEF BuildExtra, Write
    <3>2. WritesCurrent(s)
      BY <2>1, <3>1, OutputWritten DEF Sources, Files
    <3>3. Level(s)' = 3
      <4>1. Passed(s, 3)' /\ s \in (Extras \cap files') \ Empty
        BY <2>1, <2>6 DEF Passed
      <4>2. Passed(s, 1)'
        BY <2>1 DEF Passed
      <4> QED
        BY <2>4, <4>1, <4>2 DEF Level
    <3> QED
      BY <2>1, <2>2, <3>2, <3>3, WriteCovers DEF Covered, Sources, Files
  <2> QED
    BY <2>5, <2>6
<1>8. ASSUME NEW d \in Docs, BuildPage(d) PROVE \A o \in Outputs : CoveredAt(o)'
  <2>1. /\ Loop = 4 /\ Loop' = 4 /\ left' = left \ {d} /\ d \in left /\ d \in files \cap Docs
        /\ UNCHANGED <<files, ver>> /\ Undisturbed
    BY <1>8 DEF BuildPage, Loop, LoopOrder, Work
  <2>2. \A r \in Sources \ {d} : Level(r)' = Level(r)
    BY <2>1 DEF Level, Passed
  <2>3. content[d] = ver[d]
    BY <2>1 DEF CleanRead, Populated
  <2>4. d \notin Statics /\ d \notin Extras /\ d \notin Templates
    BY KindsAssumption, ExtrasAssumption DEF Files
  <2>5. CASE d \in Empty
    <3>1. Level(d)' = Level(d) /\ out' = out
      BY <1>8, <2>1, <2>4, <2>5 DEF Level, Passed, BuildPage, Write
    <3> QED
      BY <2>1, <2>2, <3>1, KeepCovers DEF Covered
  <2>6. CASE d \notin Empty
    <3>1. out' = [out EXCEPT ![Dest[d]] = [by |-> d, ver |-> ver[d], at |-> now']]
      BY <1>8, <2>3, <2>6 DEF BuildPage, Write
    <3>2. WritesCurrent(d)
      BY <2>1, <3>1, OutputWritten DEF Sources, Files
    <3>3. Level(d)' = 4
      BY <2>1, <2>4, <2>6 DEF Level, Passed
    <3> QED
      BY <2>1, <2>2, <3>2, <3>3, WriteCovers DEF Covered, Sources, Files
  <2> QED
    BY <2>5, <2>6
<1>9. ASSUME NEW d \in Docs, SkipPage(d) PROVE FALSE
  BY <1>9 DEF SkipPage
<1>10. ASSUME NEW d \in Docs, BuildUnreadPage(d) PROVE FALSE
  BY <1>10 DEF BuildUnreadPage, Failed, Enter
<1>11. CASE EndLoop
  <2>1. /\ left = {} /\ UNCHANGED <<out, ver, files>> /\ Undisturbed
        /\ phase' = Follows[phase] /\ left' = Work(phase')
    BY <1>11 DEF EndLoop, Enter, Follows, Work
  <2>2. Loop' = Loop + 1 /\ Loop \in 0..4 /\ phase' # "idle"
    BY <1>11 DEF EndLoop, Enter, Follows, Loop, LoopOrder
  <2>3. left' = CASE Loop' = 1 -> files \cap Statics
                  [] Loop' = 2 -> Templates
                  [] Loop' = 3 -> files \cap Extras
                  [] Loop' = 4 -> files \cap Docs
                  [] OTHER -> {}
    BY <1>11, <2>1 DEF EndLoop, Enter, Follows, Loop, LoopOrder, Work
  <2>4. \A r \in Sources : Level(r)' = Level(r)
    BY <2>1, <2>2, <2>3 DEF Level, Passed
  <2> QED
    BY <2>1, <2>4, KeepCovers DEF Covered
<1>12. CASE Finish
  <2>1. /\ Loop = 5 /\ Loop' = 5 /\ UNCHANGED <<out, ver, files>> /\ Undisturbed
    BY <1>12 DEF Finish, Enter, Loop
  <2>2. \A r \in Sources : Level(r)' = Level(r)
    BY <2>1 DEF Level, Passed
  <2> QED
    BY <2>1, <2>2, KeepCovers DEF Covered
<1>13. ASSUME Raise \/ \E s \in Sources : Tear(s) PROVE FALSE
  BY <1>13 DEF Raise, Failed, Tear, Enter
<1>14. CASE UNCHANGED vars
  <2>1. /\ Loop' = Loop /\ UNCHANGED <<out, ver, files, left>> /\ Undisturbed
    BY <1>14 DEF Loop
  <2>2. \A r \in Sources : Level(r)' = Level(r)
    BY <2>1 DEF Level, Passed
  <2> QED
    BY <2>1, <2>2, KeepCovers DEF Covered
<1> QED
  BY <1>1, <1>2, <1>3, <1>4, <1>5, <1>6, <1>7, <1>8, <1>9, <1>10, <1>11, <1>12, <1>13,
     <1>14 DEF Next

(* Whatever earlier builds left behind: after a clean build that no edit   *)
(* disturbed, each output is the current version of the source that takes  *)
(* precedence, and nothing else is there.                                  *)
THEOREM CleanBuildsExact == Spec => []CleanBuildIsExact
<1> DEFINE Inv == LoopOrder /\ FilesRead /\ CleanRead /\ Covered
<1>1. Init => Inv
  BY DEF Init, LoopOrder, FilesRead, CleanRead, Covered, Undisturbed, Live, Work
<1>2. TypeOK /\ Inv /\ [Next]_vars => Inv'
  BY LoopStep, FilesStep, CleanReadStep, CoveredStep
<1>3. Inv => CleanBuildIsExact
  <2> SUFFICES ASSUME Inv, Done, ~dirty, NEW o \in Outputs
               PROVE  IF Writers(o) = {} THEN out[o] = NoOutput
                      ELSE \E s \in Writers(o) : Wins(s) /\ Current(s)
    BY DEF CleanBuildIsExact
  <2>1. Loop = 5 /\ left = {} /\ CoveredAt(o) /\ \A f \in Files : exists[f] <=> f \in files
    BY DEF Done, LoopOrder, Loop, Covered, Undisturbed, Live, FilesRead
  <2>2. \A s \in Sources : Dest[s] = o =>
          Level(s) = IF s \in Writers(o) THEN Rank(s) ELSE 0
    <3> SUFFICES ASSUME NEW s \in Sources, Dest[s] = o
                 PROVE  Level(s) = IF s \in Writers(o) THEN Rank(s) ELSE 0
      OBVIOUS
    <3>1. Passed(s, 1) /\ Passed(s, 2) /\ Passed(s, 3) /\ Passed(s, 4)
      BY <2>1 DEF Passed
    <3>2. s \in Writers(o) <=> (s \in Files => s \in files) /\ (s \in Empty => s \in Statics)
      BY <2>1 DEF Writers
    <3>3. CASE s \in Docs
      BY <3>1, <3>2, <3>3, KindsAssumption, ExtrasAssumption DEF Level, Rank, Files
    <3>4. CASE s \in Templates
      BY <3>1, <3>2, <3>4, KindsAssumption, ExtrasAssumption DEF Level, Rank, Files
    <3>5. CASE s \in Statics
      BY <3>1, <3>2, <3>5, KindsAssumption, ExtrasAssumption DEF Level, Rank, Files
    <3> QED
      BY <3>3, <3>4, <3>5 DEF Sources, Files
  <2>3. \A s \in Sources : Rank(s) \in 1..4
    BY DEF Rank
  <2>4. Writers(o) \subseteq {s \in Sources : Dest[s] = o}
    BY DEF Writers
  <2>5. CASE out[o] = NoOutput /\ \A s \in Sources : Dest[s] = o => Level(s) = 0
    BY <2>2, <2>3, <2>4, <2>5
  <2>6. ASSUME NEW s \in Sources, Dest[s] = o, Level(s) > 0, Current(s),
               \A r \in Sources : Dest[r] = o => Level(r) <= Level(s)
        PROVE  s \in Writers(o) /\ Wins(s) /\ Current(s)
    <3>1. s \in Writers(o) /\ Level(s) = Rank(s)
      BY <2>2, <2>6
    <3>2. \A r \in Writers(o) : Rank(r) <= Rank(s)
      BY <2>2, <2>4, <2>6, <3>1
    <3> QED
      BY <2>6, <3>1, <3>2 DEF Wins
  <2> QED
    BY <2>1, <2>5, <2>6 DEF CoveredAt
<1> QED
  BY <1>1, <1>2, <1>3, BuildTypes, PTL DEF Spec

-----------------------------------------------------------------------------
LEMMA TimelyStep == TypeOK /\ Timely /\ [Next]_vars => Timely'
<1> SUFFICES ASSUME TypeOK, Timely, [Next]_vars PROVE Timely'
  OBVIOUS
<1> USE DEF Timely, fileVars, buildVars, vars
\* A write takes the time that is next.
<1>1. ASSUME NEW s \in Sources, NEW version, now' = now + 1, mtime' = mtime,
             out' = [out EXCEPT ![Dest[s]] = [by |-> s, ver |-> version, at |-> now']]
      PROVE  Timely'
  <2>1. \A o \in Outputs :
          out'[o] = IF o = Dest[s] THEN [by |-> s, ver |-> version, at |-> now'] ELSE out[o]
    BY <1>1 DEF TypeOK
  <2>2. \A o \in Outputs : out[o].at \in Nat
    BY DEF TypeOK
  <2>3. \A o \in Outputs : out'[o].at <= now' /\ (out'[o].by # Absent => Dest[out'[o].by] = o)
    BY <1>1, <2>1, <2>2 DEF TypeOK
  <2>4. \A f \in Files : mtime'[f] <= now'
    BY <1>1 DEF TypeOK
  <2> QED
    BY <2>3, <2>4
<1>2. ASSUME NEW f \in Files, Edit(f) PROVE Timely'
  <2>1. /\ now' = now + 1 /\ out' = out /\ now \in Nat
        /\ \A g \in Files : mtime'[g] = IF g = f THEN now' ELSE mtime[g]
    BY <1>2 DEF Edit, TypeOK
  <2>2. \A o \in Outputs : out[o].at \in Nat
    BY DEF TypeOK
  <2>3. \A g \in Files : mtime[g] \in Nat
    BY DEF TypeOK
  <2>4. \A g \in Files : mtime'[g] <= now'
    BY <2>1, <2>3
  <2> QED
    BY <2>1, <2>2, <2>4
<1>3. ASSUME NEW f \in Files, Delete(f) PROVE Timely'
  BY <1>3 DEF Delete
<1>4. ASSUME NEW isDirty \in BOOLEAN, Begin(isDirty) PROVE Timely'
  <2>1. /\ UNCHANGED <<now, mtime>>
        /\ out' = out \/ out' = [o \in Outputs |-> NoOutput]
    BY <1>4 DEF Begin
  <2> QED
    BY <2>1 DEF NoOutput, TypeOK
<1>5. ASSUME NEW s \in Sources, NEW version, Write(s, version), mtime' = mtime PROVE Timely'
  BY <1>1, <1>5 DEF Write
<1>6. ASSUME NEW s \in Statics, CopyStatic(s) PROVE Timely'
  BY <1>1, <1>6 DEF CopyStatic, Sources, Files
<1>7. ASSUME NEW s \in Statics, BuildExtra(s) PROVE Timely'
  BY <1>5, <1>7 DEF BuildExtra, Sources, Files
<1>8. ASSUME NEW t \in Templates, BuildTemplate(t) PROVE Timely'
  BY <1>5, <1>8 DEF BuildTemplate, Sources
<1>9. ASSUME NEW d \in Docs, BuildPage(d) PROVE Timely'
  BY <1>5, <1>9 DEF BuildPage, Sources, Files
<1>10. ASSUME NEW s \in Sources, Tear(s) PROVE Timely'
  BY <1>1, <1>10 DEF Tear
<1>11. CASE UNCHANGED <<now, mtime, out>>
  BY <1>11
<1> QED
  BY <1>2, <1>3, <1>4, <1>6, <1>7, <1>8, <1>9, <1>10, <1>11
     DEF Next, GetFiles, Populate, SkipPage, BuildUnreadPage, Failed, EndLoop, Finish, Raise

LEMMA ReadSettledStep == TypeOK /\ ReadSettled /\ [Next]_vars => ReadSettled'
<1> SUFFICES ASSUME TypeOK, ReadSettled, [Next]_vars PROVE ReadSettled'
  OBVIOUS
<1> USE DEF ReadSettled, fileVars, buildVars, vars
<1>1. ASSUME NEW f \in Files, Edit(f) PROVE ReadSettled'
  BY <1>1 DEF Edit, Touched, TypeOK
<1>2. ASSUME NEW f \in Files, Delete(f) PROVE ReadSettled'
  BY <1>2 DEF Delete, Touched
<1>3. ASSUME NEW isDirty \in BOOLEAN, Begin(isDirty) PROVE ReadSettled'
  BY <1>3 DEF Begin
<1>4. ASSUME NEW d \in Docs, Populate(d) PROVE ReadSettled'
  BY <1>4 DEF Populate, TypeOK
<1>5. CASE UNCHANGED <<ver, content, settled>> /\ (phase' # "idle" => phase # "idle")
  BY <1>5
<1>6. ASSUME NEW s \in Sources, Tear(s) PROVE ReadSettled'
  BY <1>6 DEF Tear, Enter
<1> QED
  BY <1>1, <1>2, <1>3, <1>4, <1>5, <1>6
     DEF Next, GetFiles, SkipPage, BuildPage, BuildUnreadPage, CopyStatic, BuildExtra,
         BuildTemplate, EndLoop, Follows, Finish, Raise, Failed, Enter

-----------------------------------------------------------------------------
\* A file stays tended if its output and its text stay and it gets no turn.
LEMMA KeepTended ==
  ASSUME NEW f \in Files, Tended(f), exists[f], Sole(f),
         out'[Dest[f]] = out[Dest[f]], mtime'[f] = mtime[f], ver'[f] = ver[f],
         Written(f)' => Written(f)
  PROVE  Tended(f)'
BY DEF Tended, Current, IsModified

\* It is tended once its current version is its output.
LEMMA WriteTended ==
  ASSUME NEW f \in Files, Current(f)'
  PROVE  Tended(f)'
BY DEF Tended

\* Nobody else writes to the output of a source that has it to itself.
LEMMA SoleOutput ==
  ASSUME TypeOK, NEW f \in Files, Sole(f), NEW s \in Sources, s # f, NEW entry,
         out' = [out EXCEPT ![Dest[s]] = entry] \/ out' = out
  PROVE  out'[Dest[f]] = out[Dest[f]]
<1>1. Dest[s] # Dest[f]
  BY DEF Sole
<1>2. Dest[f] \in Outputs
  BY DestAssumption DEF Sources
<1> QED
  BY <1>1, <1>2 DEF TypeOK

LEMMA SettledStep ==
  TypeOK /\ LoopOrder /\ FilesRead /\ Timely /\ ReadSettled /\ SettledTended /\ [Next]_vars
    => SettledTended'
<1> SUFFICES ASSUME TypeOK, LoopOrder, FilesRead, Timely, ReadSettled, SettledTended, [Next]_vars,
                    NEW f \in settled', exists'[f], Sole(f)
             PROVE  Tended(f)'
  BY DEF SettledTended, Tended, Sole
<1> USE DEF fileVars, buildVars, vars
<1>1. /\ f \in Files /\ f \in Sources /\ Dest[f] \in Outputs
      /\ f \in Docs <=> f \notin Statics
      /\ f \notin Templates
  BY TypeStep, DestAssumption, KindsAssumption DEF TypeOK, Sources, Files
<1>2. CASE \E g \in Files : Edit(g) \/ Delete(g)
  <2> PICK g \in Files : Edit(g) \/ Delete(g)
    BY <1>2
  <2>1. CASE phase = "idle" /\ g = f
    <3>1. now' = now + 1 /\ mtime'[f] = now' /\ out' = out
      BY <1>1, <2>1 DEF Edit, Delete, TypeOK
    <3>2. out[Dest[f]].at \in Nat /\ out[Dest[f]].at <= now /\ now \in Nat
      BY <1>1 DEF Timely, TypeOK
    <3>3. IsModified(f)'
      BY <3>1, <3>2 DEF IsModified
    <3>4. Loop' = 0
      BY <2>1 DEF Edit, Delete, Touched, Loop
    <3> QED
      BY <3>3, <3>4 DEF Tended, Written, Passed
  <2>2. CASE phase = "idle" /\ g # f
    <3>1. /\ f \in settled /\ exists[f] /\ out' = out /\ mtime'[f] = mtime[f] /\ ver'[f] = ver[f]
      BY <1>1, <2>2 DEF Edit, Delete, Touched, TypeOK
    <3>2. Loop' = 0
      BY <2>2 DEF Edit, Delete, Touched, Loop
    <3> QED
      BY <1>1, <3>1, <3>2, KeepTended DEF SettledTended, Written, Passed
  <2>3. CASE phase # "idle"
    <3>1. f \in settled /\ f # g
      BY <2>3 DEF Edit, Delete, Touched
    <3>2. exists[f] /\ out' = out /\ mtime'[f] = mtime[f] /\ ver'[f] = ver[f]
      BY <1>1, <3>1 DEF Edit, Delete, TypeOK
    <3>3. Loop' = Loop /\ left' = left
      BY <2>3 DEF Edit, Delete, Touched, Loop, LoopOrder
    <3> QED
      BY <1>1, <3>1, <3>2, <3>3, KeepTended DEF SettledTended, Written, Passed
  <2> QED
    BY <2>1, <2>2, <2>3
\* What is left of its output says nothing of the others.
<1>14. ASSUME NEW s \in Sources, Tear(s) PROVE Tended(f)'
  <2>1. f \in settled /\ f # s /\ UNCHANGED <<mtime, ver, exists>>
    BY <1>14 DEF Tear
  <2>2. Loop' = 0
    BY <1>14 DEF Tear, Enter, Loop
  <2>3. out'[Dest[f]] = out[Dest[f]]
    BY <1>1, <1>14, <2>1, SoleOutput DEF Tear
  <2> QED
    BY <1>1, <2>1, <2>2, <2>3, KeepTended DEF SettledTended, Written, Passed
<1>3. SUFFICES ASSUME UNCHANGED <<mtime, ver, exists, settled>> PROVE Tended(f)'
  BY <1>2, <1>14 DEF Next, Begin, GetFiles, Populate, SkipPage, BuildPage, BuildUnreadPage,
     CopyStatic, BuildExtra, BuildTemplate, EndLoop, Finish, Raise, Failed
<1>4. Tended(f) /\ exists[f]
  BY <1>3 DEF SettledTended
<1>5. ASSUME NEW isDirty \in BOOLEAN, Begin(isDirty) PROVE Tended(f)'
  <2>1. Loop' = 0
    BY <1>5 DEF Begin, Enter, Loop
  <2>2. ~Written(f)'
    BY <2>1 DEF Written, Passed
  <2>3. CASE out' = out
    BY <1>1, <1>3, <1>4, <2>2, <2>3, KeepTended
  <2>4. CASE out' = [o \in Outputs |-> NoOutput]
    BY <1>1, <2>2, <2>4 DEF Tended, IsModified, NoOutput
  <2> QED
    BY <1>5, <2>3, <2>4 DEF Begin
<1>6. CASE GetFiles \/ Raise \/ \E d \in Docs : Populate(d) \/ BuildUnreadPage(d)
  <2>1. Loop' = 0 /\ out' = out
    BY <1>6 DEF GetFiles, Raise, Populate, BuildUnreadPage, Failed, Enter, Loop, LoopOrder
  <2> QED
    BY <1>1, <1>3, <1>4, <2>1, KeepTended DEF Written, Passed
<1>7. ASSUME NEW d \in Docs, SkipPage(d) PROVE Tended(f)'
  <2>1. out' = out /\ Loop' = Loop /\ left' = left \ {d} /\ ~IsModified(d)
    BY <1>7 DEF SkipPage, Loop
  <2>2. CASE d = f
    BY <1>3, <1>4, <2>1, <2>2, WriteTended, <1>1 DEF Tended, Current
  <2>3. CASE d # f
    BY <1>1, <1>3, <1>4, <2>1, <2>3, KeepTended DEF Written, Passed
  <2> QED
    BY <2>2, <2>3
<1>8. ASSUME NEW d \in Docs, BuildPage(d) PROVE Tended(f)'
  <2>1. /\ Loop = 4 /\ Loop' = 4 /\ left' = left \ {d} /\ phase = "pages"
        /\ content[d] # Unread /\ Write(d, content[d]) /\ d \in Sources
    BY <1>8 DEF BuildPage, Loop, LoopOrder, Sources, Files
  <2>2. CASE d = f /\ d \notin Empty
    <3>1. content[f] = ver[f]
      BY <1>3, <2>1, <2>2 DEF ReadSettled
    <3>2. out'[Dest[f]] = [by |-> f, ver |-> ver[f], at |-> now']
      BY <1>1, <2>1, <2>2, <3>1 DEF Write, TypeOK
    <3> QED
      BY <1>1, <1>3, <3>2, WriteTended DEF Current
  <2>3. CASE d = f /\ d \in Empty
    BY <1>3, <1>4, <2>1, <2>3 DEF Tended, Write, IsModified, Current, Sole
  <2>4. CASE d # f
    <3>1. out'[Dest[f]] = out[Dest[f]]
      BY <1>1, <2>1, <2>4, SoleOutput DEF Write
    <3> QED
      BY <1>1, <1>3, <1>4, <2>1, <2>4, <3>1, KeepTended DEF Written, Passed
  <2> QED
    BY <2>2, <2>3, <2>4
<1>9. ASSUME NEW s \in Statics, CopyStatic(s) PROVE Tended(f)'
  <2>1. /\ Loop = 1 /\ Loop' = 1 /\ left' = left \ {s} /\ s \in Sources
        /\ \/ ~IsModified(s) /\ out' = out
           \/ out' = [out EXCEPT ![Dest[s]] = [by |-> s, ver |-> ver[s], at |-> now']]
    BY <1>9 DEF CopyStatic, Loop, LoopOrder, Sources, Files
  <2>2. CASE s = f
    <3>1. Current(f)'
      BY <1>1, <1>3, <1>4, <2>1, <2>2 DEF Tended, Current, TypeOK
    <3> QED
      BY <1>1, <3>1, WriteTended
  <2>3. CASE s # f
    <3>1. out'[Dest[f]] = out[Dest[f]]
      BY <1>1, <2>1, <2>3, SoleOutput
    <3> QED
      BY <1>1, <1>3, <1>4, <2>1, <2>3, <3>1, KeepTended DEF Written, Passed
  <2> QED
    BY <2>2, <2>3
<1>10. ASSUME NEW s \in Statics, BuildExtra(s) PROVE Tended(f)'
  <2>1. /\ Loop = 3 /\ Loop' = 3 /\ left' = left \ {s} /\ s \in Sources
        /\ out' = out \/ (s \notin Empty /\ out' = [out EXCEPT ![Dest[s]] = [by |-> s, ver |-> ver[s], at |-> now']])
    BY <1>10 DEF BuildExtra, Write, Loop, LoopOrder, Sources, Files
  <2>2. CASE s = f /\ out' # out
    <3>1. Current(f)'
      BY <1>1, <1>3, <2>1, <2>2 DEF Current, TypeOK
    <3> QED
      BY <1>1, <3>1, WriteTended
  <2>3. CASE s # f \/ out' = out
    <3>1. out'[Dest[f]] = out[Dest[f]]
      BY <1>1, <2>1, <2>3, SoleOutput
    <3>2. Written(f)' => Written(f)
      BY <1>1, <2>1 DEF Written, Passed
    <3> QED
      BY <1>1, <1>3, <1>4, <3>1, <3>2, KeepTended
  <2> QED
    BY <2>2, <2>3
<1>11. ASSUME NEW t \in Templates, BuildTemplate(t) PROVE Tended(f)'
  <2>1. /\ Loop = 2 /\ Loop' = 2 /\ t \in Sources /\ t # f /\ Write(t, 0)
    BY <1>1, <1>11 DEF BuildTemplate, Loop, LoopOrder, Sources
  <2>2. out'[Dest[f]] = out[Dest[f]]
    BY <1>1, <2>1, SoleOutput DEF Write
  <2>3. Written(f)' => Written(f)
    BY <2>1 DEF Written, Passed
  <2> QED
    BY <1>1, <1>3, <1>4, <2>2, <2>3, KeepTended
<1>12. CASE EndLoop
  <2>1. Loop' = Loop + 1 /\ Loop \in 0..4 /\ left = {} /\ out' = out
    BY <1>12 DEF EndLoop, Enter, Follows, Loop, LoopOrder
  <2>2. f \in files
    BY <1>1, <1>4, <1>12 DEF FilesRead, Live, EndLoop, Follows
  <2>3. CASE f \in Docs
    <3>1. Loop = 3 => f \in left'
      BY <1>12, <2>2, <2>3 DEF EndLoop, Enter, Follows, Loop, LoopOrder, Work
    <3>2. Written(f)' => Written(f)
      BY <2>1, <2>3, <3>1 DEF Written, Passed
    <3> QED
      BY <1>1, <1>3, <1>4, <2>1, <3>2, KeepTended
  <2>4. CASE f \in Statics
    <3>1. Loop = 0 => f \in left'
      BY <1>12, <2>2, <2>4 DEF EndLoop, Enter, Follows, Loop, LoopOrder, Work
    <3>2. Written(f)' => Written(f)
      BY <1>1, <2>1, <2>4, <3>1 DEF Written, Passed
    <3> QED
      BY <1>1, <1>3, <1>4, <2>1, <3>2, KeepTended
  <2> QED
    BY <1>1, <2>3, <2>4
<1>13. CASE Finish \/ UNCHANGED vars
  <2>1. out' = out
    BY <1>13 DEF Finish
  <2>2. Written(f)' => Written(f)
    BY <1>13 DEF Finish, Enter, Loop, Written, Passed
  <2> QED
    BY <1>1, <1>3, <1>4, <2>1, <2>2, KeepTended
<1> QED
  BY <1>2, <1>5, <1>6, <1>7, <1>8, <1>9, <1>10, <1>11, <1>12, <1>13, <1>14 DEF Next

(* A completed build of either kind brings in every edit that was made     *)
(* while no build ran, wherever an output has only one source and was not  *)
(* left half written since.                                                *)
THEOREM SettledEditsBuilt == Spec => []SettledEditsAreBuilt
<1> DEFINE Inv == LoopOrder /\ FilesRead /\ Timely /\ ReadSettled /\ SettledTended
<1>1. Init => Inv
  <2> SUFFICES ASSUME Init PROVE Inv
    OBVIOUS
  <2>1. LoopOrder /\ FilesRead /\ ReadSettled
    BY DEF Init, LoopOrder, FilesRead, ReadSettled, Live, Work
  <2>2. Timely
    BY DEF Init, Timely, NoOutput
  <2>3. \A f \in Files : out[Dest[f]].by = Absent
    BY DestAssumption DEF Init, NoOutput, Sources
  <2>4. Loop = 0
    BY DEF Init, Loop
  <2>5. SettledTended
    BY <2>3, <2>4 DEF Init, SettledTended, Tended, IsModified, Written, Passed
  <2> QED
    BY <2>1, <2>2, <2>5
<1>2. TypeOK /\ Inv /\ [Next]_vars => Inv'
  BY LoopStep, FilesStep, TimelyStep, ReadSettledStep, SettledStep
<1>3. Inv => SettledEditsAreBuilt
  <2>1. outcome = "ok" => Loop = 5
    BY DEF Loop, LoopOrder
  <2> QED
    BY <2>1 DEF SettledEditsAreBuilt, Done, LoopOrder, SettledTended, Tended, Written, Passed
<1> QED
  BY <1>1, <1>2, <1>3, BuildTypes, PTL DEF Spec
=============================================================================
