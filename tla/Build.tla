------------------------------- MODULE Build --------------------------------
(***************************************************************************)
(* build() (commands/build.py): a clean or a dirty build of the site, one  *)
(* after the other, while the user edits.  A dirty build skips what is not *)
(* modified, by comparing the modification times of source and output      *)
(* (structure/files.py), once when it reads a page and again when it       *)
(* writes it.  Outputs are written kind by kind, in order of precedence.   *)
(***************************************************************************)
EXTENDS Integers, FiniteSets

CONSTANTS Docs,       \* Markdown pages in docs_dir
          Statics,    \* all other files of docs_dir, and of the theme
          Templates,  \* the theme's static templates (404.html, sitemap.xml)
          Extras,     \* extra_templates: Statics that are rendered as well
          Empty,      \* what renders to nothing and is therefore not written
          Outputs,    \* paths in site_dir
          Dest,       \* the output of each of these
          MaxEdits,   \* bound: edits and deletions by the user
          MaxBuilds   \* bound: builds

Files   == Docs \cup Statics
Sources == Files \cup Templates

ASSUME DestAssumption    == Dest \in [Sources -> Outputs]
ASSUME ExtrasAssumption  == Extras \subseteq Statics /\ Empty \subseteq Sources
ASSUME KindsAssumption   == Docs \cap Statics = {} /\ Templates \cap Files = {}
ASSUME BoundsAssumption  == MaxEdits \in Nat /\ MaxBuilds \in Nat

VARIABLES
  now,      \* time; each edit and each write has one of its own
  mtime,    \* modification time of each file in docs_dir
  ver,      \* version of its text
  exists,   \* FALSE once deleted
  out,      \* each output: what it was written from, which version, when
  phase,    \* the step build() is at
  dirty,    \* the kind of this build
  files,    \* the Files collection of this build
  left,     \* what the current loop has still to do
  content,  \* the version each page was rendered from, or Unread
  index,    \* the search plugin's entries: page and version
  outcome,  \* how the last build ended, "none" since an edit
  builds,   \* number of builds begun
  edits,    \* number of edits
  quiet,    \* no edit since this build began
  settled   \* the files whose last edit was made while no build ran, unless
            \* writing one to its output failed half way since

fileVars  == <<mtime, ver, exists, edits, quiet, settled>>
buildVars == <<phase, dirty, files, left, content, index, outcome, builds>>
vars == <<now, out, fileVars, buildVars>>

Unread == -1
Torn   == -2   \* the version of an output that was not written to its end
Absent == "absent"
NoOutput == [by |-> Absent, ver |-> 0, at |-> 0]

ASSUME AbsentAssumption == Absent \notin Sources

Init ==
  /\ now = 1
  /\ mtime = [f \in Files |-> 1] /\ ver = [f \in Files |-> 0]
  /\ exists = [f \in Files |-> TRUE]
  /\ out = [o \in Outputs |-> NoOutput]
  /\ phase = "idle" /\ dirty = FALSE /\ files = {} /\ left = {}
  /\ content = [d \in Docs |-> Unread] /\ index = {}
  /\ outcome = "none" /\ builds = 0 /\ edits = 0
  /\ quiet = TRUE /\ settled = Files

-----------------------------------------------------------------------------
(* The user.                                                               *)
Touched(f) ==
  /\ edits < MaxEdits
  /\ edits' = edits + 1
  /\ quiet' = FALSE
  /\ outcome' = "none"
  /\ settled' = IF phase = "idle" THEN settled \cup {f} ELSE settled \ {f}

Edit(f) ==
  /\ exists[f]
  /\ Touched(f)
  /\ now' = now + 1
  /\ mtime' = [mtime EXCEPT ![f] = now']
  /\ ver' = [ver EXCEPT ![f] = @ + 1]
  /\ UNCHANGED <<exists, out, phase, dirty, files, left, content, index, builds>>

Delete(f) ==
  /\ exists[f]
  /\ Touched(f)
  /\ exists' = [exists EXCEPT ![f] = FALSE]
  /\ UNCHANGED <<now, mtime, ver, out, phase, dirty, files, left, content, index, builds>>

-----------------------------------------------------------------------------
\* Faulty variant: an output that is there is good enough.
IsMissing(f) == out[Dest[f]].by = Absent

(* File.is_modified.                                                       *)
IsModified(f) == \/ out[Dest[f]].by = Absent
                 \/ out[Dest[f]].at < mtime[f]

\* getmtime() of a source that is gone raises, but is only asked for if
\* there is an output.
CanTell(f) == exists[f] \/ out[Dest[f]].by = Absent

Write(s, version) ==
  IF s \in Empty
  THEN UNCHANGED <<now, out>>
  ELSE /\ now' = now + 1
       /\ out' = [out EXCEPT ![Dest[s]] = [by |-> s, ver |-> version, at |-> now']]

\* The next step, with the work it loops over.
Enter(step, work) == phase' = step /\ left' = work

\* Faulty variants: nothing is removed, or the index is kept.
BeginUncleaned(isDirty) ==
  /\ phase = "idle" /\ builds < MaxBuilds
  /\ builds' = builds + 1
  /\ dirty' = isDirty
  /\ Enter("files", {})
  /\ files' = {} /\ content' = [d \in Docs |-> Unread] /\ index' = {}
  /\ outcome' = "none" /\ quiet' = TRUE
  /\ UNCHANGED <<now, mtime, ver, exists, edits, settled, out>>

BeginSameIndex(isDirty) ==
  /\ phase = "idle" /\ builds < MaxBuilds
  /\ builds' = builds + 1
  /\ dirty' = isDirty
  /\ Enter("files", {})
  /\ files' = {} /\ content' = [d \in Docs |-> Unread]
  /\ outcome' = "none" /\ quiet' = TRUE
  /\ out' = IF isDirty THEN out ELSE [o \in Outputs |-> NoOutput]
  /\ UNCHANGED <<now, mtime, ver, exists, edits, settled, index>>

\* config and pre_build events, then the output directory is emptied,
\* unless the build is dirty.  The search plugin begins a new index.
Begin(isDirty) ==
  /\ phase = "idle" /\ builds < MaxBuilds
  /\ builds' = builds + 1
  /\ dirty' = isDirty
  /\ Enter("files", {})
  /\ files' = {} /\ content' = [d \in Docs |-> Unread] /\ index' = {}
  /\ outcome' = "none" /\ quiet' = TRUE
  /\ out' = IF isDirty THEN out ELSE [o \in Outputs |-> NoOutput]
  /\ UNCHANGED <<now, mtime, ver, exists, edits, settled>>

\* get_files, the theme's files, the files and nav events.
GetFiles ==
  /\ phase = "files"
  /\ files' = {f \in Files : exists[f]}
  /\ Enter("populate", files' \cap Docs)
  /\ UNCHANGED <<now, out, fileVars, dirty, content, index, outcome, builds>>

\* _populate_page, unless there is nothing to read any more.
Populate(d) ==
  /\ phase = "populate" /\ d \in left
  /\ exists[d]
  /\ content' = IF dirty /\ ~IsModified(d) THEN content
                ELSE [content EXCEPT ![d] = ver[d]]
  /\ left' = left \ {d}
  /\ UNCHANGED <<now, out, fileVars, phase, dirty, files, index, outcome, builds>>

\* Files.copy_static_files.
CopyStatic(s) ==
  /\ phase = "static" /\ s \in left
  /\ exists[s]
  /\ IF dirty /\ ~IsModified(s) THEN UNCHANGED <<now, out>>
     ELSE /\ now' = now + 1
          /\ out' = [out EXCEPT ![Dest[s]] = [by |-> s, ver |-> ver[s], at |-> now']]
  /\ left' = left \ {s}
  /\ UNCHANGED <<fileVars, phase, dirty, files, content, index, outcome, builds>>

\* _build_theme_template: no look at modification times.
BuildTemplate(t) ==
  /\ phase = "templates" /\ t \in left
  /\ Write(t, 0)
  /\ left' = left \ {t}
  /\ UNCHANGED <<fileVars, phase, dirty, files, content, index, outcome, builds>>

\* _build_extra_template: one that cannot be read is skipped with a warning.
BuildExtra(s) ==
  /\ phase = "extras" /\ s \in left
  /\ IF exists[s] THEN Write(s, ver[s]) ELSE UNCHANGED <<now, out>>
  /\ left' = left \ {s}
  /\ UNCHANGED <<fileVars, phase, dirty, files, content, index, outcome, builds>>

Failed(how) ==
  /\ Enter("idle", {})
  /\ outcome' = how
  /\ UNCHANGED <<now, out, fileVars, dirty, files, content, index, builds>>

\* _build_page skips a page, or its page_context event adds it to the search
\* index and it is written.
SkipPage(d) ==
  /\ phase = "pages" /\ d \in left
  /\ dirty /\ exists[d] /\ ~IsModified(d)
  /\ left' = left \ {d}
  /\ UNCHANGED <<now, out, fileVars, phase, dirty, files, content, index, outcome, builds>>

BuildPage(d) ==
  /\ phase = "pages" /\ d \in left
  /\ dirty => CanTell(d) /\ IsModified(d)
  /\ content[d] # Unread
  /\ index' = index \cup {<<d, content[d]>>}
  /\ Write(d, content[d])
  /\ left' = left \ {d}
  /\ UNCHANGED <<fileVars, phase, dirty, files, content, outcome, builds>>

\* It is to be written but was not read: add_entry_from_context asserts.
BuildUnreadPage(d) ==
  /\ phase = "pages" /\ d \in left
  /\ dirty => CanTell(d) /\ IsModified(d)
  /\ content[d] = Unread
  /\ Failed("assertion")

\* A loop is done.
Follows == [populate |-> "static", static |-> "templates", templates |-> "extras",
            extras |-> "pages", pages |-> "finish"]

Work(step) == CASE step = "static"    -> files \cap Statics
                [] step = "templates" -> Templates
                [] step = "extras"    -> files \cap Extras
                [] step = "pages"     -> files \cap Docs
                [] OTHER -> {}

EndLoop ==
  /\ phase \in DOMAIN Follows /\ left = {}
  /\ Enter(Follows[phase], Work(Follows[phase]))
  /\ UNCHANGED <<now, out, fileVars, dirty, files, content, index, outcome, builds>>

\* post_build event.
Finish ==
  /\ phase = "finish"
  /\ Enter("idle", {})
  /\ outcome' = "ok"
  /\ UNCHANGED <<now, out, fileVars, dirty, files, content, index, builds>>

\* A plugin, a template or a vanished source raises: what is written stays.
Raise ==
  /\ phase # "idle"
  /\ Failed("failed")

\* What writes an output raises after open() has emptied it.
Tear(s) ==
  /\ phase \in {"static", "templates", "extras", "pages"} /\ s \in left
  /\ s \in Empty => phase = "static"
  /\ phase \in {"static", "extras"} => exists[s]
  /\ phase = "pages" => content[s] # Unread
  /\ dirty /\ phase \in {"static", "pages"} => CanTell(s) /\ IsModified(s)
  /\ now' = now + 1
  /\ out' = [out EXCEPT ![Dest[s]] = [by |-> s, ver |-> Torn, at |-> now']]
  /\ settled' = settled \ {s}
  /\ index' = IF phase = "pages" THEN index \cup {<<s, content[s]>>} ELSE index
  /\ Enter("idle", {}) /\ outcome' = "failed"
  /\ UNCHANGED <<mtime, ver, exists, edits, quiet, dirty, files, content, builds>>

Next ==
  \/ \E f \in Files : Edit(f) \/ Delete(f)
  \/ \E isDirty \in BOOLEAN : Begin(isDirty)
  \/ GetFiles
  \/ \E d \in Docs : Populate(d) \/ SkipPage(d) \/ BuildPage(d) \/ BuildUnreadPage(d)
  \/ \E s \in Statics : CopyStatic(s) \/ BuildExtra(s)
  \/ \E t \in Templates : BuildTemplate(t)
  \/ EndLoop \/ Finish \/ Raise
  \/ \E s \in Sources : Tear(s)

Spec == Init /\ [][Next]_vars

-----------------------------------------------------------------------------
Rank(s) == CASE s \in Docs -> 4
             [] s \in Extras \ Empty -> 3
             [] s \in Templates -> 2
             [] OTHER -> 1

\* What build() has to write to an output, the last of them staying.
Writers(o) == {s \in Sources : Dest[s] = o /\ (s \in Files => exists[s])
                               /\ (s \in Empty => s \in Statics)}
Wins(s) == \A r \in Writers(Dest[s]) : Rank(r) <= Rank(s)

Current(s) == /\ out[Dest[s]].by = s
              /\ s \in Files => out[Dest[s]].ver = ver[s]

\* No other source has its output.
Sole(s) == \A r \in Sources : Dest[r] = Dest[s] => r = s

Done == outcome = "ok" /\ quiet

(* After a clean build that no edit disturbed every output is the current  *)
(* version of the source that takes precedence, and nothing else is there, *)
(* whatever earlier builds, failed or dirty, had left behind.              *)
CleanBuildIsExact ==
  Done /\ ~dirty => \A o \in Outputs :
    IF Writers(o) = {} THEN out[o] = NoOutput
    ELSE \E s \in Writers(o) : Wins(s) /\ Current(s)

(* A build of either kind brings in every edit that was made while no      *)
(* build ran, even if builds failed since, wherever an output has only one *)
(* source.  Not if writing it failed half way: what is left of the output  *)
(* is newer than the source, and the next dirty build takes it as it is.   *)
SettledEditsAreBuilt ==
  Done => \A f \in settled :
    exists[f] /\ Sole(f) /\ f \notin Empty => Current(f)

(* The search index of a clean build has each page once, as it was         *)
(* rendered for the site, and nothing of an earlier build.                 *)
IndexMatchesSite ==
  outcome = "ok" /\ ~dirty => index = {<<d, content[d]>> : d \in files \cap Docs}
=============================================================================
