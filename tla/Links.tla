-------------------------------- MODULE Links --------------------------------
(***************************************************************************)
(* The files of a build and the links between them (structure/files.py,    *)
(* structure/pages.py, utils): which files of docs_dir and of the theme    *)
(* are taken, what output and URL each gets, how plugins change the        *)
(* collection, and how a link between sources becomes one between outputs. *)
(*                                                                         *)
(* A path is a sequence of names, a name a stem with an extension; the     *)
(* name of a directory has none.                                           *)
(***************************************************************************)
EXTENDS Naturals, Sequences, SequencesExt, FiniteSets

CONSTANTS DocsDir,    \* paths that docs_dir may hold
          Theme,      \* paths that the theme's directories hold
          Hidden,     \* stems that begin with a dot
          Generated,  \* source paths that plugins add files for
          LinkPaths,  \* relative links in the Markdown sources
          Mount,      \* the path of site_url, where the site is put
          MaxCalls    \* bound: calls of append and remove by plugins

ASSUME MaxCallsAssumption == MaxCalls \in Nat
ASSUME FiniteAssumption == IsFiniteSet(DocsDir) /\ IsFiniteSet(Theme)

VARIABLES
  docs,     \* what docs_dir holds
  dirUrls,  \* use_directory_urls
  phase,    \* "walk", "theme" or "ready"
  files,    \* Files._files
  cached,   \* Files._src_uris is not None
  srcUris,  \* Files._src_uris
  calls     \* number of calls by plugins

vars == <<docs, dirUrls, phase, files, cached, srcUris, calls>>

Name(stem, ext) == [stem |-> stem, ext |-> ext]
Up == Name("..", "")
IndexHtml == Name("index", "html")

Dir(path) == Front(path)
MarkdownExtensions == {"markdown", "mdown", "mkdn", "mkd", "md"}
IsMarkdown(path) == Last(path).ext \in MarkdownExtensions

Paths == DocsDir \cup Theme \cup Generated
Names == UNION {ToSet(path) : path \in Paths \cup LinkPaths \cup {Mount}}
ASSUME PathsAssumption ==
  /\ \A path \in Paths \cup LinkPaths : path \in Seq(Names) /\ path # <<>>
  /\ Mount \in Seq(Names)
  /\ \A name \in Names : name = Name(name.stem, name.ext)

\* Sources and the place of the site are inside; directories have no extension.
ASSUME DirectoriesAssumption ==
  /\ \A path \in Paths :
       /\ \A i \in DOMAIN path : path[i].stem # ".."
       /\ \A i \in DOMAIN path : i < Len(path) => path[i].ext = ""
  /\ \A i \in DOMAIN Mount : Mount[i] # Up

File(path, origin) == [src |-> path, from |-> origin]

Init ==
  /\ docs \in SUBSET DocsDir /\ dirUrls \in BOOLEAN
  /\ phase = "walk" /\ files = <<>> /\ cached = FALSE /\ srcUris = <<>>
  /\ calls = 0

-----------------------------------------------------------------------------
(* Outputs and URLs.                                                       *)

\* File._get_stem
Stem(path) == IF Last(path).stem \in {"index", "README"} THEN "index" ELSE Last(path).stem

\* File._get_dest_path
Dest(path) ==
  IF ~IsMarkdown(path) THEN path
  ELSE IF ~dirUrls \/ Stem(path) = "index" THEN Append(Dir(path), Name(Stem(path), "html"))
  ELSE Dir(path) \o <<Name(Stem(path), ""), IndexHtml>>

\* A URL; with a slash at its end it names a directory.
Url(parts, slash) == [parts |-> parts, slash |-> slash]

\* File._get_url.  Quoting is left out: it is one to one, name by name, and
\* the web server undoes it.
FileUrl(path) ==
  IF dirUrls /\ Last(Dest(path)) = IndexHtml THEN Url(Dir(Dest(path)), TRUE)
  ELSE Url(Dest(path), FALSE)

\* Page.url: '' for the page of the root directory.
PageUrl(path) == IF FileUrl(path) = Url(<<>>, TRUE) THEN Url(<<>>, FALSE) ELSE FileUrl(path)

\* posixpath.normpath, name by name; the root has itself above it.
Step(path, name, rooted) ==
  IF name # Up THEN Append(path, name)
  ELSE IF path # <<>> /\ Last(path) # Up THEN Front(path)
  ELSE IF rooted THEN path ELSE Append(path, name)
Norm(path, rooted) == FoldLeft(LAMBDA done, name : Step(done, name, rooted), <<>>, path)

\* Of a relative path, and of a URL taken from the root.
NormPath(path) == Norm(path, FALSE)
NormParts(path) == Norm(path, TRUE)

\* get_relative_url skips the last component of `other` if it is a file.
Base(other) == IF other.slash \/ other.parts = <<>> THEN other.parts ELSE Front(other.parts)

\* The way from one directory to a file or another directory.
Way(from, dest) ==
  LET common == Len(LongestCommonPrefix({from, dest}))
  IN [i \in 1..(Len(from) - common) |-> Up] \o SubSeq(dest, common + 1, Len(dest))

\* Faulty variant: the last component always counts.
RelativeToAll(url, other) ==
  Url(Way(NormParts(other.parts), NormParts(url.parts)), url.slash)

GetRelativeUrl(url, other) ==
  Url(Way(NormParts(Base(other)), NormParts(url.parts)), url.slash)

-----------------------------------------------------------------------------
(* The collection.                                                         *)

\* _filter_paths: hidden files and directories, /templates.
FilterPaths(path) == \/ \E i \in DOMAIN path : path[i].stem \in Hidden
                     \/ Head(path) = Name("templates", "")

\* README.md gives way to an index.md in its directory.
Skipped(path) == /\ Last(path) = Name("README", "md")
                 /\ Append(Dir(path), Name("index", "md")) \in docs

\* get_files
GetFiles ==
  /\ phase = "walk"
  /\ phase' = "theme"
  /\ files' = SetToSeq({File(p, "docs") : p \in {q \in docs : ~FilterPaths(q) /\ ~Skipped(q)}})
  /\ UNCHANGED <<docs, dirUrls, cached, srcUris, calls>>

\* Files.src_uris: of several files with one source path, the last.
SrcUris(list) ==
  [p \in {list[i].src : i \in DOMAIN list} |-> list[SelectLastInSeq(list, LAMBDA f : f.src = p)]]

\* Its filter(); what it lets through are assets.  The code's also takes
\* readmes, locales and the theme's own templates out; here those are assets
\* as well.
ThemeFilter(path) ==
  /\ \A i \in DOMAIN path : path[i].stem \notin Hidden
  /\ Last(path).ext \notin MarkdownExtensions \cup {"html", "py"}

\* Faulty variant: no look at docs_dir.
AllAssets(list) == {p \in Theme : ThemeFilter(p)}

\* Files of the theme do not override files of docs_dir.
Assets(list) == {p \in Theme : ThemeFilter(p) /\ p \notin DOMAIN SrcUris(list)}

\* add_files_from_theme; a path is in the list of templates only once.
AddFilesFromTheme ==
  /\ phase = "theme"
  /\ phase' = "ready"
  /\ files' = files \o SetToSeq({File(p, "theme") : p \in Assets(files)})
  /\ UNCHANGED <<docs, dirUrls, cached, srcUris, calls>>

\* The property src_uris is computed at the first use since a change.
Lookup ==
  /\ phase = "ready" /\ ~cached
  /\ cached' = TRUE
  /\ srcUris' = SrcUris(files)
  /\ UNCHANGED <<docs, dirUrls, phase, files, calls>>

Changed == calls < MaxCalls /\ calls' = calls + 1 /\ cached' = FALSE /\ srcUris' = <<>>

\* Faulty variant: the cache is kept.
AppendOnly(path) ==
  /\ phase = "ready"
  /\ calls < MaxCalls /\ calls' = calls + 1
  /\ files' = Append(files, File(path, "plugin"))
  /\ UNCHANGED <<docs, dirUrls, phase, cached, srcUris>>

\* Files.append and Files.remove, by plugins, also between two pages.
AppendFile(path) ==
  /\ phase = "ready"
  /\ Changed
  /\ files' = Append(files, File(path, "plugin"))
  /\ UNCHANGED <<docs, dirUrls, phase>>

RemoveFile(i) ==
  /\ phase = "ready"
  /\ Changed
  /\ files' = RemoveFirst(files, files[i])
  /\ UNCHANGED <<docs, dirUrls, phase>>

Next ==
  \/ GetFiles \/ AddFilesFromTheme \/ Lookup
  \/ \E p \in Generated : AppendFile(p)
  \/ \E i \in DOMAIN files : RemoveFile(i)

Spec == Init /\ [][Next]_vars

-----------------------------------------------------------------------------
(* Links.                                                                  *)

Known == IF cached THEN srcUris ELSE SrcUris(files)

\* path_to_url: from the page of a source, along a link in its text.  One
\* whose last part has no dot is none to a file.
NotAFile(link) == Last(link).ext = "" /\ Last(link) # Up
Target(path, link) == NormPath(Dir(path) \o link)
Rewritten(path, link) == ~NotAFile(link) /\ Target(path, link) \in DOMAIN Known
PathToUrl(path, link) == GetRelativeUrl(FileUrl(Target(path, link)), FileUrl(path))

\* normalize_url, in the templates: from one page to another in the
\* navigation.
NormalizeUrl(path, page) == GetRelativeUrl(PageUrl(path), PageUrl(page))

(* A browser on a page that follows a relative URL, and the file that the  *)
(* web server has for the result.                                          *)
Arrive(page, url) ==
  LET here == IF FileUrl(page).slash THEN FileUrl(page).parts ELSE Front(FileUrl(page).parts)
      there == NormPath(Mount \o here \o url.parts)
      isDir == url.slash \/ url.parts = <<>> \/ Last(url.parts) = Up
  IN IF isDir THEN Append(there, IndexHtml) ELSE there

-----------------------------------------------------------------------------
Sources == {files[i].src : i \in DOMAIN files}
Pages == {p \in Sources : IsMarkdown(p)}
AsBuilt == phase = "ready" /\ calls = 0

(* A link that names a file of the collection, as the author's file system *)
(* would resolve it, leads a reader of the site to the output of that file,*)
(* whatever the URL style, the directories of the two and the place of the *)
(* site, if the file's name has an extension; any other is left alone.  It *)
(* holds of the files that plugins have added by then, and not of those    *)
(* they removed.                                                           *)
LinksLeadToTargets ==
  phase = "ready" => \A p \in Pages, link \in LinkPaths :
    LET target == NormPath(Dir(p) \o link) IN
      /\ target \in Sources /\ Last(link).ext # "" =>
           Rewritten(p, link) /\ Arrive(p, PathToUrl(p, link)) = Mount \o Dest(target)
      /\ target \notin Sources => ~Rewritten(p, link)

(* A theme's link from any page to any other, the home page included, whose*)
(* own URL is empty, leads to the output of that page.                     *)
NavLinksLeadToPages ==
  phase = "ready" => \A p, q \in Pages : Arrive(p, NormalizeUrl(q, p)) = Mount \o Dest(q)

(* What is built from a file of docs_dir is not written over by an asset of*)
(* the theme, which comes later, nor by another .md file of its directory, *)
(* even if the two are its index and README.  (A page may meet an HTML file*)
(* of docs_dir, or a page of another Markdown extension.)                  *)
NothingWrittenOver ==
  AsBuilt => \A i, j \in DOMAIN files :
    /\ i # j /\ Dest(files[i].src) = Dest(files[j].src)
    => /\ {files[i].from, files[j].from} = {"docs"}
       /\ \/ Dir(files[i].src) # Dir(files[j].src)
          \/ {Last(files[i].src).ext, Last(files[j].src).ext} # {"md"}
=============================================================================
