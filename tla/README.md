# MkDocs in TLA+

Specifications, model-checking runs and proofs kept beside the sources of
MkDocs 1.4 (`src/mkdocs`).  MkDocs turns a directory of Markdown files into a
static site.  Most of it is a sequential program; what is hard to test is the
development server, which rebuilds the site in place while threads serve it, the
state that survives from one build to the next in a process, and the two halves
of the search, one of which runs in the reader's browser.

Every definition is translated from the source; `PROJECT.json` maps each to its
lines.  To check a module, `tlc -config <run>.cfg <module>`; to check proofs,
`tlapm <module>.tla`.

## 1. The system

### Components, state, operations

| Component | State it keeps | Operations |
|---|---|---|
| Live reload server, `livereload/__init__.py` | `_wanted_epoch`, `_visible_epoch`, `_to_rebuild`, `_shutdown`, two conditions; the files of `site_dir`; in each tab, the epoch its script was given | `serve`, `_build_loop`, `watch` callbacks, a request handler per page or poll, the script's `poll`, `shutdown` |
| Watch table, same file | `_watched_paths`, `_watch_refs`, `_to_rebuild` | `watch`, `unwatch`, the callback, the loop that takes and calls functions |
| Dev server, `commands/serve.py` | the temporary directory, the process, which one-time events plugins had | start, initial build, serve, the two `finally` clauses |
| Site build, `commands/build.py` with `structure/files.py` | `site_dir`, modification times, the `Files` collection, each page's content, the search plugin's index | clean and dirty `build` |
| Warnings, `commands/build.py`, `utils/__init__.py` | `DuplicateFilter.msgs`, the handlers of the `mkdocs` logger, counts | a build begins, warns, ends |
| Files and links, `structure/files.py`, `structure/pages.py`, `utils` | `Files._files` and its cached dictionary | `get_files`, `add_files_from_theme`, `append`, `remove`, links between pages and from the theme |
| Navigation, `structure/nav.py`, `structure/pages.py` | the tree of sections and pages, `file.page`, previous and next pages, active flags | `get_navigation`, read, render |
| Plugins, `plugins.py`, `config_options.py` | `PluginCollection`, `plugin_cache`, order of methods, each plugin's options | load, startup, build events, `build_error`, shutdown |
| Configuration, `config/*.py` | values, and the warnings that option objects, which belong to the class, keep | `load_config` with its three passes |
| Search index, `contrib/search/*.py`, `structure/toc.py` | parser state, `_entries`, the files in `search/` | settle languages, feed a page, write the index, copy scripts |
| Search client, `contrib/search/templates/search/main.js`, `worker.js` | two event loops and the messages between them | type, `doSearch`, load, answer, show |
| lunr, `.../search/lunr.js`, `prebuild-index.js` | the index: numbers of terms, the inverted index, a vector per field, the automaton of the words | build, write and load an index; lex and parse a query; find |
| Languages, `contrib/search/lunr-language/*.js` | the registered functions and tables of endings | tokenize, trim, leave out stop words, stem; pipelines of one language and of several |

Not modelled, with reasons in `PROJECT.json`: gh-deploy, the command line, the
contents of a page (Markdown, metadata, titles), themes and localization, the
themes' templates and scripts, `mkdocs new`, packaging.  `docs/` is a generated
site and `source/` is documentation.

### How they interact

- `mkdocs serve` loads the configuration, runs plugins' startup, builds into a
  temporary directory, and starts the live reload server, whose build loop is on
  the main thread.  The file observer's threads and one daemon thread per
  request share its fields under two locks.  Each rebuild loads the
  configuration anew, but plugins with one-time events keep their objects.
- A served page has a script with the epoch it was served under.  It polls with
  that epoch and reloads itself when the answer holds a higher one.
- `build` calls every other component: files, navigation, pages, plugins'
  events, templates.  The search plugin collects entries in one of these events
  and writes the index in another.
- The built site is static, but for the search, whose web worker loads the index
  and the scripts that the plugin copied beside it.  The index was built by
  node when the site was, or is built by the worker; either way it holds stems,
  and a query finds them only if it is tokenized, trimmed and stemmed alike.

### What is hard, and what must hold

| Component | Hard to test | Correct if |
|---|---|---|
| Live reload server | edits, builds, requests and polls in any order; a lock released before the file is opened; wake-ups; exceptions in the loop; timestamps as versions | no edit is lost; no tab trusts a torn or outdated page; everybody who waits goes on; tabs converge |
| Watch table | plugins that watch and unwatch the same path; changes while functions run | a path is observed while watched; each change leads to a call |
| Dev server | tabs of a dead process meeting a new one; failures between startup and serve | epochs order the processes; builds happen within plugins' lives |
| Build | edits in the middle; failures half way, and then a dirty build; two sources for one output | a completed build has what it should, whatever was there before |
| Warnings | filters and handlers that outlive builds that raise | a strict build is judged by its own warnings |
| Links, navigation | caches while plugins change files; one document listed twice; flags shared by pages | links resolve; the reader's path through the pages is the author's |
| Plugins | objects that outlive configurations; events after failures; removed plugins | started plugins are shut down; options are never those of an old file |
| Configuration | passes that read what others wrote; class-level warnings | nothing unvalidated gets out; reports are exact |
| Search | answers that arrive late; two programs that must agree on a list of files | the last query wins; every script imported is there |
| lunr, languages | an automaton merged while it grows; queries that combine required, prohibited, fuzzy and wildcard terms; hand-written tables of some thousand endings; two pipelines that must do the same | what is found is what the query means; each word finds its page |

`PROJECT.json` lists these as hazards, at their lines.

## 2. Modules

Checked modules stand alone unless noted.  Where a model has constants that need
definitions, `MC<module>` has them.  Variants of an action marked "faulty" are
plausible bugs that the checks must find; nothing uses them in `Next`.

Proofs are in modules of their own, one for each part of the program:
`DevServerProofs` (with `LiveReload`), `ProcessProofs` (`WatchTable` and
`StrictMode`, what a process keeps from build to build), `BuildProofs`,
`StructureProofs` (`Links` and `Navigation`, after `mkdocs/structure`),
`PluginsProofs`, `ConfigProofs` and `SearchProofs` (`SearchIndex` and
`SearchClient`).  `SequenceLemmas` has what several of them need: inductions over
numbers and sequences without a theorem that takes an operator, the folds of the
community modules as chosen functions, and `Min`, `Max` and `Remove`.

### LiveReload, AtomicSite, DevServer

`LiveReload` is the server from `serve()` on.  `loop` is the program counter of
`_build_loop`; `toRebuild`, `wantedEpoch`, `visibleEpoch`, `shutdown` are its
fields.  A condition variable is modelled by the state of who waits: `notified`
for the loop's debounce; `"fetchWait"` and `"pollWait"` for handler threads that
are asleep, woken by `Publish` only.  `server` follows `shutdown()`: connections
are accepted until `serve_forever` has ended (`StopAccepting`), after
`_shutdown` is set, and threads live until the process ends (`Exit`).  A build is what it looks like from outside:
`Clean` removes everything, pages are read in any order, and then each output
is opened (truncated) and written.  A tab and the handler thread it waits for are
one state machine (`pc`), since a tab has one request at a time.

Steps are as small as the locks make them.  `FetchEpoch` is the handler's
critical section, `ServeFile` the `open()` after it; that the lock is released
in between is the point of the model.  Time: `clock` counts debounce periods,
and every build begins with a debounce wait of at least one, so two builds have
different epochs (in the code, milliseconds against a delay of 0.1 s).

`AtomicSite` is what the server promises: editions of the site that come and go
as a whole, and tabs that are up to date or know they must reload.  `LiveReload`
implements it under the mapping `settled <- Built`, `edition <- Edition`,
`current <- Current`, `outdated <- Outdated`.

`DevServer` extends `LiveReload` by `phase`, the statements of `serve()`, and
lets the process end and begin again while tabs stay open.  Construction of the
server resets all its fields; its epoch is later than any before, because the
monotonic clock is the machine's.

### WatchTable

`LiveReload` has one function, the builder; this module has many, and the ordered
set of them.  Debounce and shutdown are in `LiveReload`; here the loop takes the
functions at any moment, or never.  `asked` (history) holds the calls of `watch` in force, `owed` the
functions whose paths changed since they last began.

### Build

One action per step of `build()`; `left` is what the current loop has still to
do, in any order, since nothing may depend on the order of files.  Outputs carry
what they were written from, so that exactness can be stated.  `settled` and
`quiet` (history) tell edits between builds from edits during one.  Every write
and every edit has its own time, which only the comparison in `is_modified` sees.
`Tear` is a write that raises between `open()` and its end.

### StrictMode

The duplicate filter is on the logger of `build.py` and is not asked for what
other loggers log; a handler is on the logger for the time of a strict build.

### Plugins

`yml` is the list in `mkdocs.yml`, with edits; an object goes by its name, its
number among those of that name, and when it was made.  `RunEvent` begins an
event, `Call` and `CallRaises` are one method each.  `Register` puts one method
behind all of at least its priority, where `utils.insort` puts it; `Methods` is
the fold of it over the plugins.

### Navigation, Links

`Navigation`: the tree is a sequence of items, each after its section; a `Page`
goes by the position of its item.  `GetPages` visits it as `_get_by_type` does, an
item, what is in it and the rest of the list; `Before` says the same of two items
by what is around them.  Any file that `nav` names gets a `Page`, but only
documents are read, and in a dirty build not all of them (`SkipRead`, `SkipPage`:
the two looks at modification times, which need not agree).  Whether a document
is modified is open, since `Build` has the times.  Sections go by the titles that
`dirname_to_title` makes (`TitlesOf`), which directories may share.  `Links`: a path is a sequence of names, and
the functions of `files.py` and `utils` are operators on them; the plugin's
`append` and `remove` and the cached `src_uris` are state.  A page is a file with
one of the five `MarkdownExtensions`; `Assets` is what the theme adds to what
was found in `docs_dir`.

### Config

Two schemas, that of `mkdocs.yml` with an option of each kind and a plugin's with
each kind of wrapper.  A value is how validation will take it: `"good"`, `"odd"`
(warned of), `"bad"`, `"worse"` (both), `"late"` (refused by the last pass).
`lists` is which option object shares which list of warnings: the wrappers share
that of what they wrap, and `reset_warnings` replaces it in place of the wrapper
only.  `WellFormed` is what is assumed of a plugin's schema: keys differ, as
in Python's dict, a deprecated option is moved to one that is there and takes no
other's value, and options are combined as they are in MkDocs' own schemas.

### SearchIndex, SearchClient

`SearchIndex`: a page is a sequence of tokens, fed one by one; texts go by their
position.  It has also the worker's side of the list of scripts, `Imported`.
`SearchClient`: each turn of an event loop is an action, each direction of
`postMessage` a queue.  What lunr answers is a constant, `Lunr`, so that what is
proved of the protocol holds for every index.

### SiteSearch and the modules below it

`SiteSearch` gives these constants their values: the index that
`onScriptsLoaded` builds or loads, and what `index.search` finds in it.
Its part on meaning is the abstract specification of both, without automata,
vectors and lexers: documents are sets of words, a query is the clauses a reader
means, and `Meant` says which documents those stand for.  Below it, each extending the
one before:

- `Snowball` is the runtime of the stemmers, `lunr.stemmer.support.js`: slices
  at the end of a word, and the binary search in a table of endings.  The
  thirteen modules `Stem*` are the stemmers, a rule per line and each table as
  data; `StemEn` is that of `lunr.js` itself.
- `Languages` has the tokenizers, trimmers, stop words and pipelines, of one
  language and by `lunr.multi.js` of several.
- `TokenSet` is the automaton: `Insert` and `Minimize` are the builder's, with
  its key of labels and ids; `FromString`, `FromFuzzyString` and `Intersect`
  those of a query.
- `LunrQuery` is lexer and parser.  A lexer's state is a record and `LexText` a
  transition of it; what follows what in the parser is the table `Follows`.
- `LunrIndex` is the builder with its vectors, writing and loading an index, and
  `Query`, which goes through the clauses as `lunr.Index.query` does.

These are functions, written with folds and recursive operators; the actions
that use them are those of `SearchClient`.

## 3. Runs

| Run | Instance | Shows |
|---|---|---|
| `live` | 2 documents, 1 tab, 1 edit of each; 49 thousand states | `EpochsTellBuilds`, `TrustedPageIsCurrent`, `NoLostWakeup`, `NoLostEdit`; it implements `AtomicSite` (`PublishesAtomically`); `TabsConverge`, `RequestsEnd`, `ShutdownEnds` under fairness |
| `half_built` | 1 document, 2 edits | violation, see section 6 |
| `dev_server` | 2 processes, 1 document, 1 tab; 13 thousand states | `TrustedAcrossRestarts`, `BuildsInsideLifetime`; `TabsFollowRestart` under fairness |
| `watch_table` | 2 paths, 2 functions, 3 calls, 3 events | `ObservedWhileWatched`, `OwedCallsAreQueued` |
| `build` | 2 pages, an `index.html` beside `index.md`, an extra template, a theme template; 2 builds, 2 edits; 1.3 million states | `CleanBuildIsExact`, `SettledEditsAreBuilt`, `IndexMatchesSite` |
| `strict` | 3 builds, 2 warnings of `build.py`, one of another module | `HandlersMatchBuild`, `FirstWarningsAbort` |
| `plugins` | 3 plugins, one persistent, one of higher priority; lists of up to 2, 1 edit, 2 builds | `ObjectsFollowConfig`, `CallsInOrder`, `StartedAreShutDown` |
| `navigation` | every `nav` of up to 4 items, or none, over 1 or 2 documents with or without an image; of up to 3 over none or 3 and the image; of 1 or none over 4 or 5; clean and dirty builds; 147 thousand states | `ActiveIsTrail`, `NavPagesAreRead`, `NeighboursFollowNav`, `DirectoriesAreSections` |
| `links` | every set of 10 files, both URL styles, one change by a plugin; 34 thousand states, some 30 links each | `LinksLeadToTargets`, `NavLinksLeadToPages`, `NothingWrittenOver` |
| `config` | up to 2 options set, in the file and on the command line, 2 loads, two schemas; 338 thousand states | `LoadedIsValidated`, `ReportIsExact` |
| `search_index` | 2 pages of 6 tokens, 9 settings of the languages; 2.1 million states | `EntriesMatchPages`, `ScriptsAreInSite` |
| `search_client` | 23 sites, in 18 languages (of two the scripts do not load) and two mixtures; an English one with 19 kinds of queries, built in the worker and by the server; one with 3 changes of the box; 3.5 thousand states | `LatestQueryIsShown`, `AnswersAreExact`, `WordsAreFound`, `TokenSetIsMinimal`, `TablesAreInOrder`; `QueriesAreAnswered` under fairness |

Each property has a mutant of the code that violates it.

**Bounds and why they are enough.**  `live`: tabs interact with the server but
not with one another, so one is enough, and the theorems of section 4 cover any
number; two documents are needed for a build that has written one and not the
other; two edits in all let one fall in every state of the build caused by
the other.  `dev_server`: a tab meets two processes; a third would be to the
second as the second to the first.  `build`: every pair of builds (clean or
dirty, completed or failed) with edits before, between and during; the instance
has each kind of source, one shared output and one that renders to nothing.
`watch_table`: two watchers of one path, one of another.  `strict`: one build
that leaves something, one between, one that looks.  `plugins`: two entries
suffice for equal and different priorities and for two instances of one plugin,
two builds for objects that live on.  `navigation`: four items make sections in
sections and a document listed twice, with an image before, between or after;
the documents without a `nav` are in directories of one title beside each other
and at two depths.  `links`: the ten files have index,
README, hidden, templates and assets at two depths, two Markdown extensions, and
a page, a directory and an HTML file of one name.
`config`: an option and the one it reads or wraps are both set, in the first
load or the second.  `search_index`: six tokens hold two headings with text
behind each, or one on either page.  `search_client`: three changes leave two
answers on their way while a third query is typed, and the proof of section 4
is for any number.  A site has two or three documents, with words that share
beginnings and endings, so that automata are merged; the texts have each
operator of the query language alone and combined, with the ways to go wrong.
In each language the words are such that the stemmer takes endings off, and all
its tables are checked whole.  The guards that stop at a bound are those with
`Max...` constants and `site.keys`.

**Deadlock.**  All of these systems stop by right (a server exits, a build
ends, a user stops typing), so `CHECK_DEADLOCK` is off; that nobody waits in
vain is stated by liveness properties, and by invariants such as
`NoLostWakeup`.

**Fairness.**  `LiveReload`: weak fairness of the observer, of the build loop, of
each tab's script and handler thread: threads that can run do run, timers fire,
and `func()` returns or raises.  The interpreter exits when the main thread is
through, and after an exception `serve.py:119-120` calls `shutdown()`.  Nothing
is assumed about the user, about exceptions, or about anybody else who calls
`shutdown()`.  `DevServer`: the same and that `serve()` goes on to its next
statement; nobody has to start it.  `SearchClient`: both event loops go on, and
loading the index ends one way or the other.  The others state no liveness.

## 4. Proofs

All theorems are about every number of pages, tabs, edits, builds, processes,
paths, plugins, queries and so on.  The only assumptions are the named ones on
constants, each a fact of the code or about how a model names things:

- bounds are numbers, and markers are not what they mark (`NoFuncAssumption`,
  `TextsAssumption`; `AbsentAssumption`, that nothing is written by the marker
  of an absent output);
- `Build`: pages are no static files and templates no files of `docs_dir`
  (`KindsAssumption`), each source has an output (`DestAssumption`), and extra
  templates are static files (`ExtrasAssumption`);
- `SearchClient`: where the search works, each text has an answer
  (`SearchAssumption`);
- `Plugins`: those with one-time events are plugins (`PersistentAssumption`), and
  priorities are integers (`PriorityAssumption`);
- `Config`: `SchemaAssumption` (a schema is a sequence with an option in it) and,
  for `ReportsExact` only, `OptionsAssumption` (`WellFormed` of the plugin's; that
  `mkdocs.yml`'s is so is a lemma, `MkDocsWellFormed`);
- `StrictMode`: `MessagesAssumption`, finitely many messages;
- `Links`: `docs_dir` and the theme are finite (`FiniteAssumption`); a path is a
  sequence of names that is not empty (`PathsAssumption`); no file is called `..`,
  and of a directory's name the model takes no extension off
  (`DirectoriesAssumption`);
- `Navigation`: of the files there may be and `nav` (`SitesAssumption`), `nav` is a
  tree, so that what is around an item is a section, and a collection has a
  document once (which is `SourcesApart` of `Links`); each document has a sequence
  of directories (`FoldersAssumption`), and each of these a title
  (`TitleAssumption`);
- `SearchIndex`: headings in the table of contents have ids and others are told
  from them (`IdsAssumption`), a page is built once (`PagesAssumption`), and
  languages are sequences of codes (`CodesAssumption`).

Why each invariant is strengthened:

- `DevServerProofs` (1080 obligations) has the proofs about the server, in one
  process and then in any.
  - `TypeCorrect`.  `EpochsOrdered`: the visible epoch is at most the wanted one
    and below it exactly while a build runs, and the clock is behind neither;
    with it `EpochRaised`, that every publication raises the visible epoch, so
    that a poll from before it succeeds.  `BuildsTold` is `EpochOrder` and
    `TabEpochs` below: the epochs tell when the site is whole.  `NoWakeupLost`.
  - `TrustedPagesCurrent` is not inductive by itself; it rests on `EpochOrder` (a
    tab with the wanted epoch during a build is impossible), `TabEpochs` (no tab
    knows an unpublished epoch) and `SiteProgress` (what is published is whole).
    `NoEditLost` rests on `SeenOrder` (the observer sees no version that never
    was) and on the position of the loop.  Lemmas about what groups of actions
    leave alone (`LoopFrame`, `SiteFrame`, `EditFrame`, `TabFrame`) keep the case
    analysis short.
  - `SitePublishedAtomically`: each step of `LiveReload` is a step of
    `AtomicSite` or leaves its variables alone, under the mapping above.
    `StartBuild` starts an edition, since by `TabEpochs` no tab has the new
    epoch; `Publish` publishes it; `ServeFile` shows a page, of this edition if
    the epoch is the latest, which is where `TrustedPageIsCurrent` is needed;
    every step inside the build stutters.
  - `BuildsInLifetime`, by what `serve()` has behind it in each phase.
    `TrustedInAnyProcess`: the server's own steps keep the invariants above in
    any process (`TypeStep`, `EpochStep`, `TabEpochStep`, `SiteStep` and
    `TrustedStep` are lemmas), and a new server begins with an epoch above every
    tab's, `ConstructEpochs`.  The invariants about the site hold only from the
    initial build to the end of the phase "serve": the directory is removed while
    handlers still run.
- `BuildProofs` (964 obligations).  `BuildTypes`.  All rest on `LoopOrder` (in
  each step of a build, what is left to do is of the kind that step is about) and
  `FilesRead` (the files of a build are those that exist but for edits since).
  - `IndexOfSite`, by `Indexed`: the index of a clean build has the pages that
    the last loop is through with.
  - `CleanBuildsExact`, by `Covered`: `Level` is the last loop so far that has
    written a source's output, and what is at an output was written by a source
    of the highest level, in its current version.  At the end the levels are the
    ranks of precedence.  With it `CleanRead`, that pages read are current.
  - `SettledEditsBuilt`, for dirty and failed builds too, by `SettledTended`: if
    the times say that an output is up to date it is so.  That needs `Timely` (no
    time is ahead of the clock, an output knows which of its own sources wrote
    it) and `ReadSettled` (what was read of a settled page is still there).
- `PluginsProofs` (1407 obligations).
  - `MethodsInOrder` is by induction over the length of the list, which the
    library's theorems on natural numbers cannot be cited for (they take an
    operator).  `NumbersBySteps` of `SequenceLemmas` does it from the theorem that
    a well-founded order has least elements, of sets: the set of lengths for which
    the claim fails has no least one.  `MethodsChosen` shows first that the fold, a
    function that is chosen, is the one that goes step by step.  `InsertionPoint`
    is what `insort` finds in a sorted list, and `RegisterInOrder` that the list
    stays sorted, and among equals in the order of the plugins.
  - `PluginsCalledInOrder`, by `EventInOrder`: what was called and what is to be
    called are together the event's methods.  `PluginsShutDown`, by
    `OneTimeEvents`, which says for each phase what the one-time events have
    done.  `PluginObjects`, by `OneOfEach` (the cache has one object for each
    place of a name), `ObjectsTied` (what a build used is in the cache or was
    made for it) and `OptionsCurrent`.  `PluginTypes`.
- `ConfigProofs` (1843 obligations).
  - `OnlyValidatedLoaded`, by going along with the passes: what the second has
    behind it is validated unless something failed, and the third derives only
    what was not set.
  - `ReportsExact`.  The property looks back, from the end of a load, at what
    was set; the invariant has to say for each pass and each place in it what
    is reported so far (`ReportInv`), what the values are by then, since the first
    pass moves some and the second replaces others (`ValueInv`), and which
    option's list of warnings is empty and whose it is (`ListsInv`): lists belong
    to the class and outlive a load, so that an earlier load's warnings would be
    reported again if one were not reset.  `HookLists` and `HookHeard` say what a
    hook does to the lists.  The first pass moves one option's value after the
    other; `AllMoved` shows that its fold of moves is the map that the property
    speaks of.
- `ProcessProofs` (414 obligations).
  - `HandlersMatch` and `WarningsAbort`, by an invariant that adds: counts of
    builds to come are zero, and while a build runs the filter holds nothing but
    what it or an earlier build logged.  `CountsTypeCorrect`: types that bound a
    count need that a build has counted no more messages than it has logged.
  - `TypeCorrect`, `HandlersFollowCalls`, `ChangesAreQueued` of the watch table;
    the strengthening is that the loop has nothing left when it waits and that no
    count exceeds the number of calls.
- `StructureProofs` (3954 obligations).
  - `OutputsApart`, by `FilesInv`: a source is in the collection once, and was
    taken from `docs_dir` or is an asset of the theme.  The rest is about outputs:
    those of pages end in `.html` (`PagesAreHtml`), which no asset does; two pages
    of a directory with one output have one stem (`OneOutputOneStem`: both at the
    end of it or both one further down, by their lengths), hence are its index and
    README, of which one was left out.
  - `LinksLead`, `NavLinksLead`.  The state adds little (`CollectionInv`: the
    cached `src_uris` hold the sources there are, in what plugins made of them);
    the rest is what the browser, `relpath` and `normpath` make of paths of any
    length.  `NormBySteps` makes of the fold one step per name, with which
    normalizing goes through the first part of a path and then the second
    (`NormOfConcat`), leaves a path without `..` alone (`NormOfInside`), and for a
    number of `..` takes so many names off (`NormOfUps`).  `CommonPrefix` is what
    two paths share, and `WayLeads`: the way up from one to it and down to the
    other leads there, from wherever the site is mounted.  The cases are then those
    of `get_relative_url` and of `Dest`: directory URLs, `./`, and the home page's
    empty URL (`HomeLeads`).
  - `NavActiveIsTrail`, `NavReadsPages`, `NavNeighbours`, `NavDirectories`, all by
    `NavInv`: from `get_navigation` on, the pages are those of the tree, `file.page`
    is the last of a document's, and as far as reading has come each was read
    or passed over as unmodified; the active set is empty, or within `_build_page` what the setter went
    through.  Recursive functions over the tree exist by `RecursionExists`, for any
    rank that falls: the trail of an item by `DownTheTree`, since a section comes
    before what is in it, the visit by `UpTheTree`, since both what is in an item
    and the rest of its list come after it.  By the latter `PagesOrdered`: a visit
    lists the pages of what it goes over, each before the next in the sense of
    `Before`, of which `BeforeOneWay` shows that no two items are so both ways;
    hence the list has each page once, in the one order there is, and neighbours
    are neighbours in it.  `NestedIs` is two inductions, over the files and over
    the directories of each: the tree only grows (`Extends`), has one section of a
    title in each place (`OneSection`), and each file is placed at the end of the
    way of its directories (`Placed`).
- `SearchProofs` (1755 obligations).
  - `LatestQuery`: the messages take the page through fixed stages to that of
    searching, and there the last word decides (`LastWord`): what was asked last
    is the last query on its way, or its answer the last answer, or it is shown.
  - `ScriptsInSite`.  `settle` removes and appends while it goes through the
    languages as they were set, so that one code may be there twice, as it is and
    as the fallback of another.  `Owed` says what the list has while the fold is
    under way: the codes in it that have no script are among those still to come,
    one for one (`Matched`), since `remove` takes one of equal codes off at a time.
    At the end none are left (`OnlySupported`), and what the worker imports for
    them is what was copied (`ImportedCopied`).
  - `EntriesAreThePages`.  `ParseInv` is the parser's state against what it was
    fed: its sections go with the headings so far, one for one and in order
    (`Sections`), each has the heading's id and the text up to the next, and an id
    of the table of contents comes once; `HeadingParsed`, `TagParsed` and
    `DataParsed` keep it.  `SectionsSay` and `PageAdded`: what
    `add_entry_from_context` makes of the sections, a fold as well, is what the
    property says of the page, and no other page has an entry there.

Only model-checked: liveness under fairness (out of the prover's reach), and
`SiteSearch`, whose modules are recursive, which keeps the prover away from them
altogether.  `NavInv` was checked by TLC before it was proved; it is in no run,
since it computes the pages anew in every state.

## 5. Abstractions

- A page's text is a version number; rendering is the identity on versions,
  except that some templates render to nothing and are not written.
- Handlers: only page requests and polls.  A file that fails to be
  read half way, a broken connection and a content type change nothing shared.
- The observer takes a snapshot of all files at once in the code; `Notice` is
  per page, which allows more orders than there are.
- Dirty builds are in `Build` and `Navigation`; the server is modelled with clean
  ones, the default.
- Modification times differ (`Build`).  `is_modified` compares with `<`, so that
  an edit in the same tick of the file system's clock as the writing before it is
  not seen by a dirty build; that is outside the model.
- `Links`: quoting of URLs is left out, which is one to one and undone by the
  web server, and the theme's assets include some that the patterns of
  `files.py:112-116` take out (readmes, locales): more to meet than there is.
- Registering with the observer (`schedule()`) is assumed not to raise.
- `SearchClient` assumes a Web Worker; without one the same functions run on
  one loop.  `SearchIndex`: ids are unique on a page, headings are not nested,
  and the table of contents lists headings in the order of the page, as the
  Markdown extension makes it.
- `SiteSearch`: of relevance only a term's frequency and boost are modelled, not
  idf and the lengths of fields, which order results; results are sets.  Where
  in a text a match is, is left out.  Letters are those of Latin scripts up to
  code 255, in the order of their codes: Python and JavaScript agree on it there.
  Russian, Turkish and Arabic are not modelled, and of Japanese only texts that
  its segmenter has nothing to do with.  The lists of stop words but the English one are
  a constant, since they are data that nothing depends on.  Operations of lunr
  that neither `worker.js` nor `prebuild-index.js` calls are left out.
- `Config`: what a type accepts is reduced to how validation takes a value, and a
  default that is not valid (no directory `docs`) is taken as a bad value;
  `INHERIT` and `!ENV` come before it and are left out.

## 6. What the code does otherwise than it says

Shown by a run:

- `livereload/__init__.py:263` has handlers wait "so we're not serving a
  half-built site", but the lock is released before the file is opened.  The run
  `half_built` shows a tab with a torn page.  `TrustedPageIsCurrent` and
  `TabsConverge` say how far the harm goes: the tab reloads when the build is
  published.  If the file was missing it got a 404 page, which has no script and stays.

Met while modelling, without a run of their own:

- `serve.py:83` builds before the observer starts at `serve.py:116`: an edit in
  between is in neither (`DevServer` has the window; `NoLostEdit` is about what
  the observer has noticed).
- `serve.py:78`: if loading or a startup event raises, the temporary directory
  stays (`StartupRaises`).
- `build.py:314` copies static files first so that "files with higher precedence
  can overwrite them", but in a dirty build the copied `index.html` makes
  `index.md` look unmodified at `build.py:209`, and the page is not written
  (`SettledEditsAreBuilt` is stated for outputs with one source).
- `build.py:209` asks again what `build.py:168` asked before: a page saved in
  between is rendered without having been read, and the search plugin's
  assertion (`search_index.py:66`) ends the build (`BuildUnreadPage`).
- `utils/__init__.py:181`: a write that raises after `open()` (a full disk) leaves
  a cut-off output that is newer than its source, and later dirty builds keep it
  (`Tear`; such files leave `settled`).
- A page saved between its reading and its writing in a dirty build has an
  output newer than the source, and is not rebuilt until it is saved again
  (`files.py:253`; the reason for `settled`).
- `build.py:29`: a warning of `build.py` that an earlier build in the process
  logged is not counted again, so that strict mode turned on during `serve`
  does not see it (`before` in `FirstWarningsAbort`).
- `livereload/__init__.py:113`: `watch` of a watched path with another function
  keeps the first (`Watch`).
- A plugin added to `mkdocs.yml` while serving takes part in builds but is
  neither started nor shut down (`config_options.py:1003`).
- A document listed twice in `nav` leaves its first `Page` without content
  (`NavPagesAreRead` says "unless").  A dirty build reads the modified pages only
  (`build.py:168`), so that the theme renders these with a navigation in which the
  others have no content, and no title but the one in `nav` (`SkipRead`).
- `nav.py:211-213` makes a `Page` of any file in `nav`, an image for example, which
  `build.py:305` never reads (`IsPage`; `NavPagesAreRead` is about documents).
- Without `nav`, directories like `foo-bar` and `foo_bar` have one title, and their
  pages come into one section (`utils/__init__.py:377-385`, `TitlesOf`).
- `plugins` is validated one by one: when one fails, those before it, and itself
  if it is its options that are wrong, have been put into the cache of objects
  already (`config_options.py:1003`, `LoadFails`).
- `guide.md` and `guide/index.md` share an output with directory URLs, and one
  is lost without a warning.  So it is with `guide.md` and `guide.html` without
  directory URLs, and with `guide.md` and `guide.markdown` always: that only
  files of different directories could meet, as `NothingWrittenOver` once had it,
  was refuted by the attempt to prove it.  `README.md` gives way to `index.md`
  (`files.py:295-301`), but `README.markdown` does not.
- Warnings of the items of a `ListOfItems` and of a wrapped `SubConfig` are never
  reported (`config_options.py:163`, `Heard` in `Config`).
- A short query clears the results, but the answer to the one before it, when
  late, brings them back (`main.js:64`, `main.js:86`).
- The separator of queries (`lunr.js:3123-3134`) is the tokenizer's "by default",
  copied when `lunr.js` is loaded, before `worker.js:61-64` sets that of the site.
  With the separator of `source/user-guide/configuration.md:688-700`, which also
  splits at dots, `mkdocs.yml` is indexed as two words and looked for as one.
  The instances have separators for which both split alike.
- `pages.py:315`: "No '.' in the last part of a path indicates path does not point
  to a file", but a link to `LICENSE` does, and is left as it is: wrong from a page
  whose output is not in its source's directory (exempt in `LinksLeadToTargets`).
- Queries of sites in Japanese, Vietnamese or Thai alone go through the English
  stemmer, their texts through their own (`lunr.ja.js:66`, `lunr.vi.js:56`; exempt
  in `WordsAreFound`).  `vi.stopWordFilter` is not registered, and the brackets in
  `lunr.vi.js` and `lunr.th.js` keep their trimmers from trimming.
- `lunr.th.js:86` needs `lunr.wordcut`, which no script that
  `contrib/search/__init__.py` copies provides, and `lunr.jp.js:5` has `module`,
  which a worker has not: such sites have no search (`ScriptThrows`).
- The word characters of the Latin languages have no digits: "2023" is not in
  the index of a German site, and the query, which is not trimmed, finds nothing.
- `lunr.js:2026-2031` says that a required term without a match ends the query
  since further clauses cannot match; the `break` leaves the loop over the terms
  of this clause.  The result is the same.
- A query of white space finds every document.  `foo -`, `foo^`, `foo~` and
  `x:y` throw in the worker, and the page gets no answer and keeps the results
  it has (`Unanswered`).  So does an empty query, which is sent if
  `min_search_length` is 0 (`worker.js:127`).  A wildcard after a backslash is one all the same.
- `lunr.js:1530-1555`: whether a transposition is at the end of a word is asked
  where it cannot be, so that "ca" is not within two edits of "abc".
- `TokenSet.toString` writes labels and ids one after the other: with digits for
  labels two nodes could have one key.  None do in the instances
  (`TokenSetIsMinimal`).
- An index built by lunr.py has its terms in the order of code points, which
  is not that of UTF-16 beyond the first plane: `lunr.js:1770` throws on it.
- `lunr.hu.js` has endings with õ and û for ő and ű, which no Hungarian word has.
- Without Web Worker `worker.js` asks for `/search/...` at the root of the host.
- `gh_deploy.py:106` goes on after the error that the directory is not a git
  repository; `gh_deploy.py:70` compares versions with the local branch only.

## 7. Plan

Done, in this order: the live reload server, its abstract specification and
proofs; the process around it; the build, its warnings and the watch table; the
search client; plugins; navigation; links; configuration; search index; the
stemmers and languages; lunr's index and queries with their meaning; proofs of
the protocol of the search, of the configuration and of restarts; then of the
build, of plugins, of the reports of the configuration, and of the outputs; then
of links, of the search index and its scripts, and of the navigation.

Next:

1. *Build with plugins*: `Build` and `Plugins` composed, an abstract
   specification of a build as one step, and `Build` shown to implement it for
   clean builds without edits.
2. *Theme*: inheritance of themes, directories and static templates; which
   translation wins in `_get_merged_translations`.
3. *Plugins*: Hooks, reloaded with the configuration; values handed from method
   to method.
4. *Languages*: the stemmers of Russian, Turkish and Arabic.
