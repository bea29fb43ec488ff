----------------------------- MODULE Navigation -----------------------------
(***************************************************************************)
(* get_navigation() (structure/nav.py) and what the build does with the    *)
(* Page objects it makes: one for each entry of nav, or of the tree made   *)
(* from the directories if there is no nav, and one for each document that *)
(* is not in it.  A document listed twice has two objects, and the last is *)
(* the one that is read and written.  A file that is no document has one   *)
(* too if nav lists it, but only documents are read.  While a page is      *)
(* rendered it and the sections it is in are active, for the theme to      *)
(* highlight.                                                              *)
(***************************************************************************)
EXTENDS Integers, Sequences, SequencesExt, FiniteSets

CONSTANTS Docs,         \* names of Markdown files
          Media,        \* names of other files: images, HTML, theme assets
          Directories,  \* names of directories
          Titles,       \* titles of sections
          Title,        \* dirname_to_title: api, Api and API share one
          Folders,      \* the directories each document is in
          Sites         \* the files there may be, and what nav may be then

(* A tree is a sequence of items, each after the section it is in; up is   *)
(* the position of that section, 0 at the top level.  A Page object goes   *)
(* by the position of its item; those of other documents come after.       *)
Item == [kind : {"path", "section"}, name : Docs \cup Media \cup Titles, up : Nat]
IsTree(tree) ==
  /\ tree \in Seq(Item)
  /\ \A i \in DOMAIN tree :
       /\ tree[i].up < i /\ (tree[i].up # 0 => tree[tree[i].up].kind = "section")
       /\ tree[i].name \in IF tree[i].kind = "section" THEN Titles ELSE Docs \cup Media

ASSUME TitleAssumption == Title \in [Directories -> Titles]
ASSUME FoldersAssumption == Folders \in [Docs -> Seq(Directories)]
ASSUME SitesAssumption ==
  \A site \in Sites :
    /\ site.documents \in Seq(Docs) /\ IsInjective(site.documents)
    /\ site.others \subseteq Media /\ IsTree(site.nav)

VARIABLES
  documents,  \* the documentation pages among Files, in their order
  others,     \* the other files
  nav,        \* config['nav'], <<>> if it is not set
  dirty,      \* a dirty build, which leaves alone what is not modified
  items,      \* the items of Navigation and its sections
  pages,      \* Navigation.pages: those items that are pages, in order
  beside,     \* previous_page and next_page of each, 0 for None
  pageOf,     \* file.page of each document
  stage,      \* what the build is doing: "render" is within _build_page
  at,         \* the position in documents of the document it is doing it with
  read,       \* the Page objects that have content
  unmodified, \* the documents that were not to be read, in a dirty build
  active      \* the objects whose active is True

inputs  == <<documents, others, nav, dirty>>
objects == <<items, pages, beside, pageOf>>
navVars == <<inputs, objects, stage, at, read, unmodified, active>>

NavInit ==
  /\ \E site \in Sites :
       documents = site.documents /\ others = site.others /\ nav = site.nav
  /\ dirty \in BOOLEAN
  /\ items = <<>> /\ pages = <<>> /\ beside = <<>> /\ pageOf = <<>>
  /\ stage = "files" /\ at = 1 /\ read = {} /\ unmodified = {} /\ active = {}

-----------------------------------------------------------------------------
\* Faulty variant: any section of that title will do.
FindAnywhere(branch, title) ==
  LET found == {i \in DOMAIN branch.tree :
                  branch.tree[i].kind = "section" /\ branch.tree[i].name = title}
  IN IF found # {} THEN [branch EXCEPT !.at = CHOOSE i \in found : TRUE]
     ELSE [tree |-> Append(branch.tree, [kind |-> "section", name |-> title, up |-> branch.at]),
           at   |-> Len(branch.tree) + 1]

\* find_or_create_node: the section of that title in the branch.
FindOrCreate(branch, title) ==
  LET found == {i \in DOMAIN branch.tree :
                  /\ branch.tree[i].kind = "section" /\ branch.tree[i].name = title
                  /\ branch.tree[i].up = branch.at}
  IN IF found # {} THEN [branch EXCEPT !.at = CHOOSE i \in found : TRUE]
     ELSE [tree |-> Append(branch.tree, [kind |-> "section", name |-> title, up |-> branch.at]),
           at   |-> Len(branch.tree) + 1]

\* What the sections of a document are called.
TitlesOf(doc) == [k \in DOMAIN Folders[doc] |-> Title[Folders[doc][k]]]

NestPath(tree, doc) ==
  LET branch == FoldLeft(FindOrCreate, [tree |-> tree, at |-> 0], TitlesOf(doc))
  IN Append(branch.tree, [kind |-> "path", name |-> doc, up |-> branch.at])

NestPaths(paths) == FoldLeft(NestPath, <<>>, paths)

Children(tree, i) == {j \in DOMAIN tree : tree[j].up = i}
Following(tree, i) == {j \in Children(tree, tree[i].up) : j > i}
First(list) == IF list = {} THEN 0 ELSE Min(list)

AllFiles == ToSet(documents) \cup others

\* A path that is found among the files, of any kind, becomes a Page,
\* another a Link.
IsPage(item, files) == item.kind = "path" /\ item.name \in files

\* Faulty variant: what is in a section comes after the rest of its list.
LevelByLevel(tree, files) ==
  LET visit[i \in 0..Len(tree)] ==
        IF i = 0 THEN <<>>
        ELSE (IF IsPage(tree[i], files) THEN <<i>> ELSE <<>>) \o
               visit[First(Following(tree, i))] \o visit[First(Children(tree, i))]
  IN visit[First(Children(tree, 0))]

\* _get_by_type: an item, then what is in it, then the rest of the list,
\* which is the order in which _data_to_navigation makes the pages.
GetPages(tree, files) ==
  LET visit[i \in 0..Len(tree)] ==
        IF i = 0 THEN <<>>
        ELSE (IF IsPage(tree[i], files) THEN <<i>> ELSE <<>>) \o
               visit[First(Children(tree, i))] \o visit[First(Following(tree, i))]
  IN visit[First(Children(tree, 0))]

\* The page of a document that nav does not have.
Apart(tree, docs, doc) == Len(tree) + SelectInSeq(docs, LAMBDA d : d = doc)

\* Faulty variant: a document keeps the page it has.
PageOfFirst(tree, files, docs, doc) ==
  LET own == SelectInSeq(GetPages(tree, files), LAMBDA i : tree[i].name = doc)
  IN IF own # 0 THEN GetPages(tree, files)[own] ELSE Apart(tree, docs, doc)

\* Page.__init__ sets file.page, for missing_from_config in the end.
PageOf(tree, files, docs, doc) ==
  LET own == SelectLastInSeq(GetPages(tree, files), LAMBDA i : tree[i].name = doc)
  IN IF own # 0 THEN GetPages(tree, files)[own] ELSE Apart(tree, docs, doc)

\* _add_previous_and_next_links, over bookended pages.
Neighbours(list) ==
  LET bookended == <<0>> \o list \o <<0>> IN
    [i \in ToSet(list) |-> LET k == SelectInSeq(list, LAMBDA j : j = i)
                           IN <<bookended[k], bookended[k + 2]>>]

GetNavigation ==
  /\ stage = "files"
  /\ items' = IF nav = <<>> THEN NestPaths(documents) ELSE nav
  /\ pages' = GetPages(items', AllFiles)
  /\ beside' = Neighbours(pages')
  /\ pageOf' = [d \in ToSet(documents) |-> PageOf(items', AllFiles, documents, d)]
  /\ stage' = IF documents = <<>> THEN "done" ELSE "read"
  /\ UNCHANGED <<inputs, at, read, unmodified, active>>

-----------------------------------------------------------------------------
Done(next) ==
  IF at < Len(documents)
  THEN at' = at + 1 /\ stage' = IF stage = "read" THEN "read" ELSE "write"
  ELSE at' = 1 /\ stage' = next

\* _populate_page
Populate ==
  /\ stage = "read"
  /\ read' = read \cup {pageOf[documents[at]]}
  /\ Done("write")
  /\ UNCHANGED <<inputs, objects, unmodified, active>>

\* _populate_page of a dirty build: the output is newer.
SkipRead ==
  /\ stage = "read" /\ dirty
  /\ unmodified' = unmodified \cup {documents[at]}
  /\ Done("write")
  /\ UNCHANGED <<inputs, objects, read, active>>

\* The setter of active passes the value on to parent.
Chain(tree, page) ==
  LET around[i \in 0..Len(tree)] == IF i = 0 THEN {} ELSE {i} \cup around[tree[i].up]
  IN IF page \in DOMAIN tree THEN around[page] ELSE {page}

\* _build_page up to the rendering of the template.
Activate ==
  /\ stage = "write"
  /\ active' = active \cup Chain(items, pageOf[documents[at]])
  /\ stage' = "render"
  /\ UNCHANGED <<inputs, objects, at, read, unmodified>>

\* _build_page of a dirty build asks again, and the source or the output may
\* have changed since.
SkipPage ==
  /\ stage = "write" /\ dirty
  /\ Done("done")
  /\ UNCHANGED <<inputs, objects, read, unmodified, active>>

\* Faulty variant: the sections stay active.
DeactivatePage ==
  /\ stage = "render"
  /\ active' = active \ {pageOf[documents[at]]}
  /\ Done("done")
  /\ UNCHANGED <<inputs, objects, read, unmodified>>

\* The page is written.
Deactivate ==
  /\ stage = "render"
  /\ active' = active \ Chain(items, pageOf[documents[at]])
  /\ Done("done")
  /\ UNCHANGED <<inputs, objects, read, unmodified>>

Raise ==
  /\ stage \in {"read", "render"}
  /\ stage' = "failed"
  /\ UNCHANGED <<inputs, objects, at, read, unmodified, active>>

NavNext == GetNavigation \/ Populate \/ SkipRead \/ Activate \/ SkipPage \/ Deactivate \/ Raise

NavSpec == NavInit /\ [][NavNext]_navVars

-----------------------------------------------------------------------------
\* The sections from the top down to an item, and the item.
Trail(i) ==
  LET trail[j \in 0..Len(items)] == IF j = 0 THEN <<>> ELSE Append(trail[items[j].up], j)
  IN trail[i]

\* The first is a section around the second, or around them are two items of
\* one list in this order.
Before(i, j) ==
  \/ i # j /\ i \in ToSet(Trail(j))
  \/ \E k \in ToSet(Trail(i)), l \in ToSet(Trail(j)) : k < l /\ items[k].up = items[l].up

(* While a page is rendered, what is active is the object of that page and *)
(* the sections around it: nothing of the pages before, of other entries   *)
(* for the same document, or of sections next to them.                     *)
ActiveIsTrail ==
  /\ stage = "render" =>
       LET page == pageOf[documents[at]] IN
         active = {page} \cup (IF page \in DOMAIN items THEN ToSet(Trail(page)) ELSE {})
  /\ stage \in {"write", "done"} => active = {}

(* When the first page is rendered every document in the navigation has    *)
(* been read, so that the theme has its title, unless it is listed again   *)
(* further on, or a dirty build found it unmodified: then all its pages    *)
(* are there without a content.                                            *)
NavPagesAreRead ==
  stage \in {"write", "render", "done"} =>
    \A i \in ToSet(pages) :
      items[i].name \in ToSet(documents) =>
        \/ i \in read
        \/ dirty /\ items[i].name \in unmodified
        \/ \E j \in ToSet(pages) : Before(i, j) /\ items[j].name = items[i].name

(* The previous and next pages of a page are the ones before and after it  *)
(* in the navigation as it is read, however deep: going on from one to the *)
(* next passes each of them once, and the way back is the same.            *)
NeighboursFollowNav ==
  \A i \in DOMAIN beside :
    LET after == {j \in DOMAIN items : /\ items[j].kind = "path" /\ Before(i, j)
                                       /\ items[j].name \in AllFiles}
    IN IF beside[i][2] = 0 THEN after = {}
       ELSE /\ beside[i][2] \in after
            /\ \A j \in after : j = beside[i][2] \/ Before(beside[i][2], j)
            /\ beside[beside[i][2]][1] = i

(* Without nav, each document is in the sections named for its directories *)
(* and in no other, and no list has two sections of one name, whatever     *)
(* order the files come in.  Directories that differ only as foo-bar and   *)
(* foo_bar do share one.                                                   *)
DirectoriesAreSections ==
  stage # "files" /\ nav = <<>> =>
    /\ \A d \in ToSet(documents) :
         [k \in DOMAIN TitlesOf(d) |-> items[Trail(pageOf[d])[k]].name] = TitlesOf(d)
           /\ Len(Trail(pageOf[d])) = Len(TitlesOf(d)) + 1
    /\ \A i, j \in DOMAIN items :
         items[i].kind = "section" /\ items[j].kind = "section"
           /\ items[i].name = items[j].name /\ items[i].up = items[j].up => i = j
=============================================================================
