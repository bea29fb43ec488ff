-------------------------- MODULE StructureProofs --------------------------
(***************************************************************************)
(* Proofs about mkdocs/structure: Links and Navigation.                    *)
(*                                                                         *)
(* Links, for any docs_dir, theme and calls by plugins: what the           *)
(* collection is before plugins change it, that no two of its files get    *)
(* one output but those of which the property says so, and that links and  *)
(* URLs lead where they should.  The last rests on what normpath does, a   *)
(* fold, which is shown by induction on the length of paths.               *)
(*                                                                         *)
(* Navigation, for any nav, documents and directories: the order of        *)
(* reading is shown by induction from the end of the tree, since an item   *)
(* is visited before what is in it and that before the rest of its list,   *)
(* and the sections made of directories by induction on the two folds of   *)
(* nest_paths.  The invariant of the build adds little to that.            *)
(***************************************************************************)
EXTENDS Links, Navigation, SequenceLemmas, FiniteSetTheorems

Entries == [src : Paths, from : {"docs", "theme", "plugin"}]

(* Before plugins change it, the collection has each source once, and what *)
(* is in it was taken from docs_dir or is an asset of the theme.           *)
SourcesApart == \A i, j \in DOMAIN files : files[i].src = files[j].src => i = j
Taken(f) ==
  \/ f.from = "docs" /\ f.src \in docs /\ ~Skipped(f.src)
  \/ phase = "ready" /\ f.from = "theme" /\ ThemeFilter(f.src)

AllTaken == \A i \in DOMAIN files : Taken(files[i])

FilesInv ==
  /\ calls \in Nat /\ docs \subseteq DocsDir
  /\ phase # "walk" /\ calls = 0 =>
       files \in Seq(Entries) /\ SourcesApart /\ AllTaken

\* A list of entries, of P from one origin, with each source once.
ListsAll(s, P, origin) ==
  /\ \A i \in DOMAIN s : s[i].src \in P /\ s[i].from = origin
  /\ \A i, j \in DOMAIN s : s[i].src = s[j].src => i = j

-----------------------------------------------------------------------------
(* Sets as sequences.                                                      *)

LEMMA SetInSequence ==
  ASSUME NEW S, IsFiniteSet(S)
  PROVE  /\ SetToSeq(S) \in Seq(S)
         /\ \A i, j \in DOMAIN SetToSeq(S) : SetToSeq(S)[i] = SetToSeq(S)[j] => i = j
<1> DEFINE n == Cardinality(S)
<1>1. n \in Nat /\ ExistsBijection(1..n, S)
  BY FS_CardinalityType
<1>2. \E f \in [1..n -> S] : IsInjective(f)
  BY <1>1 DEF ExistsBijection, Bijection, Injection, IsInjective
<1>3. SetToSeq(S) \in [1..n -> S] /\ IsInjective(SetToSeq(S))
  BY <1>2 DEF SetToSeq
<1> HIDE DEF n
<1>4. SetToSeq(S) \in Seq(S)
  BY <1>1, <1>3, SeqDef
<1> QED
  BY <1>3, <1>4 DEF IsInjective

LEMMA FilesFinite ==
  ASSUME NEW P, IsFiniteSet(P), NEW origin
  PROVE  IsFiniteSet({File(p, origin) : p \in P})
<1> DEFINE F == {File(p, origin) : p \in P}
           f == [p \in P |-> File(p, origin)]
<1>1. f \in Surjection(P, F)
  BY DEF Surjection
<1> QED
  BY <1>1, FS_Surjection

LEMMA FilesInSequence ==
  ASSUME NEW P, IsFiniteSet(P), P \subseteq Paths, NEW origin \in {"docs", "theme", "plugin"}
  PROVE  LET s == SetToSeq({File(p, origin) : p \in P})
         IN s \in Seq(Entries) /\ ListsAll(s, P, origin)
<1> DEFINE F == {File(p, origin) : p \in P}
           s == SetToSeq(F)
<1>1. IsFiniteSet(F)
  BY FilesFinite
<1> HIDE DEF F
<1>2. s \in Seq(F) /\ \A i, j \in DOMAIN s : s[i] = s[j] => i = j
  BY <1>1, SetInSequence
<1>3. F \subseteq Entries /\ \A f \in F : f.src \in P /\ f = File(f.src, origin)
  BY DEF F, File, Entries
<1> HIDE DEF s
<1>4. \A i \in DOMAIN s : s[i] \in F
  BY <1>2, ElementOfSeq, LenProperties
<1>5. s \in Seq(Entries)
  BY <1>2, <1>3, SeqMonotonic
<1>6. \A i \in DOMAIN s : s[i].src \in P /\ s[i].from = origin
  BY <1>3, <1>4 DEF File
<1>7. \A i, j \in DOMAIN s : s[i].src = s[j].src => i = j
  BY <1>2, <1>3, <1>4
<1> QED
  BY <1>5, <1>6, <1>7 DEF ListsAll, s, F

-----------------------------------------------------------------------------
LEMMA InitFiles == Init => FilesInv
  BY DEF Init, FilesInv

LEMMA GetFilesKeeps ==
  ASSUME FilesInv, GetFiles
  PROVE  FilesInv'
<1> DEFINE P == {q \in docs : ~FilterPaths(q) /\ ~Skipped(q)}
<1>1. /\ files' = SetToSeq({File(p, "docs") : p \in P}) /\ UNCHANGED <<docs, calls>>
  BY DEF GetFiles
<1>2. IsFiniteSet(P) /\ P \subseteq Paths
  <2>1. P \in SUBSET DocsDir
    BY DEF FilesInv
  <2> QED
    BY <2>1, FiniteAssumption, FS_Subset DEF Paths
<1>3. \A q \in P : q \in docs /\ ~Skipped(q)
  OBVIOUS
<1> HIDE DEF P
<1>4. files' \in Seq(Entries) /\ ListsAll(files', P, "docs")
  BY <1>1, <1>2, FilesInSequence
<1>5. SourcesApart'
  BY <1>4 DEF SourcesApart, ListsAll
<1>6. AllTaken'
  BY <1>1, <1>3, <1>4 DEF AllTaken, Taken, Skipped, ListsAll
<1> QED
  BY <1>1, <1>4, <1>5, <1>6 DEF FilesInv

LEMMA AddFilesKeeps ==
  ASSUME FilesInv, AddFilesFromTheme
  PROVE  FilesInv'
<1> DEFINE P == Assets(files)
           s == SetToSeq({File(p, "theme") : p \in P})
<1>1. /\ files' = files \o s /\ phase = "theme" /\ phase' = "ready"
      /\ UNCHANGED <<docs, calls>>
  BY DEF AddFilesFromTheme
<1> SUFFICES ASSUME calls = 0
             PROVE  files' \in Seq(Entries) /\ SourcesApart' /\ AllTaken'
  BY <1>1 DEF FilesInv
<1>2. files \in Seq(Entries) /\ SourcesApart /\ AllTaken
  BY <1>1 DEF FilesInv
<1>3. IsFiniteSet(P) /\ P \subseteq Paths /\ \A p \in P : ThemeFilter(p)
  <2>1. P \in SUBSET Theme
    BY DEF Assets
  <2> QED
    BY <2>1, FiniteAssumption, FS_Subset DEF Paths, Assets
<1>4. \A p \in P : \A i \in DOMAIN files : files[i].src # p
  BY DEF Assets, SrcUris
<1> HIDE DEF P
<1>5. /\ s \in Seq(Entries)
      /\ \A i \in DOMAIN s : s[i].src \in P /\ s[i].from = "theme"
      /\ \A i, j \in DOMAIN s : s[i].src = s[j].src => i = j
  BY <1>3, FilesInSequence DEF ListsAll
<1> HIDE DEF s
<1> DEFINE m == Len(files)
           n == Len(s)
<1>6. /\ files' \in Seq(Entries) /\ Len(files') = m + n /\ m \in Nat /\ n \in Nat
      /\ \A i \in 1..(m + n) : files'[i] = IF i <= m THEN files[i] ELSE s[i - m]
      /\ DOMAIN files = 1..m /\ DOMAIN s = 1..n /\ DOMAIN files' = 1..(m + n)
  <2>1. /\ files' \in Seq(Entries) /\ Len(files') = m + n
        /\ \A i \in 1..(m + n) : files'[i] = IF i <= m THEN files[i] ELSE s[i - m]
    BY <1>1, <1>2, <1>5, ConcatProperties
  <2> QED
    BY <1>2, <1>5, <2>1, LenProperties
<1> HIDE DEF m, n
<1>7. \A i \in 1..(m + n) : \/ i \in 1..m /\ files'[i] = files[i]
                            \/ i \in Int /\ ~(i <= m) /\ i - m \in 1..n /\ files'[i] = s[i - m]
  BY <1>6
<1>8. SourcesApart'
  <2> SUFFICES ASSUME NEW i \in 1..(m + n), NEW j \in 1..(m + n), files'[i].src = files'[j].src
               PROVE  i = j
    BY <1>6 DEF SourcesApart
  <2>1. CASE i \in 1..m /\ j \in 1..m
    BY <1>2, <1>6, <1>7, <2>1 DEF SourcesApart
  <2>2. CASE ~(i <= m) /\ ~(j <= m)
    <3>1. i - m \in 1..n /\ j - m \in 1..n /\ files'[i] = s[i - m] /\ files'[j] = s[j - m]
      BY <1>6, <1>7, <2>2
    <3>2. i - m = j - m
      BY <1>5, <1>6, <3>1
    <3> QED
      BY <1>6, <3>2
  <2>3. ASSUME NEW k \in 1..m, NEW l \in 1..n PROVE files[k].src # s[l].src
    BY <1>4, <1>5, <1>6
  <2>4. CASE i \in 1..m /\ ~(j <= m)
    BY <1>6, <1>7, <2>3, <2>4
  <2>5. CASE ~(i <= m) /\ j \in 1..m
    <3>1. i - m \in 1..n /\ files'[i] = s[i - m] /\ files'[j] = files[j]
      BY <1>6, <1>7, <2>5
    <3> QED
      BY <2>3, <2>5, <3>1
  <2> QED
    BY <1>7, <2>1, <2>2, <2>4, <2>5
<1>9. AllTaken'
  <2> SUFFICES ASSUME NEW i \in DOMAIN files'
               PROVE  \/ /\ files'[i].from = "docs"
                         /\ files'[i].src \in docs /\ ~Skipped(files'[i].src)
                      \/ files'[i].from = "theme" /\ ThemeFilter(files'[i].src)
    BY <1>1 DEF AllTaken, Taken, Skipped
  <2>1. CASE i \in 1..m /\ files'[i] = files[i]
    <3>1. Taken(files[i]) /\ phase # "ready"
      BY <1>1, <1>2, <1>6, <2>1 DEF AllTaken
    <3> QED
      BY <2>1, <3>1 DEF Taken
  <2>2. CASE i - m \in 1..n /\ files'[i] = s[i - m]
    <3>1. files'[i].src \in P /\ files'[i].from = "theme"
      BY <1>5, <1>6, <2>2
    <3> QED
      BY <1>3, <3>1
  <2> QED
    BY <1>6, <1>7, <2>1, <2>2
<1> QED
  BY <1>6, <1>8, <1>9

LEMMA NextFiles == FilesInv /\ [Next]_vars => FilesInv'
<1> SUFFICES ASSUME FilesInv, [Next]_vars PROVE FilesInv'
  OBVIOUS
<1>1. CASE UNCHANGED vars \/ Lookup
  <2>1. UNCHANGED <<calls, docs, phase, files>>
    BY <1>1 DEF vars, Lookup
  <2> QED
    BY <2>1 DEF FilesInv, SourcesApart, AllTaken, Taken, Skipped
<1>2. ASSUME (\E p \in Generated : AppendFile(p)) \/ (\E i \in DOMAIN files : RemoveFile(i))
      PROVE  FilesInv'
  <2>1. calls' = calls + 1 /\ UNCHANGED docs
    BY <1>2 DEF AppendFile, RemoveFile, Changed
  <2>2. calls' \in Nat /\ calls' # 0
    BY <2>1 DEF FilesInv
  <2> QED
    BY <2>1, <2>2 DEF FilesInv
<1> QED
  BY <1>1, <1>2, GetFilesKeeps, AddFilesKeeps DEF Next

-----------------------------------------------------------------------------
(* Outputs.                                                                *)

\* The parts of a path.
LEMMA PathParts ==
  ASSUME NEW path \in Paths
  PROVE  /\ Dir(path) \in Seq(Names) /\ Last(path) \in Names
         /\ path = Append(Dir(path), Last(path))
         /\ Last(path) = Name(Last(path).stem, Last(path).ext)
<1>1. path \in Seq(Names) /\ path # <<>>
  BY PathsAssumption
<1>2. PICK s \in Seq(Names), e \in Names : path = Append(s, e)
  BY <1>1, SequenceEmptyOrAppend
<1>3. /\ Len(path) = Len(s) + 1 /\ Len(s) \in Nat
      /\ \A i \in 1..Len(s) : path[i] = s[i]
      /\ path[Len(s) + 1] = e
  BY <1>2, AppendProperties, LenProperties
<1>4. Dir(path) = SubSeq(path, 1, Len(s))
  BY <1>3 DEF Dir, Front
<1>5. Dir(path) = s
  <2>1. Dir(path) \in Seq(Names) /\ Len(Dir(path)) = Len(s)
    BY <1>1, <1>3, <1>4
  <2>2. \A i \in 1..Len(s) : Dir(path)[i] = s[i]
    BY <1>1, <1>3, <1>4
  <2> QED
    BY <2>1, <2>2, SeqEqual
<1>6. Last(path) = e
  BY <1>3 DEF Last
<1> QED
  BY <1>2, <1>5, <1>6, PathsAssumption

\* A page is at the end of its directory, or one further down.
Plain(path) == Append(Dir(path), Name(Stem(path), "html"))
Nested(path) == Dir(path) \o <<Name(Stem(path), ""), IndexHtml>>

Parts == Names \cup {Name(Stem(p), "") : p \in Paths}
               \cup {Name(Stem(p), "html") : p \in Paths} \cup {IndexHtml}

LEMMA PageOutputs ==
  ASSUME NEW path \in Paths
  PROVE  /\ Dir(path) \in Seq(Parts)
         /\ Plain(path) \in Seq(Parts) /\ Len(Plain(path)) = Len(Dir(path)) + 1
         /\ Plain(path)[Len(Dir(path)) + 1] = Name(Stem(path), "html")
         /\ Nested(path) \in Seq(Parts) /\ Len(Nested(path)) = Len(Dir(path)) + 2
         /\ Nested(path)[Len(Dir(path)) + 1] = Name(Stem(path), "")
         /\ Nested(path)[Len(Dir(path)) + 2] = IndexHtml
         /\ Len(Dir(path)) \in Nat
         /\ IsMarkdown(path) => Dest(path) \in {Plain(path), Nested(path)}
         /\ ~IsMarkdown(path) => Dest(path) = path
<1> DEFINE d == Dir(path)
           a == Name(Stem(path), "")
           h == Name(Stem(path), "html")
           two == <<a, IndexHtml>>
<1>1. d \in Seq(Parts) /\ Len(d) \in Nat
  <2>1. Names \subseteq Parts
    BY DEF Parts
  <2> HIDE DEF d
  <2>2. d \in Seq(Names)
    BY PathParts DEF d
  <2> QED
    BY <2>1, <2>2, SeqMonotonic, LenProperties
<1>2. a \in Parts /\ h \in Parts /\ IndexHtml \in Parts
  BY DEF Parts
<1> HIDE DEF d, a, h
<1>3. two \in Seq(Parts) /\ Len(two) = 2 /\ two[1] = a /\ two[2] = IndexHtml
  BY <1>2
<1>4. /\ Append(d, h) \in Seq(Parts) /\ Len(Append(d, h)) = Len(d) + 1
      /\ Append(d, h)[Len(d) + 1] = h
  BY <1>1, <1>2, AppendProperties
<1> HIDE DEF two
<1>5. /\ d \o two \in Seq(Parts) /\ Len(d \o two) = Len(d) + 2
      /\ \A i \in 1..(Len(d) + 2) : (d \o two)[i] = IF i <= Len(d) THEN d[i] ELSE two[i - Len(d)]
  <2>1. /\ d \o two \in Seq(Parts) /\ Len(d \o two) = Len(d) + Len(two)
        /\ \A i \in 1..(Len(d) + Len(two)) :
             (d \o two)[i] = IF i <= Len(d) THEN d[i] ELSE two[i - Len(d)]
    BY <1>1, <1>3, ConcatProperties
  <2> QED
    BY <1>3, <2>1
<1>6. (d \o two)[Len(d) + 1] = a /\ (d \o two)[Len(d) + 2] = IndexHtml
  <2>1. Len(d) + 1 \in 1..(Len(d) + 2) /\ ~(Len(d) + 1 <= Len(d)) /\ (Len(d) + 1) - Len(d) = 1
    BY <1>1
  <2>2. Len(d) + 2 \in 1..(Len(d) + 2) /\ ~(Len(d) + 2 <= Len(d)) /\ (Len(d) + 2) - Len(d) = 2
    BY <1>1
  <2> QED
    BY <1>3, <1>5, <2>1, <2>2
<1>7. Plain(path) = Append(d, h) /\ Nested(path) = d \o two
  BY DEF Plain, Nested, d, a, h, two
<1>8. /\ IsMarkdown(path) => Dest(path) \in {Plain(path), Nested(path)}
      /\ ~IsMarkdown(path) => Dest(path) = path
  BY DEF Dest, Plain, Nested
<1> QED
  BY <1>1, <1>4, <1>5, <1>6, <1>7, <1>8 DEF d, a, h

\* The output of a page is an HTML file.
LEMMA PagesAreHtml ==
  ASSUME NEW path \in Paths, IsMarkdown(path)
  PROVE  Last(Dest(path)).ext = "html"
<1>1. Last(Plain(path)) = Name(Stem(path), "html")
  BY PageOutputs DEF Last
<1>2. Last(Nested(path)) = IndexHtml
  BY PageOutputs DEF Last
<1>3. Last(Plain(path)).ext = "html" /\ Last(Nested(path)).ext = "html"
  BY <1>1, <1>2 DEF Name, IndexHtml
<1> QED
  BY <1>3, PageOutputs

\* Two pages of one directory that get one output have one stem.
LEMMA OneOutputOneStem ==
  ASSUME NEW p \in Paths, NEW q \in Paths, IsMarkdown(p), IsMarkdown(q),
         Dir(p) = Dir(q), Dest(p) = Dest(q)
  PROVE  Stem(p) = Stem(q)
<1> DEFINE n == Len(Dir(p))
<1>1. /\ n \in Nat /\ Len(Plain(p)) = n + 1 /\ Len(Plain(q)) = n + 1
      /\ Len(Nested(p)) = n + 2 /\ Len(Nested(q)) = n + 2
      /\ Plain(p)[n + 1] = Name(Stem(p), "html") /\ Plain(q)[n + 1] = Name(Stem(q), "html")
      /\ Nested(p)[n + 1] = Name(Stem(p), "") /\ Nested(q)[n + 1] = Name(Stem(q), "")
  BY PageOutputs
<1>2. Dest(p) \in {Plain(p), Nested(p)} /\ Dest(q) \in {Plain(q), Nested(q)}
  BY PageOutputs
<1>3. Plain(p) # Nested(q) /\ Nested(p) # Plain(q)
  <2>1. n \in Nat
    BY <1>1
  <2> HIDE DEF n
  <2>2. n + 1 # n + 2
    BY <2>1
  <2> QED
    BY <1>1, <2>2 DEF n
<1>4. Plain(p) = Plain(q) \/ Nested(p) = Nested(q)
  BY <1>2, <1>3
<1>5. Name(Stem(p), "html") = Name(Stem(q), "html") \/ Name(Stem(p), "") = Name(Stem(q), "")
  BY <1>1, <1>4
<1> QED
  BY <1>5 DEF Name

\* Two .md files of one directory and one output are its index and README.
LEMMA OneOutputOnePage ==
  ASSUME NEW p \in docs, NEW q \in docs, docs \subseteq DocsDir, ~Skipped(p), ~Skipped(q),
         Last(p).ext = "md", Last(q).ext = "md", Dir(p) = Dir(q), Dest(p) = Dest(q)
  PROVE  p = q
<1>1. p \in Paths /\ q \in Paths
  BY DEF Paths
<1>2. Stem(p) = Stem(q)
  BY <1>1, OneOutputOneStem DEF IsMarkdown, MarkdownExtensions
<1>3. /\ p = Append(Dir(p), Last(p)) /\ Last(p) = Name(Last(p).stem, "md")
      /\ q = Append(Dir(p), Last(q)) /\ Last(q) = Name(Last(q).stem, "md")
  BY <1>1, PathParts
<1>4. \/ Last(p).stem = Last(q).stem
      \/ Last(p).stem = "index" /\ Last(q).stem = "README"
      \/ Last(p).stem = "README" /\ Last(q).stem = "index"
  BY <1>2 DEF Stem
<1> QED
  BY <1>3, <1>4 DEF Skipped

(* Whatever is in docs_dir and in the theme, and in both URL styles: as    *)
(* long as no plugin changes the collection, files get one output only     *)
(* where the author has put them in one place.                             *)
THEOREM OutputsApart == Spec => []NothingWrittenOver
<1>1. FilesInv => NothingWrittenOver
  <2> SUFFICES ASSUME FilesInv, AsBuilt, NEW i \in DOMAIN files, NEW j \in DOMAIN files,
                      i # j, Dest(files[i].src) = Dest(files[j].src)
               PROVE  /\ {files[i].from, files[j].from} = {"docs"}
                      /\ \/ Dir(files[i].src) # Dir(files[j].src)
                         \/ {Last(files[i].src).ext, Last(files[j].src).ext} # {"md"}
    BY DEF NothingWrittenOver
  <2> DEFINE p == files[i].src
             q == files[j].src
  <2>1. /\ docs \subseteq DocsDir /\ p # q /\ Taken(files[i]) /\ Taken(files[j])
        /\ files \in Seq(Entries)
    BY DEF AsBuilt, FilesInv, SourcesApart, AllTaken
  <2>2. files[i] \in Entries /\ files[j] \in Entries
    BY <2>1, ElementOfSeq, LenProperties
  <2>3. p \in Paths /\ q \in Paths
    BY <2>2 DEF Entries
  <2>4. ASSUME NEW f \in Entries, Taken(f), f.from # "docs"
        PROVE  ~IsMarkdown(f.src) /\ Last(f.src).ext # "html" /\ Dest(f.src) = f.src
    <3>1. ~IsMarkdown(f.src) /\ Last(f.src).ext # "html" /\ f.src \in Paths
      BY <2>4 DEF Taken, ThemeFilter, IsMarkdown, Entries
    <3> QED
      BY <3>1, PageOutputs
  <2>5. files[i].from = "docs" /\ files[j].from = "docs"
    <3>1. ASSUME NEW f \in Entries, NEW g \in Entries, Taken(f), Taken(g), f.from # "docs",
                 Dest(f.src) = Dest(g.src)
          PROVE  f.src = g.src
      <4>1. ~IsMarkdown(f.src) /\ Last(f.src).ext # "html" /\ Dest(f.src) = f.src
        BY <2>4, <3>1
      <4>2. g.src \in Paths
        BY DEF Entries
      <4>3. ~IsMarkdown(g.src)
        BY <3>1, <4>1, <4>2, PagesAreHtml
      <4> QED
        BY <3>1, <4>1, <4>2, <4>3, PageOutputs
    <3> QED
      BY <2>1, <2>2, <3>1
  <2>6. p \in docs /\ q \in docs /\ ~Skipped(p) /\ ~Skipped(q)
    BY <2>1, <2>5 DEF Taken
  <2>7. ASSUME Dir(p) = Dir(q), Last(p).ext = "md", Last(q).ext = "md" PROVE FALSE
    BY <2>1, <2>6, <2>7, OneOutputOnePage
  <2> QED
    BY <2>5, <2>7
<1> QED
  BY <1>1, InitFiles, NextFiles, PTL DEF Spec

-----------------------------------------------------------------------------
(* Norm as the function that FoldLeft chooses: the parts of the path that  *)
(* are at the places in s.                                                 *)
IsFold(g, path, rooted, S) ==
  g = [s \in SUBSET S |->
         IF s = {} THEN <<>> ELSE Step(g[s \ {Max(s)}], path[Max(s)], rooted)]

LEMMA NormChosen ==
  ASSUME NEW path, NEW rooted, \E g : IsFold(g, path, rooted, DOMAIN path)
  PROVE  \E g : IsFold(g, path, rooted, DOMAIN path) /\ Norm(path, rooted) = g[DOMAIN path]
<1>1. Norm(path, rooted) =
        (CHOOSE g : g = [s \in SUBSET DOMAIN path |->
           IF s = {} THEN <<>> ELSE Step(g[s \ {Max(s)}], path[Max(s)], rooted)])[DOMAIN path]
  BY DEF Norm, FoldLeft, MapThenFoldSet
<1> QED
  BY <1>1 DEF IsFold

LEMMA StepIn ==
  ASSUME NEW S, NEW path \in Seq(S), NEW name \in S, NEW rooted
  PROVE  Step(path, name, rooted) \in Seq(S)
<1>1. Append(path, name) \in Seq(S)
  BY AppendProperties
<1>2. Front(path) \in Seq(S)
  BY DEF Front
<1> QED
  BY <1>1, <1>2 DEF Step

(* The first k names of the path put in order, for each k.                 *)
IsNorm(r, path, rooted, n) ==
  r[0] = <<>> /\ \A k \in 1..n : r[k] = Step(r[k - 1], path[k], rooted)

LEMMA NormBySteps ==
  ASSUME NEW S, NEW path \in Seq(S), NEW rooted
  PROVE  \E r : IsNorm(r, path, rooted, Len(path)) /\ r[Len(path)] = Norm(path, rooted)
<1> DEFINE n == Len(path)
           T == Seq(S)
           step == [p \in Seq(S) \X S |-> Step(p[1], p[2], rooted)]
<1>1. n \in Nat /\ path \in [1..n -> S] /\ DOMAIN path = 1..n
  BY LenProperties
<1>2. step \in [T \X S -> T] /\ <<>> \in T
  BY StepIn
<1>3. \A a \in T, b \in S : step[<<a, b>>] = Step(a, b, rooted)
  OBVIOUS
<1> HIDE DEF n, step, T
<1>4. PICK g : Folds(g, T, <<>>, step, path, n)
  BY <1>1, <1>2, FoldExists
<1>5. \E f : IsFold(f, path, rooted, 1..n)
  <2>1. \A s \in SUBSET (1..n) : s # {} => Max(s) \in 1..n /\ s \ {Max(s)} \in SUBSET (1..n)
    BY <1>1, MaxIn
  <2>2. \A s \in SUBSET (1..n) :
          g[s] = IF s = {} THEN <<>> ELSE Step(g[s \ {Max(s)}], path[Max(s)], rooted)
    BY <1>1, <1>3, <1>4, <2>1 DEF Folds
  <2>3. IsFold(g, path, rooted, 1..n)
    BY <1>4, <2>2 DEF IsFold, Folds
  <2> QED
    BY <2>3
<1>6. PICK f : IsFold(f, path, rooted, 1..n) /\ Norm(path, rooted) = f[1..n]
  BY <1>1, <1>5, NormChosen
<1> DEFINE r == [k \in 0..n |-> f[1..k]]
<1>7. f[{}] = <<>> /\ \A k \in 1..n : f[1..k] = Step(f[1..(k - 1)], path[k], rooted)
  <2>1. \A s \in SUBSET (1..n) :
          f[s] = IF s = {} THEN <<>> ELSE Step(f[s \ {Max(s)}], path[Max(s)], rooted)
    BY <1>6 DEF IsFold
  <2>2. f[{}] = <<>>
    BY <2>1
  <2>3. ASSUME NEW k \in 1..n PROVE f[1..k] = Step(f[1..(k - 1)], path[k], rooted)
    <3>1. 1..k \in SUBSET (1..n) /\ 1..k # {} /\ Max(1..k) = k /\ (1..k) \ {k} = 1..(k - 1)
      BY <1>1, FirstPositions
    <3> QED
      BY <2>1, <3>1
  <2> QED
    BY <2>2, <2>3
<1>8. r[0] = <<>> /\ r[n] = f[1..n]
  BY <1>1, <1>7, FirstPositions
<1>9. \A k \in 1..n : r[k] = Step(r[k - 1], path[k], rooted)
  BY <1>1, <1>7
<1> HIDE DEF r
<1> QED
  BY <1>6, <1>8, <1>9 DEF IsNorm, n

\* A path takes one more step for one more name.
LEMMA NormOfNone == \A rooted : Norm(<<>>, rooted) = <<>>
<1> TAKE rooted
<1>1. <<>> \in Seq({}) /\ Len(<<>>) = 0
  OBVIOUS
<1>2. PICK r : IsNorm(r, <<>>, rooted, Len(<<>>)) /\ r[Len(<<>>)] = Norm(<<>>, rooted)
  BY <1>1, NormBySteps
<1> QED
  BY <1>1, <1>2 DEF IsNorm

LEMMA NormOfAppend ==
  ASSUME NEW S, NEW path \in Seq(S), NEW name \in S, NEW rooted
  PROVE  Norm(Append(path, name), rooted) = Step(Norm(path, rooted), name, rooted)
<1> DEFINE n == Len(path)
           longer == Append(path, name)
<1>1. n \in Nat /\ DOMAIN path = 1..n
  BY LenProperties
<1>2. longer \in Seq(S) /\ Len(longer) = n + 1 /\ longer[n + 1] = name
  BY AppendProperties
<1>3. \A i \in 1..n : longer[i] = path[i]
  BY AppendProperties
<1>4. DOMAIN longer = 1..(n + 1) /\ n + 1 \in Nat
  BY <1>1, <1>2, LenProperties
<1> HIDE DEF n, longer
<1>5. PICK a : IsNorm(a, path, rooted, n) /\ a[n] = Norm(path, rooted)
  BY NormBySteps DEF n
<1>6. PICK b : IsNorm(b, longer, rooted, n + 1) /\ b[n + 1] = Norm(longer, rooted)
  BY <1>2, NormBySteps
<1> DEFINE T == {k \in Nat : k <= n => b[k] = a[k]}
<1>7. 0 \in T
  BY <1>5, <1>6 DEF IsNorm
<1>8. ASSUME NEW k \in Nat, k \in T PROVE k + 1 \in T
  <2> SUFFICES ASSUME k + 1 <= n PROVE b[k + 1] = a[k + 1]
    OBVIOUS
  <2>1. k <= n /\ k + 1 \in 1..n /\ k + 1 \in 1..(n + 1) /\ (k + 1) - 1 = k
    BY <1>1
  <2>2. a[k + 1] = Step(a[(k + 1) - 1], path[k + 1], rooted)
    BY <1>5, <2>1 DEF IsNorm
  <2>3. b[k + 1] = Step(b[(k + 1) - 1], longer[k + 1], rooted)
    BY <1>6, <2>1 DEF IsNorm
  <2> QED
    BY <1>3, <1>8, <2>1, <2>2, <2>3
<1>9. b[n] = a[n]
  <2>1. Nat \subseteq T
    BY <1>7, <1>8, NumbersBySteps
  <2> QED
    BY <1>1, <2>1
<1>10. b[n + 1] = Step(b[n], longer[n + 1], rooted)
  <2>1. n + 1 \in 1..(n + 1) /\ (n + 1) - 1 = n
    BY <1>1
  <2>2. b[n + 1] = Step(b[(n + 1) - 1], longer[n + 1], rooted)
    BY <1>6, <2>1 DEF IsNorm
  <2> QED
    BY <2>1, <2>2
<1> QED
  BY <1>2, <1>5, <1>6, <1>9, <1>10 DEF longer

-----------------------------------------------------------------------------
(* Paths put in order.                                                     *)

All == Parts \cup {Up}
Inside(path) == \A i \in DOMAIN path : path[i] # Up
Ups(n) == [i \in 1..n |-> Up]

LEMMA ConcatOfAppend ==
  ASSUME NEW S, NEW x \in Seq(S), NEW y \in Seq(S), NEW e \in S
  PROVE  x \o Append(y, e) = Append(x \o y, e)
<1>1. Append(y, e) = y \o <<e>> /\ <<e>> \in Seq(S)
  BY AppendIsConcat
<1>2. x \o y \in Seq(S)
  BY ConcatProperties
<1>3. Append(x \o y, e) = (x \o y) \o <<e>>
  BY <1>2, AppendIsConcat
<1>4. (x \o y) \o <<e>> = x \o (y \o <<e>>)
  BY <1>1, ConcatAssociative
<1> QED
  BY <1>1, <1>3, <1>4

\* The last name of a sequence and what is before it.
LEMMA LastOfMore ==
  ASSUME NEW S, NEW n \in Nat, NEW y \in Seq(S), Len(y) = n + 1
  PROVE  \E z \in Seq(S), e \in S :
           /\ y = Append(z, e) /\ Len(z) = n /\ e = y[n + 1]
           /\ \A i \in 1..n : z[i] = y[i]
<1>1. y # <<>>
  <2>1. Len(<<>>) = 0
    BY EmptySeq
  <2> QED
    BY <2>1
<1>2. PICK z \in Seq(S), e \in S : y = Append(z, e)
  BY <1>1, SequenceEmptyOrAppend
<1>3. /\ Len(y) = Len(z) + 1 /\ Len(z) \in Nat
      /\ \A i \in 1..Len(z) : y[i] = z[i]
      /\ y[Len(z) + 1] = e
  BY <1>2, AppendProperties, LenProperties
<1>4. Len(z) = n
  BY <1>3
<1> QED
  BY <1>2, <1>3, <1>4

LEMMA NormIn ==
  ASSUME NEW S, NEW rooted
  PROVE  \A path \in Seq(S) : Norm(path, rooted) \in Seq(S)
<1> DEFINE T == {n \in Nat : \A y \in Seq(S) : Len(y) = n => Norm(y, rooted) \in Seq(S)}
<1>1. 0 \in T
  <2>1. \A y \in Seq(S) : Len(y) = 0 => y = <<>>
    BY EmptySeq
  <2> QED
    BY <2>1, NormOfNone, EmptySeq
<1>2. ASSUME NEW n \in Nat, n \in T PROVE n + 1 \in T
  <2> SUFFICES ASSUME NEW y \in Seq(S), Len(y) = n + 1 PROVE Norm(y, rooted) \in Seq(S)
    OBVIOUS
  <2>1. PICK z \in Seq(S), e \in S : y = Append(z, e) /\ Len(z) = n
    BY LastOfMore
  <2>2. Norm(y, rooted) = Step(Norm(z, rooted), e, rooted)
    BY <2>1, NormOfAppend
  <2>3. Norm(z, rooted) \in Seq(S)
    BY <1>2, <2>1
  <2> QED
    BY <2>2, <2>3, StepIn
<1>3. Nat \subseteq T
  BY <1>1, <1>2, NumbersBySteps
<1> HIDE DEF T
<1>4. \A path \in Seq(S) : Len(path) \in T
  BY <1>3, LenProperties
<1> QED
  BY <1>4 DEF T

\* Names that do not lead up stay behind what was put in order before them.
LEMMA NormOfConcat ==
  ASSUME NEW x \in Seq(All), NEW y \in Seq(All), Inside(y), NEW rooted
  PROVE  Norm(x \o y, rooted) = Norm(x, rooted) \o y
<1> DEFINE nx == Norm(x, rooted)
           T == {n \in Nat : \A w \in Seq(All) :
                   Len(w) = n /\ Inside(w) => Norm(x \o w, rooted) = nx \o w}
<1>1. nx \in Seq(All)
  BY NormIn
<1> HIDE DEF nx
<1>2. 0 \in T
  <2>1. \A w \in Seq(All) : Len(w) = 0 => w = <<>>
    BY EmptySeq
  <2>2. x \o <<>> = x /\ nx \o <<>> = nx
    BY <1>1, ConcatEmptySeq
  <2> QED
    BY <2>1, <2>2 DEF nx
<1>3. ASSUME NEW n \in Nat, n \in T PROVE n + 1 \in T
  <2> SUFFICES ASSUME NEW w \in Seq(All), Len(w) = n + 1, Inside(w)
               PROVE  Norm(x \o w, rooted) = nx \o w
    OBVIOUS
  <2>1. PICK z \in Seq(All), e \in All :
          w = Append(z, e) /\ Len(z) = n /\ e = w[n + 1] /\ \A i \in 1..n : z[i] = w[i]
    BY LastOfMore
  <2>2. DOMAIN w = 1..(n + 1) /\ DOMAIN z = 1..n
    BY <2>1, LenProperties
  <2>3. e # Up /\ Inside(z)
    BY <2>1, <2>2 DEF Inside
  <2>4. Norm(x \o z, rooted) = nx \o z
    BY <1>3, <2>1, <2>3
  <2>5. x \o w = Append(x \o z, e) /\ nx \o w = Append(nx \o z, e) /\ x \o z \in Seq(All)
    BY <1>1, <2>1, ConcatOfAppend, ConcatProperties
  <2>6. Norm(x \o w, rooted) = Step(nx \o z, e, rooted)
    BY <2>4, <2>5, NormOfAppend
  <2> QED
    BY <2>3, <2>5, <2>6 DEF Step
<1>4. Nat \subseteq T
  BY <1>2, <1>3, NumbersBySteps
<1> HIDE DEF T
<1>5. Len(y) \in T
  BY <1>4, LenProperties
<1> QED
  BY <1>5 DEF T, nx

LEMMA NormOfInside ==
  ASSUME NEW path \in Seq(All), Inside(path), NEW rooted
  PROVE  Norm(path, rooted) = path
<1>1. <<>> \in Seq(All) /\ <<>> \o path = path
  BY EmptySeq, ConcatEmptySeq
<1>2. Norm(<<>> \o path, rooted) = Norm(<<>>, rooted) \o path
  BY <1>1, NormOfConcat
<1> QED
  BY <1>1, <1>2, NormOfNone

LEMMA UpsProperties ==
  ASSUME NEW n \in Nat
  PROVE  /\ Ups(n) \in Seq(All) /\ Len(Ups(n)) = n /\ \A i \in 1..n : Ups(n)[i] = Up
         /\ Ups(n + 1) = Append(Ups(n), Up)
<1>1. Up \in All
  BY DEF All
<1>2. ASSUME NEW k \in Nat
      PROVE  Ups(k) \in Seq(All) /\ Len(Ups(k)) = k /\ \A i \in 1..k : Ups(k)[i] = Up
  <2>1. Ups(k) \in [1..k -> All]
    BY <1>1 DEF Ups
  <2>2. Ups(k) \in Seq(All)
    BY <2>1, SeqDef
  <2>3. DOMAIN Ups(k) = 1..k
    BY DEF Ups
  <2> QED
    BY <2>2, <2>3, LenProperties DEF Ups
<1>3. /\ Append(Ups(n), Up) \in Seq(All) /\ Len(Append(Ups(n), Up)) = n + 1
      /\ \A i \in 1..n : Append(Ups(n), Up)[i] = Up
      /\ Append(Ups(n), Up)[n + 1] = Up
  <2>1. Ups(n) \in Seq(All) /\ Len(Ups(n)) = n /\ \A i \in 1..n : Ups(n)[i] = Up
    BY <1>2
  <2> QED
    BY <1>1, <2>1, AppendProperties
<1>4. /\ Ups(n + 1) \in Seq(All) /\ Len(Ups(n + 1)) = n + 1
      /\ \A i \in 1..(n + 1) : Ups(n + 1)[i] = Up
  BY <1>2
<1>5. \A i \in 1..(n + 1) : i \in 1..n \/ i = n + 1
  OBVIOUS
<1>6. Ups(n + 1) = Append(Ups(n), Up)
  BY <1>3, <1>4, <1>5, SeqEqual
<1> QED
  BY <1>2, <1>6

\* Each step up takes one name from the end.
LEMMA NormOfUps ==
  ASSUME NEW x \in Seq(All), Inside(x), NEW rooted
  PROVE  \A n \in Nat : n <= Len(x) => Norm(x \o Ups(n), rooted) = SubSeq(x, 1, Len(x) - n)
<1> DEFINE m == Len(x)
           T == {n \in Nat : n <= m => Norm(x \o Ups(n), rooted) = SubSeq(x, 1, m - n)}
<1>1. m \in Nat /\ DOMAIN x = 1..m /\ \A i \in 1..m : x[i] # Up /\ x[i] \in All
  BY LenProperties, ElementOfSeq DEF Inside
<1>2. 0 \in T
  <2>1. Ups(0) = <<>>
    <3>1. 0 \in Nat
      OBVIOUS
    <3>2. Ups(0) \in Seq(All) /\ Len(Ups(0)) = 0
      BY <3>1, UpsProperties
    <3> QED
      BY <3>2, EmptySeq
  <2>2. x \o <<>> = x /\ SubSeq(x, 1, m) = x /\ m - 0 = m
    BY <1>1, ConcatEmptySeq, SubSeqFull
  <2> QED
    BY <2>1, <2>2, NormOfInside
<1>3. ASSUME NEW n \in Nat, n \in T PROVE n + 1 \in T
  <2> SUFFICES ASSUME n + 1 <= m
               PROVE  Norm(x \o Ups(n + 1), rooted) = SubSeq(x, 1, m - (n + 1))
    OBVIOUS
  <2> DEFINE z == SubSeq(x, 1, m - n)
  <2>1. n <= m /\ m - n \in 1..m /\ (m - n) - 1 = m - (n + 1)
    BY <1>1
  <2> HIDE DEF m
  <2>2. z \in Seq(All) /\ Len(z) = m - n /\ \A i \in 1..(m - n) : z[i] = x[i]
    BY <1>1, <2>1 DEF m
  <2>3. z # <<>> /\ Last(z) # Up
    <3>1. Last(z) = z[m - n]
      BY <2>2 DEF Last
    <3> QED
      BY <1>1, <2>1, <2>2, <3>1, EmptySeq
  <2>4. Front(z) = SubSeq(x, 1, m - (n + 1))
    <3>1. Front(z) = SubSeq(z, 1, m - (n + 1))
      BY <2>1, <2>2 DEF Front
    <3> HIDE DEF z
    <3>2. m - (n + 1) \in Nat /\ \A i \in 1..(m - (n + 1)) : i \in 1..(m - n) /\ i \in 1..m
      BY <1>1, <2>1
    <3>3. /\ Front(z) \in Seq(All) /\ Len(Front(z)) = m - (n + 1)
          /\ \A i \in 1..(m - (n + 1)) : Front(z)[i] = x[i]
      <4>1. /\ SubSeq(z, 1, m - (n + 1)) \in Seq(All)
            /\ Len(SubSeq(z, 1, m - (n + 1))) = m - (n + 1)
            /\ \A i \in 1..(m - (n + 1)) : SubSeq(z, 1, m - (n + 1))[i] = z[i]
        BY <2>1, <2>2, <3>2
      <4> QED
        BY <2>2, <3>1, <3>2, <4>1
    <3>4. /\ SubSeq(x, 1, m - (n + 1)) \in Seq(All)
          /\ Len(SubSeq(x, 1, m - (n + 1))) = m - (n + 1)
          /\ \A i \in 1..(m - (n + 1)) : SubSeq(x, 1, m - (n + 1))[i] = x[i]
      <4> DEFINE k == m - (n + 1)
      <4>1. k \in Nat /\ k <= m /\ \A i \in 1..k : x[i] \in All
        BY <1>1, <2>1, <3>2
      <4> HIDE DEF k
      <4>2. SubSeq(x, 1, k) \in Seq(All)
        BY <4>1
      <4>3. Len(SubSeq(x, 1, k)) = k /\ \A i \in 1..k : SubSeq(x, 1, k)[i] = x[i]
        BY <4>1
      <4> QED
        BY <4>2, <4>3 DEF k
    <3> QED
      BY <3>3, <3>4, SeqEqual
  <2>5. Norm(x \o Ups(n), rooted) = z
    BY <1>3, <2>1
  <2> HIDE DEF z
  <2>6. Norm(x \o Ups(n + 1), rooted) = Step(z, Up, rooted)
    <3>1. Ups(n) \in Seq(All) /\ Ups(n + 1) = Append(Ups(n), Up) /\ Up \in All
      BY UpsProperties DEF All
    <3>2. x \o Ups(n + 1) = Append(x \o Ups(n), Up)
      <4>1. x \o Append(Ups(n), Up) = Append(x \o Ups(n), Up)
        BY <3>1, ConcatOfAppend
      <4> QED
        BY <3>1, <4>1
    <3>3. x \o Ups(n) \in Seq(All)
      BY <3>1, ConcatProperties
    <3> QED
      BY <2>5, <3>1, <3>2, <3>3, NormOfAppend
  <2> QED
    BY <2>3, <2>4, <2>6 DEF Step
<1>4. Nat \subseteq T
  BY <1>2, <1>3, NumbersBySteps
<1> QED
  BY <1>4

-----------------------------------------------------------------------------
(* Relative URLs.                                                          *)

LEMMA CommonPrefix ==
  ASSUME NEW S, NEW f \in Seq(S), NEW d \in Seq(S)
  PROVE  LET c == Len(LongestCommonPrefix({f, d}))
         IN /\ c \in Nat /\ c <= Len(f) /\ c <= Len(d)
            /\ \A i \in 1..c : f[i] = d[i]
<1> DEFINE C == CommonPrefixes({f, d})
<1>1. ASSUME NEW p \in C
      PROVE  /\ Len(p) \in Nat /\ Len(p) <= Len(f) /\ Len(p) <= Len(d)
             /\ \A i \in 1..Len(p) : f[i] = d[i]
  <2>1. /\ p \in UNION {Prefixes(s) : s \in {f, d}}
        /\ \A t \in {f, d} : Len(p) <= Len(t) /\ SubSeq(p, 1, Len(p)) = SubSeq(t, 1, Len(p))
    BY DEF CommonPrefixes, IsPrefix
  <2>2. \E t \in {f, d} : \E l \in 0..Len(t) : p = SubSeq(t, 1, l)
    BY <2>1 DEF Prefixes
  <2>3. Len(p) \in Nat
    <3>1. PICK t \in {f, d} : \E l \in 0..Len(t) : p = SubSeq(t, 1, l)
      BY <2>2
    <3>2. t \in Seq(S) /\ Len(t) \in Nat
      BY LenProperties
    <3>3. PICK l \in 0..Len(t) : p = SubSeq(t, 1, l)
      BY <3>1
    <3>4. p \in Seq(S)
      BY <3>2, <3>3
    <3> QED
      BY <3>4, LenProperties
  <2> DEFINE n == Len(p)
  <2>4. n <= Len(f) /\ n <= Len(d) /\ SubSeq(f, 1, n) = SubSeq(d, 1, n)
    BY <2>1
  <2> HIDE DEF n
  <2>5. ASSUME NEW t \in Seq(S), n \in Nat, n <= Len(t)
        PROVE  \A i \in 1..n : SubSeq(t, 1, n)[i] = t[i]
    BY <2>5
  <2>6. \A i \in 1..n : SubSeq(f, 1, n)[i] = f[i]
    BY <2>3, <2>4, <2>5 DEF n
  <2>7. \A i \in 1..n : SubSeq(d, 1, n)[i] = d[i]
    BY <2>3, <2>4, <2>5 DEF n
  <2> QED
    BY <2>3, <2>4, <2>6, <2>7 DEF n
<1>2. C # {}
  <2>1. \A t \in {f, d} : Len(t) \in Nat
    BY LenProperties
  <2>2. SubSeq(f, 1, 0) = <<>> /\ Len(<<>>) = 0 /\ \A t \in {f, d} : SubSeq(t, 1, 0) = <<>>
    OBVIOUS
  <2>3. SubSeq(f, 1, 0) \in Prefixes(f)
    BY <2>1 DEF Prefixes
  <2>4. \A t \in {f, d} : IsPrefix(<<>>, t)
    BY <2>1, <2>2 DEF IsPrefix
  <2>5. <<>> \in UNION {Prefixes(s) : s \in {f, d}}
    BY <2>2, <2>3
  <2>6. <<>> \in C
    BY <2>4, <2>5 DEF CommonPrefixes
  <2> QED
    BY <2>6
<1> HIDE DEF C
<1>3. \E longest \in C : \A other \in C : Len(other) <= Len(longest)
  <2> DEFINE T == {Len(f) - Len(p) : p \in C}
  <2>1. T \subseteq Nat /\ T # {}
    <3>1. Len(f) \in Nat
      BY LenProperties
    <3>2. \A p \in C : Len(f) - Len(p) \in Nat
      BY <1>1, <3>1
    <3> QED
      BY <1>2, <3>2
  <2>2. PICK m \in T : \A k \in T : m <= k
    BY <2>1, LeastNumber
  <2>3. PICK longest \in C : m = Len(f) - Len(longest)
    BY <2>2
  <2>4. ASSUME NEW other \in C PROVE Len(other) <= Len(longest)
    <3>1. Len(f) - Len(longest) <= Len(f) - Len(other)
      BY <2>2, <2>3
    <3>2. Len(f) \in Nat /\ Len(longest) \in Nat /\ Len(other) \in Nat
      BY <1>1, LenProperties
    <3> QED
      BY <3>1, <3>2
  <2> QED
    BY <2>4
<1>4. LongestCommonPrefix({f, d}) \in C
  BY <1>3 DEF LongestCommonPrefix, C
<1> QED
  BY <1>1, <1>4

\* Taken from a directory, wherever that is, the way leads where it should.
LEMMA WayLeads ==
  ASSUME NEW mount \in Seq(All), NEW from \in Seq(All), NEW dest \in Seq(All),
         Inside(mount), Inside(from), Inside(dest)
  PROVE  NormPath((mount \o from) \o Way(from, dest)) = mount \o dest
<1> DEFINE c == Len(LongestCommonPrefix({from, dest}))
           u == Len(from) - c
           x == mount \o from
           rest == SubSeq(dest, c + 1, Len(dest))
           m == Len(mount)
<1>1. /\ c \in Nat /\ c <= Len(from) /\ c <= Len(dest)
      /\ \A i \in 1..c : from[i] = dest[i]
  BY CommonPrefix
<1> HIDE DEF c
<1>2. m \in Nat /\ Len(from) \in Nat /\ Len(dest) \in Nat /\ u \in Nat
  BY <1>1, LenProperties
<1>3. Way(from, dest) = Ups(u) \o rest
  BY DEF Way, Ups, c
<1>4. rest \in Seq(All) /\ Len(rest) = Len(dest) - c
  <2>1. \A i \in (c + 1)..Len(dest) : dest[i] \in All
    BY <1>1, <1>2, ElementOfSeq
  <2> QED
    BY <1>1, <1>2, <2>1
<1>5. \A i \in 1..(Len(dest) - c) : rest[i] = dest[c + i]
  <2>1. \A i \in 1..(Len(dest) - c) : (c + 1) + i - 1 = c + i
    BY <1>1, <1>2
  <2>2. \A i \in 1..(Len(dest) - c) : rest[i] = dest[(c + 1) + i - 1]
    BY <1>1, <1>2
  <2> QED
    BY <2>1, <2>2
<1> HIDE DEF rest
<1>6. Inside(rest)
  <2>1. DOMAIN rest = 1..(Len(dest) - c)
    BY <1>4, LenProperties
  <2>2. \A i \in 1..(Len(dest) - c) : c + i \in 1..Len(dest)
    BY <1>1, <1>2
  <2>3. DOMAIN dest = 1..Len(dest)
    BY LenProperties
  <2> QED
    BY <1>5, <2>1, <2>2, <2>3 DEF Inside
<1>7. /\ x \in Seq(All) /\ Len(x) = m + Len(from)
      /\ \A i \in 1..(m + Len(from)) : x[i] = IF i <= m THEN mount[i] ELSE from[i - m]
  BY ConcatProperties
<1> HIDE DEF x, m, u
<1>8. Inside(x)
  <2>1. DOMAIN x = 1..(m + Len(from)) /\ DOMAIN mount = 1..m /\ DOMAIN from = 1..Len(from)
    BY <1>7, LenProperties DEF m
  <2>2. \A i \in 1..(m + Len(from)) : i \in 1..m \/ (~(i <= m) /\ i - m \in 1..Len(from))
    BY <1>2
  <2>3. \A i \in 1..m : mount[i] # Up
    BY <2>1 DEF Inside
  <2>4. \A i \in 1..Len(from) : from[i] # Up
    BY <2>1 DEF Inside
  <2>5. ASSUME NEW i \in 1..(m + Len(from)) PROVE x[i] # Up
    <3>1. CASE i <= m
      BY <1>7, <2>2, <2>3, <3>1
    <3>2. CASE ~(i <= m)
      <4>1. x[i] = from[i - m]
        BY <1>7, <3>2
      <4>2. i - m \in 1..Len(from)
        BY <2>2, <3>2
      <4> QED
        BY <2>4, <4>1, <4>2
    <3> QED
      BY <3>1, <3>2
  <2> QED
    BY <2>1, <2>5 DEF Inside
<1>9. Norm(x \o Ups(u), FALSE) = SubSeq(x, 1, Len(x) - u)
  <2>1. u <= Len(x)
    BY <1>1, <1>2, <1>7 DEF u
  <2> QED
    BY <1>2, <1>7, <1>8, <2>1, NormOfUps
<1>10. Len(x) - u = m + c
  BY <1>1, <1>2, <1>7 DEF u
<1>11. Norm((x \o Ups(u)) \o rest, FALSE) = SubSeq(x, 1, m + c) \o rest
  <2> DEFINE climb == x \o Ups(u)
  <2>1. climb \in Seq(All)
    <3>1. Ups(u) \in Seq(All)
      BY <1>2, UpsProperties
    <3> QED
      BY <1>7, <3>1, ConcatProperties
  <2>2. Norm(climb, FALSE) = SubSeq(x, 1, m + c)
    BY <1>9, <1>10
  <2> HIDE DEF climb
  <2>3. Norm(climb \o rest, FALSE) = Norm(climb, FALSE) \o rest
    BY <1>4, <1>6, <2>1, NormOfConcat
  <2> QED
    BY <2>2, <2>3 DEF climb
<1>12. x \o (Ups(u) \o rest) = (x \o Ups(u)) \o rest
  <2> DEFINE ups == Ups(u)
  <2>1. x \in Seq(All) /\ ups \in Seq(All) /\ rest \in Seq(All)
    BY <1>2, <1>4, <1>7, UpsProperties
  <2> HIDE DEF ups
  <2>2. (x \o ups) \o rest = x \o (ups \o rest)
    BY <2>1
  <2> QED
    BY <2>2 DEF ups
<1>13. SubSeq(x, 1, m + c) \o rest = mount \o dest
  <2> DEFINE y == SubSeq(x, 1, m + c)
             k == Len(dest)
  <2>1. m + c \in Nat /\ m + c <= Len(x)
    BY <1>1, <1>2, <1>7
  <2>2. y \in Seq(All) /\ Len(y) = m + c /\ \A i \in 1..(m + c) : y[i] = x[i]
    BY <1>7, <2>1
  <2> HIDE DEF y
  <2>3. k \in Nat /\ c <= k /\ (m + c) + (k - c) = m + k
    BY <1>1, <1>2
  <2>4. /\ y \o rest \in Seq(All) /\ Len(y \o rest) = (m + c) + (k - c)
        /\ \A i \in 1..((m + c) + (k - c)) :
             (y \o rest)[i] = IF i <= m + c THEN y[i] ELSE rest[i - (m + c)]
    <3>1. /\ y \o rest \in Seq(All) /\ Len(y \o rest) = Len(y) + Len(rest)
          /\ \A i \in 1..(Len(y) + Len(rest)) :
               (y \o rest)[i] = IF i <= Len(y) THEN y[i] ELSE rest[i - Len(y)]
      BY <1>4, <2>2, ConcatProperties
    <3> QED
      BY <1>4, <2>2, <3>1
  <2>5. /\ mount \o dest \in Seq(All) /\ Len(mount \o dest) = m + k
        /\ \A i \in 1..(m + k) : (mount \o dest)[i] = IF i <= m THEN mount[i] ELSE dest[i - m]
    BY ConcatProperties DEF m
  <2>6. \A i \in 1..(m + k) : (y \o rest)[i] = IF i <= m + c THEN y[i] ELSE rest[i - (m + c)]
    BY <2>3, <2>4
  <2> HIDE DEF k
  <2>7. ASSUME NEW i \in 1..(m + k) PROVE (y \o rest)[i] = (mount \o dest)[i]
    <3>1. CASE i <= m
      <4>1. i <= m + c /\ i \in 1..(m + c) /\ i \in 1..(m + Len(from))
        BY <1>1, <1>2, <3>1
      <4>2. (y \o rest)[i] = y[i] /\ y[i] = x[i] /\ x[i] = mount[i]
        BY <1>7, <2>2, <2>6, <3>1, <4>1
      <4> QED
        BY <2>5, <3>1, <4>2
    <3>2. CASE ~(i <= m) /\ i <= m + c
      <4>1. i \in 1..(m + c) /\ i \in 1..(m + Len(from)) /\ i - m \in 1..c
        BY <1>1, <1>2, <2>3, <3>2
      <4>2. (y \o rest)[i] = y[i] /\ y[i] = x[i] /\ x[i] = from[i - m]
        BY <1>7, <2>2, <2>6, <3>2, <4>1
      <4> QED
        BY <1>1, <2>5, <3>2, <4>1, <4>2
    <3>3. CASE ~(i <= m + c)
      <4>1. ~(i <= m) /\ i - (m + c) \in 1..(k - c) /\ c + (i - (m + c)) = i - m
        BY <1>1, <1>2, <2>3, <3>3
      <4>2. (y \o rest)[i] = rest[i - (m + c)]
        BY <2>6, <3>3
      <4>3. rest[i - (m + c)] = dest[c + (i - (m + c))]
        BY <1>5, <4>1 DEF k
      <4> QED
        BY <2>5, <4>1, <4>2, <4>3
    <3> QED
      BY <3>1, <3>2, <3>3
  <2> QED
    BY <2>3, <2>4, <2>5, <2>7, SeqEqual DEF y
<1> QED
  BY <1>3, <1>11, <1>12, <1>13 DEF NormPath, x

\* What it ends with.
LEMMA WayEnds ==
  ASSUME NEW from \in Seq(All), NEW dest \in Seq(All)
  PROVE  /\ dest # <<>> /\ (\A i \in DOMAIN from : from[i] # Last(dest)) =>
              Way(from, dest) # <<>> /\ Last(Way(from, dest)) = Last(dest)
         /\ dest = <<>> => Way(from, dest) = <<>> \/ Last(Way(from, dest)) = Up
<1> DEFINE c == Len(LongestCommonPrefix({from, dest}))
           u == Len(from) - c
           rest == SubSeq(dest, c + 1, Len(dest))
<1>1. /\ c \in Nat /\ c <= Len(from) /\ c <= Len(dest)
      /\ \A i \in 1..c : from[i] = dest[i]
  BY CommonPrefix
<1> HIDE DEF c
<1>2. Len(from) \in Nat /\ Len(dest) \in Nat /\ u \in Nat
  BY <1>1, LenProperties
<1>3. Way(from, dest) = Ups(u) \o rest
  BY DEF Way, Ups, c
<1>4. rest \in Seq(All) /\ Len(rest) = Len(dest) - c
  <2>1. \A i \in (c + 1)..Len(dest) : dest[i] \in All
    BY <1>1, <1>2, ElementOfSeq
  <2> QED
    BY <1>1, <1>2, <2>1
<1>5. \A i \in 1..(Len(dest) - c) : rest[i] = dest[(c + 1) + i - 1]
  BY <1>1, <1>2
<1> HIDE DEF rest
<1>6. Ups(u) \in Seq(All) /\ Len(Ups(u)) = u /\ \A i \in 1..u : Ups(u)[i] = Up
  BY <1>2, UpsProperties
<1> HIDE DEF u
<1>7. /\ Ups(u) \o rest \in Seq(All) /\ Len(Ups(u) \o rest) = u + (Len(dest) - c)
      /\ \A i \in 1..(u + (Len(dest) - c)) :
           (Ups(u) \o rest)[i] = IF i <= u THEN Ups(u)[i] ELSE rest[i - u]
  <2>1. /\ Ups(u) \o rest \in Seq(All) /\ Len(Ups(u) \o rest) = Len(Ups(u)) + Len(rest)
        /\ \A i \in 1..(Len(Ups(u)) + Len(rest)) :
             (Ups(u) \o rest)[i] = IF i <= Len(Ups(u)) THEN Ups(u)[i] ELSE rest[i - Len(Ups(u))]
    BY <1>4, <1>6, ConcatProperties
  <2> QED
    BY <1>4, <1>6, <2>1
<1>8. ASSUME dest # <<>>, \A i \in DOMAIN from : from[i] # Last(dest)
      PROVE  Way(from, dest) # <<>> /\ Last(Way(from, dest)) = Last(dest)
  <2> DEFINE n == Len(dest) - c
  <2>1. Len(dest) \in Nat \ {0} /\ DOMAIN from = 1..Len(from) /\ Last(dest) = dest[Len(dest)]
    BY <1>8, EmptySeq, LenProperties DEF Last
  <2>2. c # Len(dest)
    BY <1>1, <1>2, <1>8, <2>1
  <2>3. n \in Nat /\ n >= 1 /\ n \in 1..n /\ (c + 1) + n - 1 = Len(dest)
    BY <1>1, <1>2, <2>2
  <2>4. rest[n] = Last(dest)
    BY <1>5, <2>1, <2>3
  <2> HIDE DEF n
  <2>5. u + n \in 1..(u + n) /\ ~(u + n <= u) /\ (u + n) - u = n /\ u + n # 0
    BY <1>2, <2>3
  <2>6. /\ Ups(u) \o rest \in Seq(All) /\ Len(Ups(u) \o rest) = u + n
        /\ (Ups(u) \o rest)[u + n] = rest[n]
    BY <1>7, <2>5 DEF n
  <2>7. Last(Ups(u) \o rest) = rest[n]
    BY <2>6 DEF Last
  <2>8. Ups(u) \o rest # <<>>
    BY <2>5, <2>6, EmptySeq
  <2> QED
    BY <1>3, <2>4, <2>7, <2>8
<1>9. ASSUME dest = <<>>, Way(from, dest) # <<>> PROVE Last(Way(from, dest)) = Up
  <2>1. Len(dest) = 0 /\ c = 0 /\ u + (Len(dest) - c) = u
    <3>1. Len(dest) = 0
      BY <1>9, EmptySeq
    <3> QED
      BY <1>1, <1>2, <3>1
  <2>2. Len(Ups(u) \o rest) = u
    BY <1>7, <2>1
  <2>3. u \in 1..u
    <3>1. u # 0
      BY <1>3, <1>7, <1>9, <2>2, EmptySeq
    <3> QED
      BY <1>2, <3>1
  <2>4. (Ups(u) \o rest)[u] = Up
    BY <1>6, <1>7, <2>1, <2>3
  <2> QED
    BY <1>3, <2>2, <2>4 DEF Last
<1> QED
  BY <1>8, <1>9

-----------------------------------------------------------------------------
(* Where the pages of the site are, and where their links lead.            *)

LEMMA FrontOfAppend ==
  ASSUME NEW S, NEW s \in Seq(S), NEW e \in S
  PROVE  Front(Append(s, e)) = s /\ Last(Append(s, e)) = e
<1> DEFINE a == Append(s, e)
           n == Len(s)
<1>1. a \in Seq(S) /\ Len(a) = n + 1 /\ a[n + 1] = e /\ \A i \in 1..n : a[i] = s[i]
  BY AppendProperties
<1>2. n \in Nat /\ (n + 1) - 1 = n
  BY LenProperties
<1> HIDE DEF a, n
<1>3. Last(a) = e
  BY <1>1 DEF Last
<1>4. Front(a) = SubSeq(a, 1, n)
  BY <1>1, <1>2 DEF Front
<1>5. SubSeq(a, 1, n) \in Seq(S) /\ Len(SubSeq(a, 1, n)) = n
  BY <1>1, <1>2
<1>6. \A i \in 1..n : SubSeq(a, 1, n)[i] = a[i]
  BY <1>1, <1>2
<1>7. SubSeq(a, 1, n) = s
  BY <1>1, <1>5, <1>6, SeqEqual DEF n
<1> QED
  BY <1>3, <1>4, <1>7 DEF a

LEMMA UpFields == Up.stem = ".." /\ Up.ext = ""
BY DEF Up, Name

\* The directories of a source have no extension, and none is "..".
LEMMA DirectoriesOf ==
  ASSUME NEW path \in Paths
  PROVE  /\ path \in Seq(All) /\ Dir(path) \in Seq(All)
         /\ Inside(path) /\ Inside(Dir(path)) /\ Stem(path) # ".."
         /\ \A i \in DOMAIN Dir(path) : Dir(path)[i].ext = ""
<1> DEFINE d == Dir(path)
           e == Last(path)
<1>1. d \in Seq(Names) /\ e \in Names /\ path = Append(d, e)
  BY PathParts
<1> HIDE DEF d, e
<1>2. /\ path \in Seq(Names) /\ Len(path) = Len(d) + 1 /\ Len(d) \in Nat
      /\ path[Len(d) + 1] = e /\ \A i \in 1..Len(d) : path[i] = d[i]
  BY <1>1, AppendProperties, LenProperties
<1>3. DOMAIN path = 1..(Len(d) + 1) /\ DOMAIN d = 1..Len(d)
  BY <1>1, <1>2, LenProperties
<1>4. path \in Seq(All) /\ d \in Seq(All)
  <2>1. Names \subseteq All
    BY DEF All, Parts
  <2> QED
    BY <1>1, <1>2, <2>1, SeqMonotonic
<1>5. \A i \in 1..Len(d) : i \in 1..(Len(d) + 1) /\ i < Len(path)
  BY <1>2
<1>6. \A i \in DOMAIN path : path[i].stem # ".."
  BY DirectoriesAssumption
<1>7. Up.stem = ".."
  BY DEF Up, Name
<1>8. Inside(path) /\ Inside(d)
  BY <1>2, <1>3, <1>5, <1>6, <1>7 DEF Inside
<1>9. e.stem # ".."
  BY <1>2, <1>3, <1>6
<1>10. \A i \in DOMAIN d : d[i].ext = ""
  BY <1>2, <1>3, <1>5, DirectoriesAssumption
<1>11. Stem(path) # ".."
  BY <1>9 DEF Stem, e
<1> QED
  BY <1>4, <1>8, <1>10, <1>11 DEF d

\* An output: the directory that it is in, and its name.
LEMMA OutputOf ==
  ASSUME NEW path \in Paths
  PROVE  /\ Dest(path) \in Seq(All) /\ Dest(path) # <<>> /\ Inside(Dest(path))
         /\ Dir(Dest(path)) \in Seq(All) /\ Inside(Dir(Dest(path)))
         /\ Dest(path) = Append(Dir(Dest(path)), Last(Dest(path)))
         /\ \A i \in DOMAIN Dir(Dest(path)) : Dir(Dest(path))[i].ext = ""
         /\ IsMarkdown(path) \/ Last(path).ext # "" => Last(Dest(path)).ext # ""
<1> DEFINE a == Name(Stem(path), "")
           h == Name(Stem(path), "html")
           d == Dir(path)
<1>1. a \in All /\ h \in All /\ IndexHtml \in All /\ Last(path) \in All
  <2>1. Last(path) \in Names
    BY PathParts
  <2> QED
    BY <2>1 DEF All, Parts
<1>2. d \in Seq(All) /\ Inside(d) /\ \A i \in DOMAIN d : d[i].ext = ""
  BY DirectoriesOf
<1>3. /\ a # Up /\ h # Up /\ IndexHtml # Up
      /\ a.ext = "" /\ h.ext = "html" /\ IndexHtml.ext = "html"
  <2>1. Stem(path) # ".."
    BY DirectoriesOf
  <2> QED
    BY <2>1 DEF Name, Up, IndexHtml
<1>4. ASSUME NEW s \in Seq(All), Inside(s), NEW e \in All, e # Up
      PROVE  Append(s, e) \in Seq(All) /\ Append(s, e) # <<>> /\ Inside(Append(s, e))
  <2>1. /\ Append(s, e) \in Seq(All) /\ Append(s, e) # <<>> /\ Len(Append(s, e)) = Len(s) + 1
        /\ \A i \in 1..Len(s) : Append(s, e)[i] = s[i]
        /\ Append(s, e)[Len(s) + 1] = e
    BY AppendProperties
  <2>2. DOMAIN s = 1..Len(s) /\ Len(s) \in Nat /\ DOMAIN Append(s, e) = 1..(Len(s) + 1)
    BY <2>1, LenProperties
  <2>3. \A i \in 1..(Len(s) + 1) : i \in 1..Len(s) \/ i = Len(s) + 1
    BY <2>2
  <2> QED
    BY <1>4, <2>1, <2>2, <2>3 DEF Inside
<1> HIDE DEF a, h, d
<1>5. /\ Append(d, a) \in Seq(All) /\ Inside(Append(d, a))
      /\ \A i \in DOMAIN Append(d, a) : Append(d, a)[i].ext = ""
  <2>1. Append(d, a) \in Seq(All) /\ Inside(Append(d, a))
    BY <1>1, <1>2, <1>3, <1>4
  <2>2. /\ Len(Append(d, a)) = Len(d) + 1
        /\ \A i \in 1..Len(d) : Append(d, a)[i] = d[i]
        /\ Append(d, a)[Len(d) + 1] = a
    BY <1>1, <1>2, AppendProperties
  <2>3. DOMAIN d = 1..Len(d) /\ Len(d) \in Nat /\ DOMAIN Append(d, a) = 1..(Len(d) + 1)
    BY <1>2, <2>1, <2>2, LenProperties
  <2>4. \A i \in 1..(Len(d) + 1) : i \in 1..Len(d) \/ i = Len(d) + 1
    BY <2>3
  <2> QED
    BY <1>2, <1>3, <2>1, <2>2, <2>3, <2>4
<1>6. /\ Append(d, h) \in Seq(All) /\ Append(d, h) # <<>> /\ Inside(Append(d, h))
      /\ Front(Append(d, h)) = d /\ Last(Append(d, h)) = h
  <2>1. Front(Append(d, h)) = d /\ Last(Append(d, h)) = h
    BY <1>1, <1>2, FrontOfAppend
  <2> QED
    BY <1>1, <1>2, <1>3, <1>4, <2>1
<1>7. LET n == Append(Append(d, a), IndexHtml)
      IN n \in Seq(All) /\ n # <<>> /\ Inside(n) /\ Front(n) = Append(d, a) /\ Last(n) = IndexHtml
  <2> DEFINE s == Append(d, a)
  <2>1. s \in Seq(All) /\ Inside(s)
    BY <1>5
  <2> HIDE DEF s
  <2>2. Front(Append(s, IndexHtml)) = s /\ Last(Append(s, IndexHtml)) = IndexHtml
    BY <1>1, <2>1, FrontOfAppend
  <2> QED
    BY <1>1, <1>3, <1>4, <2>1, <2>2 DEF s
<1>8. Nested(path) = Append(Append(d, a), IndexHtml)
  <2>1. <<a, IndexHtml>> = Append(<<a>>, IndexHtml) /\ <<a>> \in Seq(All)
    BY <1>1
  <2>2. d \o Append(<<a>>, IndexHtml) = Append(d \o <<a>>, IndexHtml)
    <3> DEFINE one == <<a>>
    <3>1. d \in Seq(All) /\ one \in Seq(All) /\ IndexHtml \in All
      BY <1>1, <1>2, <2>1
    <3> HIDE DEF one
    <3>2. d \o Append(one, IndexHtml) = Append(d \o one, IndexHtml)
      BY <3>1, ConcatOfAppend
    <3> QED
      BY <3>2 DEF one
  <2>3. d \o <<a>> = Append(d, a)
    BY <1>1, <1>2, AppendIsConcat
  <2>4. Nested(path) = d \o <<a, IndexHtml>>
    BY DEF Nested, a, d
  <2> QED
    BY <2>1, <2>2, <2>3, <2>4
<1>9. Plain(path) = Append(d, h)
  BY DEF Plain, d, h
<1>10. CASE ~IsMarkdown(path)
  <2>1. Dest(path) = path /\ path \in Seq(Names) /\ path # <<>>
    BY <1>10, PathsAssumption, PageOutputs
  <2>2. path = Append(d, Last(path)) /\ path \in Seq(All) /\ Inside(path)
    BY PathParts, DirectoriesOf DEF d
  <2> QED
    BY <1>2, <1>10, <2>1, <2>2 DEF d
<1>11. CASE IsMarkdown(path) /\ Dest(path) = Plain(path)
  <2>1. Dir(Dest(path)) = d /\ Last(Dest(path)) = h /\ Dest(path) = Append(d, h)
    BY <1>6, <1>9, <1>11 DEF Dir
  <2> QED
    BY <1>2, <1>3, <1>6, <2>1
<1>12. CASE IsMarkdown(path) /\ Dest(path) = Nested(path)
  <2> DEFINE s == Append(d, a)
  <2>1. s \in Seq(All) /\ Inside(s) /\ \A i \in DOMAIN s : s[i].ext = ""
    BY <1>5
  <2>2. LET n == Append(s, IndexHtml)
        IN n \in Seq(All) /\ n # <<>> /\ Inside(n) /\ Front(n) = s /\ Last(n) = IndexHtml
    BY <1>7
  <2>3. Dest(path) = Append(s, IndexHtml)
    BY <1>8, <1>12
  <2> HIDE DEF s
  <2>4. Dir(Dest(path)) = s /\ Last(Dest(path)) = IndexHtml
    BY <2>2, <2>3 DEF Dir
  <2> QED
    BY <1>3, <2>1, <2>2, <2>3, <2>4
<1> QED
  BY <1>10, <1>11, <1>12, PageOutputs

\* A page is fetched from the directory of its output, wherever links go.
LEMMA HereOf ==
  ASSUME NEW page \in Paths, NEW url
  PROVE  LET isDir == url.slash \/ url.parts = <<>> \/ Last(url.parts) = Up
             there == NormPath((Mount \o Dir(Dest(page))) \o url.parts)
         IN Arrive(page, url) = IF isDir THEN Append(there, IndexHtml) ELSE there
<1>1. (IF FileUrl(page).slash THEN FileUrl(page).parts ELSE Front(FileUrl(page).parts))
        = Dir(Dest(page))
  BY DEF FileUrl, Url, Dir
<1> QED
  BY <1>1 DEF Arrive

LEMMA MountInside == Mount \in Seq(All) /\ Inside(Mount)
<1>1. Mount \in Seq(Names) /\ Names \subseteq All
  BY PathsAssumption DEF All, Parts
<1>2. Mount \in Seq(All)
  BY <1>1, SeqMonotonic
<1> QED
  BY <1>2, DirectoriesAssumption DEF Inside

\* What a relative URL of the site is made of.
LEMMA RelativeUrl ==
  ASSUME NEW page \in Paths, NEW url, url.parts \in Seq(All), Inside(url.parts), NEW other,
         Base(other) = Dir(Dest(page))
  PROVE  LET relative == GetRelativeUrl(url, other)
         IN relative.parts = Way(Dir(Dest(page)), url.parts) /\ relative.slash = url.slash
<1>1. NormParts(Dir(Dest(page))) = Dir(Dest(page))
  BY OutputOf, NormOfInside DEF NormParts
<1>2. NormParts(url.parts) = url.parts
  BY NormOfInside DEF NormParts
<1> QED
  BY <1>1, <1>2 DEF GetRelativeUrl, Url

LEMMA BaseOfPage ==
  ASSUME NEW page \in Paths
  PROVE  Base(FileUrl(page)) = Dir(Dest(page)) /\ Base(PageUrl(page)) = Dir(Dest(page))
<1>1. Base(FileUrl(page)) = Dir(Dest(page))
  BY OutputOf DEF Base, FileUrl, Url, Dir
<1>2. ASSUME FileUrl(page) = Url(<<>>, TRUE) PROVE Base(PageUrl(page)) = Dir(Dest(page))
  <2>1. Base(FileUrl(page)) = <<>> /\ Base(PageUrl(page)) = <<>>
    BY <1>2 DEF Base, PageUrl, Url
  <2> QED
    BY <1>1, <2>1
<1> QED
  BY <1>1, <1>2 DEF PageUrl

\* A browser takes the way to a directory, and the way to a file.
LEMMA DirectoryReached ==
  ASSUME NEW page \in Paths, NEW dir \in Seq(All), Inside(dir), NEW url, url.slash,
         url.parts = Way(Dir(Dest(page)), dir)
  PROVE  Arrive(page, url) = Mount \o Append(dir, IndexHtml)
<1> DEFINE from == Dir(Dest(page))
<1>1. Arrive(page, url) = Append(NormPath((Mount \o from) \o Way(from, dir)), IndexHtml)
  BY HereOf
<1>2. from \in Seq(All) /\ Inside(from)
  BY OutputOf
<1> HIDE DEF from
<1>3. NormPath((Mount \o from) \o Way(from, dir)) = Mount \o dir
  BY <1>2, MountInside, WayLeads
<1>4. Append(Mount \o dir, IndexHtml) = Mount \o Append(dir, IndexHtml)
  <2>1. IndexHtml \in All /\ Mount \in Seq(All)
    BY MountInside DEF All, Parts
  <2> QED
    BY <2>1
<1> QED
  BY <1>1, <1>3, <1>4

LEMMA FileReached ==
  ASSUME NEW page \in Paths, NEW dest \in Seq(All), Inside(dest), dest # <<>>,
         Last(dest).ext # "", NEW url, ~url.slash, url.parts = Way(Dir(Dest(page)), dest)
  PROVE  Arrive(page, url) = Mount \o dest
<1> DEFINE from == Dir(Dest(page))
<1>1. from \in Seq(All) /\ Inside(from) /\ \A i \in DOMAIN from : from[i].ext = ""
  BY OutputOf
<1>2. Way(from, dest) # <<>> /\ Last(Way(from, dest)) # Up
  <2>1. \A i \in DOMAIN from : from[i] # Last(dest)
    BY <1>1
  <2>2. Last(dest) # Up
    BY UpFields
  <2> HIDE DEF from
  <2>3. Way(from, dest) # <<>> /\ Last(Way(from, dest)) = Last(dest)
    BY <1>1, <2>1, WayEnds
  <2> QED
    BY <2>2, <2>3
<1>3. Arrive(page, url) = NormPath((Mount \o from) \o Way(from, dest))
  BY <1>2, HereOf
<1> HIDE DEF from
<1>4. NormPath((Mount \o from) \o Way(from, dest)) = Mount \o dest
  BY <1>1, MountInside, WayLeads
<1> QED
  BY <1>3, <1>4

\* From a page to the output of any source, by its URL.
LEMMA UrlFields ==
  /\ \A url, parts : url = Url(parts, TRUE) => url.parts = parts /\ url.slash
  /\ \A url, parts : url = Url(parts, FALSE) => url.parts = parts /\ ~url.slash
BY DEF Url

LEMMA UrlsLead ==
  ASSUME NEW page \in Paths, NEW path \in Paths, Last(Dest(path)).ext # "", NEW other,
         Base(other) = Dir(Dest(page))
  PROVE  Arrive(page, GetRelativeUrl(FileUrl(path), other)) = Mount \o Dest(path)
<1> DEFINE dest == Dest(path)
           dir == Dir(dest)
           url == GetRelativeUrl(FileUrl(path), other)
<1>1. /\ dest \in Seq(All) /\ Inside(dest) /\ dest # <<>>
      /\ dir \in Seq(All) /\ Inside(dir) /\ dest = Append(dir, Last(dest))
  BY OutputOf
<1>2. \/ FileUrl(path) = Url(dir, TRUE) /\ Last(dest) = IndexHtml
      \/ FileUrl(path) = Url(dest, FALSE)
  BY DEF FileUrl, Dir
<1>3. FileUrl(path).parts \in Seq(All) /\ Inside(FileUrl(path).parts)
  BY <1>1, <1>2, UrlFields
<1>4. url.parts = Way(Dir(Dest(page)), FileUrl(path).parts) /\ url.slash = FileUrl(path).slash
  BY <1>3, RelativeUrl
<1> HIDE DEF url, dir, dest
<1>5. CASE FileUrl(path) = Url(dir, TRUE) /\ Last(dest) = IndexHtml
  <2>1. FileUrl(path).parts = dir /\ FileUrl(path).slash
    BY <1>5, UrlFields
  <2>2. Arrive(page, url) = Mount \o Append(dir, IndexHtml)
    BY <1>1, <1>4, <2>1, DirectoryReached
  <2> QED
    BY <1>1, <1>5, <2>2 DEF url, dest
<1>6. CASE FileUrl(path) = Url(dest, FALSE)
  <2>1. FileUrl(path).parts = dest /\ ~FileUrl(path).slash
    BY <1>6, UrlFields
  <2>2. Arrive(page, url) = Mount \o dest
    <3>1. Last(dest).ext # ""
      BY DEF dest
    <3> QED
      BY <1>1, <1>4, <2>1, <3>1, FileReached
  <2> QED
    BY <2>2 DEF url, dest
<1> QED
  BY <1>2, <1>5, <1>6

\* The home page, whose URL is empty.
LEMMA HomeLeads ==
  ASSUME NEW page \in Paths, NEW path \in Paths, FileUrl(path) = Url(<<>>, TRUE), NEW other,
         Base(other) = Dir(Dest(page))
  PROVE  Arrive(page, GetRelativeUrl(Url(<<>>, FALSE), other)) = Mount \o Dest(path)
<1> DEFINE from == Dir(Dest(page))
           url == GetRelativeUrl(Url(<<>>, FALSE), other)
<1>1. from \in Seq(All) /\ Inside(from)
  BY OutputOf
<1>2. <<>> \in Seq(All) /\ Inside(<<>>)
  BY DEF Inside
<1>3. Url(<<>>, FALSE).parts = <<>> /\ Url(<<>>, FALSE).slash = FALSE
  BY DEF Url
<1>4. url.parts = Way(from, <<>>) /\ ~url.slash
  <2> DEFINE home == Url(<<>>, FALSE)
  <2>1. home.parts = <<>> /\ ~home.slash /\ home.parts \in Seq(All) /\ Inside(home.parts)
    BY <1>2, <1>3
  <2> HIDE DEF home
  <2>2. LET relative == GetRelativeUrl(home, other)
        IN relative.parts = Way(Dir(Dest(page)), home.parts) /\ relative.slash = home.slash
    BY <2>1, RelativeUrl
  <2> QED
    BY <2>1, <2>2 DEF home
<1> HIDE DEF url
<1>5. Way(from, <<>>) = <<>> \/ Last(Way(from, <<>>)) = Up
  <2> HIDE DEF from
  <2> QED
    BY <1>1, <1>2, WayEnds
<1>6. Arrive(page, url) = Append(NormPath((Mount \o from) \o Way(from, <<>>)), IndexHtml)
  BY <1>4, <1>5, HereOf
<1> HIDE DEF from
<1>7. NormPath((Mount \o from) \o Way(from, <<>>)) = Mount \o <<>>
  BY <1>1, <1>2, MountInside, WayLeads
<1>8. Append(Mount \o <<>>, IndexHtml) = Mount \o Append(<<>>, IndexHtml)
  <2>1. IndexHtml \in All
    BY DEF All, Parts
  <2> QED
    BY <1>2, <2>1, MountInside, ConcatOfAppend
<1>9. Dest(path) = Append(<<>>, IndexHtml)
  <2>1. Dir(Dest(path)) = <<>> /\ Last(Dest(path)) = IndexHtml
    BY DEF FileUrl, Url
  <2> QED
    BY <2>1, OutputOf
<1> QED
  BY <1>6, <1>7, <1>8, <1>9 DEF url

-----------------------------------------------------------------------------
(* The collection, changed by plugins or not, holds files of known paths,  *)
(* and the dictionary of them, when there is one, is theirs.               *)
CollectionInv ==
  /\ FilesInv
  /\ files \in Seq(Entries)
  /\ phase # "ready" => ~cached
  /\ cached => srcUris = SrcUris(files)

LEMMA InitCollection == Init => CollectionInv
<1>1. <<>> \in Seq(Entries)
  BY EmptySeq
<1> QED
  BY <1>1, InitFiles DEF Init, CollectionInv

LEMMA NextCollection == CollectionInv /\ [Next]_vars => CollectionInv'
<1> SUFFICES ASSUME CollectionInv, [Next]_vars PROVE CollectionInv'
  OBVIOUS
<1>1. FilesInv'
  BY NextFiles DEF CollectionInv
<1>2. CASE UNCHANGED vars
  BY <1>1, <1>2 DEF vars, CollectionInv
<1>3. CASE GetFiles
  <2> DEFINE P == {q \in docs : ~FilterPaths(q) /\ ~Skipped(q)}
  <2>1. files' = SetToSeq({File(p, "docs") : p \in P}) /\ phase = "walk" /\ UNCHANGED cached
    BY <1>3 DEF GetFiles
  <2>2. P \in SUBSET DocsDir
    BY DEF CollectionInv, FilesInv
  <2>3. IsFiniteSet(P) /\ P \subseteq Paths
    BY <2>2, FiniteAssumption, FS_Subset DEF Paths
  <2> HIDE DEF P
  <2>4. files' \in Seq(Entries)
    BY <2>1, <2>3, FilesInSequence
  <2> QED
    BY <1>1, <2>1, <2>4 DEF CollectionInv
<1>4. CASE AddFilesFromTheme
  <2> DEFINE P == Assets(files)
             s == SetToSeq({File(p, "theme") : p \in P})
  <2>1. files' = files \o s /\ phase = "theme" /\ UNCHANGED cached
    BY <1>4 DEF AddFilesFromTheme
  <2>2. P \in SUBSET Theme
    BY DEF Assets
  <2>3. IsFiniteSet(P) /\ P \subseteq Paths
    BY <2>2, FiniteAssumption, FS_Subset DEF Paths
  <2> HIDE DEF P
  <2>4. s \in Seq(Entries)
    BY <2>3, FilesInSequence
  <2> HIDE DEF s
  <2>5. files' \in Seq(Entries)
    BY <2>1, <2>4, ConcatProperties DEF CollectionInv
  <2> QED
    BY <1>1, <2>1, <2>5 DEF CollectionInv
<1>5. CASE Lookup
  BY <1>1, <1>5 DEF Lookup, CollectionInv
<1>6. ASSUME NEW p \in Generated, AppendFile(p) PROVE CollectionInv'
  <2>1. files' = Append(files, File(p, "plugin")) /\ cached' = FALSE
    BY <1>6 DEF AppendFile, Changed
  <2>2. File(p, "plugin") \in Entries
    BY DEF File, Entries, Paths
  <2>3. files' \in Seq(Entries)
    BY <2>1, <2>2, AppendProperties DEF CollectionInv
  <2> QED
    BY <1>1, <2>1, <2>3 DEF CollectionInv
<1>7. ASSUME NEW i \in DOMAIN files, RemoveFile(i) PROVE CollectionInv'
  <2>1. files' = RemoveFirst(files, files[i]) /\ cached' = FALSE
    BY <1>7 DEF RemoveFile, Changed
  <2>2. files' \in Seq(Entries)
    BY <2>1, RemoveFirstIs DEF CollectionInv, Without
  <2> QED
    BY <1>1, <2>1, <2>2 DEF CollectionInv
<1> QED
  BY <1>2, <1>3, <1>4, <1>5, <1>6, <1>7 DEF Next

LEMMA SourcesKnown ==
  ASSUME CollectionInv
  PROVE  Sources \subseteq Paths /\ DOMAIN Known = Sources
<1>1. files \in Seq(Entries) /\ DOMAIN files = 1..Len(files)
  BY LenProperties DEF CollectionInv
<1>2. \A i \in DOMAIN files : files[i] \in Entries
  BY <1>1, ElementOfSeq
<1>3. Known = SrcUris(files)
  BY DEF CollectionInv, Known
<1> QED
  BY <1>2, <1>3 DEF Sources, SrcUris, Entries

\* A path that does not lead up in the end keeps its last name.
LEMMA LastStays ==
  ASSUME NEW S, NEW from \in Seq(S), NEW link \in Seq(S), link # <<>>, Last(link) # Up
  PROVE  Last(NormPath(from \o link)) = Last(link)
<1> DEFINE e == Last(link)
<1>1. PICK s \in Seq(S), x \in S : link = Append(s, x)
  BY SequenceEmptyOrAppend
<1>2. e = x
  BY <1>1, FrontOfAppend
<1>3. from \o link = Append(from \o s, x) /\ from \o s \in Seq(S)
  <2>1. from \o Append(s, x) = Append(from \o s, x)
    BY ConcatOfAppend
  <2> QED
    BY <1>1, <2>1, ConcatProperties
<1>4. NormPath(from \o link) = Step(NormPath(from \o s), x, FALSE)
  BY <1>3, NormOfAppend DEF NormPath
<1>5. NormPath(from \o s) \in Seq(S)
  BY <1>3, NormIn DEF NormPath
<1> DEFINE done == NormPath(from \o s)
<1>6. Step(done, x, FALSE) = Append(done, x)
  BY <1>2 DEF Step
<1> HIDE DEF done
<1>7. Last(Append(done, x)) = x
  BY <1>5, FrontOfAppend DEF done
<1> QED
  BY <1>2, <1>4, <1>6, <1>7 DEF done

(* Whatever the files, the theme, the links in the pages, the URL style and *)
(* the place of the site, and however plugins have changed the collection: *)
(* a link to a source becomes one that leads a browser to its output.      *)
THEOREM LinksLead == Spec => []LinksLeadToTargets
<1>1. CollectionInv => LinksLeadToTargets
  <2> SUFFICES ASSUME CollectionInv, NEW p \in Pages, NEW link \in LinkPaths
               PROVE  LET target == NormPath(Dir(p) \o link) IN
                        /\ target \in Sources /\ Last(link).ext # "" =>
                             /\ Rewritten(p, link)
                             /\ Arrive(p, PathToUrl(p, link)) = Mount \o Dest(target)
                        /\ target \notin Sources => ~Rewritten(p, link)
    BY DEF LinksLeadToTargets
  <2> DEFINE target == NormPath(Dir(p) \o link)
  <2>1. Target(p, link) = target
    BY DEF Target
  <2>2. p \in Paths /\ Sources \subseteq Paths /\ DOMAIN Known = Sources
    BY SourcesKnown DEF Pages
  <2>3. target \notin Sources => ~Rewritten(p, link)
    BY <2>1, <2>2 DEF Rewritten
  <2>4. ASSUME target \in Sources, Last(link).ext # ""
        PROVE  /\ Rewritten(p, link)
               /\ Arrive(p, PathToUrl(p, link)) = Mount \o Dest(target)
    <3>1. Rewritten(p, link)
      BY <2>1, <2>2, <2>4 DEF Rewritten, NotAFile
    <3>2. Last(target) = Last(link)
      <4>1. Last(link) # Up
        BY <2>4, UpFields
      <4>2. Dir(p) \in Seq(Names) /\ link \in Seq(Names) /\ link # <<>>
        BY <2>2, PathParts, PathsAssumption
      <4> QED
        BY <4>1, <4>2, LastStays
    <3> HIDE DEF target
    <3>3. target \in Paths /\ Last(target).ext # ""
      BY <2>2, <2>4, <3>2
    <3>4. Last(Dest(target)).ext # ""
      BY <3>3, OutputOf
    <3>5. Base(FileUrl(p)) = Dir(Dest(p))
      BY <2>2, BaseOfPage
    <3>6. Arrive(p, GetRelativeUrl(FileUrl(target), FileUrl(p))) = Mount \o Dest(target)
      BY <2>2, <3>3, <3>4, <3>5, UrlsLead
    <3> QED
      BY <2>1, <3>1, <3>6 DEF PathToUrl
  <2> QED
    BY <2>3, <2>4
<1> QED
  BY <1>1, InitCollection, NextCollection, PTL DEF Spec

(* And so does every link of a theme, from any page to any, also from and  *)
(* to the home page.                                                       *)
THEOREM NavLinksLead == Spec => []NavLinksLeadToPages
<1>1. CollectionInv => NavLinksLeadToPages
  <2> SUFFICES ASSUME CollectionInv, NEW p \in Pages, NEW q \in Pages
               PROVE  Arrive(p, NormalizeUrl(q, p)) = Mount \o Dest(q)
    BY DEF NavLinksLeadToPages
  <2>1. p \in Paths /\ q \in Paths /\ IsMarkdown(q)
    BY SourcesKnown DEF Pages
  <2>2. Base(PageUrl(p)) = Dir(Dest(p))
    BY <2>1, BaseOfPage
  <2>3. CASE FileUrl(q) = Url(<<>>, TRUE)
    <3>1. Arrive(p, GetRelativeUrl(Url(<<>>, FALSE), PageUrl(p))) = Mount \o Dest(q)
      BY <2>1, <2>2, <2>3, HomeLeads
    <3>2. PageUrl(q) = Url(<<>>, FALSE)
      BY <2>3 DEF PageUrl
    <3> QED
      BY <3>1, <3>2 DEF NormalizeUrl
  <2>4. CASE FileUrl(q) # Url(<<>>, TRUE)
    <3>1. PageUrl(q) = FileUrl(q)
      BY <2>4 DEF PageUrl
    <3>2. Last(Dest(q)).ext # ""
      BY <2>1, OutputOf
    <3>3. Arrive(p, GetRelativeUrl(FileUrl(q), PageUrl(p))) = Mount \o Dest(q)
      BY <2>1, <2>2, <3>2, UrlsLead
    <3> QED
      BY <3>1, <3>3 DEF NormalizeUrl
  <2> QED
    BY <2>3, <2>4
<1> QED
  BY <1>1, InitCollection, NextCollection, PTL DEF Spec

-----------------------------------------------------------------------------
(* Recursive functions over the items of a tree.                           *)

\* Each value is made from those at a[i] and b[i].
Recursion(f, n, V, base, a, b, step) ==
  /\ f \in [0..n -> V]
  /\ \A i \in 0..n : f[i] = IF i = 0 THEN base ELSE step[<<i, f[a[i]], f[b[i]]>>]

(* There is one if a[i] and b[i] are always of a lower rank.               *)
LEMMA RecursionExists ==
  ASSUME NEW n \in Nat, NEW V, NEW base \in V,
         NEW a \in [1..n -> 0..n], NEW b \in [1..n -> 0..n],
         NEW step \in [(1..n) \X V \X V -> V],
         NEW rank \in [0..n -> 0..n],
         \A i \in 1..n : rank[a[i]] < rank[i] /\ rank[b[i]] < rank[i]
  PROVE  \E f : Recursion(f, n, V, base, a, b, step)
<1> DEFINE Value(f, i) == IF i = 0 THEN base ELSE step[<<i, f[a[i]], f[b[i]]>>]
           Good(f, k) == f \in [0..n -> V] /\ \A i \in 0..n : rank[i] < k => f[i] = Value(f, i)
           S == {k \in Nat : \E f : Good(f, k)}
<1>1. 0 \in S
  <2> DEFINE f == [i \in 0..n |-> base]
  <2>1. f \in [0..n -> V] /\ \A i \in 0..n : ~(rank[i] < 0)
    OBVIOUS
  <2>2. Good(f, 0)
    BY <2>1
  <2> QED
    BY <2>2
<1>2. ASSUME NEW k \in Nat, k \in S PROVE k + 1 \in S
  <2> PICK f : Good(f, k)
    BY <1>2
  <2> DEFINE g == [i \in 0..n |-> Value(f, i)]
  <2>1. \A i \in 0..n : Value(f, i) \in V
    <3> SUFFICES ASSUME NEW i \in 0..n, i # 0 PROVE step[<<i, f[a[i]], f[b[i]]>>] \in V
      OBVIOUS
    <3>1. i \in 1..n
      OBVIOUS
    <3>2. f[a[i]] \in V /\ f[b[i]] \in V
      BY <3>1
    <3> QED
      BY <3>1, <3>2
  <2>2. g \in [0..n -> V] /\ \A i \in 0..n : g[i] = Value(f, i)
    BY <2>1
  <2>3. ASSUME NEW i \in 0..n, rank[i] < k + 1, i # 0
        PROVE  g[a[i]] = f[a[i]] /\ g[b[i]] = f[b[i]]
    <3>1. i \in 1..n /\ a[i] \in 0..n /\ b[i] \in 0..n
      BY <2>3
    <3>2. rank[a[i]] < rank[i] /\ rank[b[i]] < rank[i]
      BY <3>1
    <3>3. rank[i] \in 0..n /\ rank[a[i]] \in 0..n /\ rank[b[i]] \in 0..n
      BY <3>1
    <3>4. rank[a[i]] < k /\ rank[b[i]] < k
      <4>1. \A x, y \in 0..n : y < k + 1 /\ x < y => x < k
        OBVIOUS
      <4> QED
        BY <2>3, <3>2, <3>3, <4>1
    <3>5. f[a[i]] = Value(f, a[i]) /\ f[b[i]] = Value(f, b[i])
      BY <3>1, <3>4
    <3> HIDE DEF g, Value
    <3> QED
      BY <2>2, <3>1, <3>5
  <2> HIDE DEF g
  <2>4. \A i \in 0..n : rank[i] < k + 1 => g[i] = Value(g, i)
    BY <2>2, <2>3
  <2>5. Good(g, k + 1)
    BY <2>2, <2>4
  <2>6. \E h : Good(h, k + 1)
    BY <2>5
  <2> HIDE DEF Good
  <2> QED
    BY <2>6
<1> HIDE DEF S
<1>3. n + 1 \in S
  BY <1>1, <1>2, NumbersBySteps
<1> PICK f : Good(f, n + 1)
  BY <1>3 DEF S
<1>4. \A i \in 0..n : rank[i] < n + 1
  OBVIOUS
<1> QED
  BY <1>4 DEF Recursion

-----------------------------------------------------------------------------
(* Trails: what is around an item.                                         *)

LEMMA TreeIs ==
  ASSUME NEW tree, IsTree(tree)
  PROVE  /\ Len(tree) \in Nat /\ DOMAIN tree = 1..Len(tree)
         /\ \A i \in 1..Len(tree) : /\ tree[i] \in Item /\ tree[i].up \in 0..Len(tree)
                                    /\ tree[i].up < i
                                    /\ tree[i].up # 0 => tree[tree[i].up].kind = "section"
<1>1. Len(tree) \in Nat /\ DOMAIN tree = 1..Len(tree) /\ \A i \in 1..Len(tree) : tree[i] \in Item
  BY LenProperties, ElementOfSeq DEF IsTree
<1>2. \A i \in 1..Len(tree) : tree[i].up \in Nat
  BY <1>1 DEF Item
<1>3. \A i \in 1..Len(tree) :
        tree[i].up < i /\ (tree[i].up # 0 => tree[tree[i].up].kind = "section")
  BY <1>1 DEF IsTree
<1>4. \A i \in 1..Len(tree) : tree[i].up \in 0..Len(tree)
  <2> SUFFICES ASSUME NEW i \in 1..Len(tree) PROVE tree[i].up \in 0..Len(tree)
    OBVIOUS
  <2>1. \A u \in Nat : u < i => u \in 0..Len(tree)
    BY <1>1
  <2> QED
    BY <1>2, <1>3, <2>1
<1> QED
  BY <1>1, <1>3, <1>4

\* Induction from the top of the tree.
LEMMA DownTheTree ==
  ASSUME NEW tree, IsTree(tree), NEW S, 0 \in S,
         \A i \in 1..Len(tree) : tree[i].up \in S => i \in S
  PROVE  \A i \in 0..Len(tree) : i \in S
<1> DEFINE T == (0..Len(tree)) \ S
<1> SUFFICES ASSUME T # {} PROVE FALSE
  OBVIOUS
<1>1. T \subseteq Nat
  OBVIOUS
<1>2. PICK m \in T : \A k \in T : m <= k
  BY <1>1, LeastNumber
<1>3. m \in 1..Len(tree)
  OBVIOUS
<1>4. tree[m].up \in 0..Len(tree) /\ tree[m].up < m
  BY <1>3, TreeIs
<1>5. ~(m <= tree[m].up)
  BY <1>3, <1>4
<1>6. tree[m].up \in S
  BY <1>2, <1>4, <1>5
<1> QED
  BY <1>3, <1>6

Parents(tree) == [i \in 1..Len(tree) |-> tree[i].up]

LEMMA ParentsRank ==
  ASSUME NEW tree, IsTree(tree)
  PROVE  /\ Parents(tree) \in [1..Len(tree) -> 0..Len(tree)]
         /\ \E rank \in [0..Len(tree) -> 0..Len(tree)] :
              \A i \in 1..Len(tree) : rank[Parents(tree)[i]] < rank[i]
<1>1. Parents(tree) \in [1..Len(tree) -> 0..Len(tree)]
  BY TreeIs DEF Parents
<1> DEFINE rank == [i \in 0..Len(tree) |-> i]
<1>2. rank \in [0..Len(tree) -> 0..Len(tree)]
  OBVIOUS
<1>3. ASSUME NEW i \in 1..Len(tree) PROVE rank[Parents(tree)[i]] < rank[i]
  <2>1. /\ tree[i].up \in 0..Len(tree) /\ tree[i].up < i
        /\ Parents(tree)[i] = tree[i].up /\ i \in 0..Len(tree)
    BY TreeIs DEF Parents
  <2>2. rank[Parents(tree)[i]] = tree[i].up /\ rank[i] = i
    BY <2>1
  <2> QED
    BY <2>1, <2>2
<1> HIDE DEF rank
<1> QED
  BY <1>1, <1>2, <1>3

TrailFun(t) == t = [j \in 0..Len(items) |-> IF j = 0 THEN <<>> ELSE Append(t[items[j].up], j)]

LEMMA TrailIs ==
  ASSUME IsTree(items)
  PROVE  /\ Trail(0) = <<>>
         /\ \A i \in 1..Len(items) : Trail(i) = Append(Trail(items[i].up), i)
         /\ \A i \in 0..Len(items) : Trail(i) \in Seq(Nat)
<1> DEFINE n == Len(items)
           V == Seq(Nat)
           step == [x \in (1..n) \X V \X V |-> Append(x[2], x[1])]
<1>1. n \in Nat /\ \A i \in 1..n : Parents(items)[i] = items[i].up /\ items[i].up \in 0..n
  BY TreeIs DEF Parents
<1>2. step \in [(1..n) \X V \X V -> V] /\ <<>> \in V
  <2>1. \A i \in 1..n, s \in V : Append(s, i) \in V
    BY AppendProperties
  <2> QED
    BY <2>1
<1>3. \A i \in 1..n, s \in V : step[<<i, s, s>>] = Append(s, i)
  OBVIOUS
<1> HIDE DEF n, V, step
<1>4. PICK f : Recursion(f, n, V, <<>>, Parents(items), Parents(items), step)
  <2>1. PICK rank \in [0..n -> 0..n] : \A i \in 1..n : rank[Parents(items)[i]] < rank[i]
    BY ParentsRank DEF n
  <2>2. Parents(items) \in [1..n -> 0..n]
    BY ParentsRank DEF n
  <2> QED
    BY <1>1, <1>2, <2>1, <2>2, RecursionExists
<1>5. \E t : TrailFun(t)
  <2>1. \A j \in 1..n : f[j] = Append(f[items[j].up], j)
    <3> SUFFICES ASSUME NEW j \in 1..n PROVE f[j] = Append(f[items[j].up], j)
      OBVIOUS
    <3>1. j \in 0..n /\ j # 0 /\ f[items[j].up] \in V
      BY <1>1, <1>4 DEF Recursion
    <3>2. f[j] = step[<<j, f[items[j].up], f[items[j].up]>>]
      BY <1>1, <1>4, <3>1 DEF Recursion
    <3> QED
      BY <1>3, <3>1, <3>2
  <2>2. f \in [0..n -> V] /\ f[0] = <<>>
    <3>1. 0 \in 0..n
      BY <1>1
    <3>2. /\ f \in [0..n -> V]
          /\ f[0] = IF 0 = 0 THEN <<>>
                    ELSE step[<<0, f[Parents(items)[0]], f[Parents(items)[0]]>>]
      BY <1>4, <3>1 DEF Recursion
    <3> QED
      BY <3>2
  <2>3. \A j \in 0..n : j # 0 => j \in 1..n
    BY <1>1
  <2>4. \A j \in 0..n : f[j] = IF j = 0 THEN <<>> ELSE Append(f[items[j].up], j)
    BY <2>1, <2>2, <2>3
  <2>5. f = [j \in 0..n |-> f[j]]
    BY <2>2
  <2>6. f = [j \in 0..n |-> IF j = 0 THEN <<>> ELSE Append(f[items[j].up], j)]
    BY <2>4, <2>5
  <2> QED
    BY <2>6 DEF TrailFun, n
<1> DEFINE t == CHOOSE t : TrailFun(t)
<1>6. TrailFun(t)
  BY <1>5
<1>7. \A i : Trail(i) = t[i]
  BY DEF Trail, TrailFun
<1> HIDE DEF t
<1>8. \A j \in 0..n : t[j] = IF j = 0 THEN <<>> ELSE Append(t[items[j].up], j)
  BY <1>6 DEF TrailFun, n
<1>9. Trail(0) = <<>> /\ \A i \in 1..n : Trail(i) = Append(Trail(items[i].up), i)
  <2>1. 0 \in 0..n /\ \A i \in 1..n : i \in 0..n /\ i # 0
    BY <1>1
  <2> QED
    BY <1>7, <1>8, <2>1
<1>10. \A i \in 0..n : Trail(i) \in Seq(Nat)
  <2> DEFINE S == {i \in 0..n : Trail(i) \in Seq(Nat)}
  <2>1. 0 \in S
    <3>1. <<>> \in Seq(Nat) /\ 0 \in 0..n
      BY <1>1
    <3> QED
      BY <1>9, <3>1
  <2>2. ASSUME NEW i \in 1..n, items[i].up \in S PROVE i \in S
    <3>1. Trail(items[i].up) \in Seq(Nat) /\ i \in Nat /\ i \in 0..n
      BY <1>1, <2>2
    <3>2. Append(Trail(items[i].up), i) \in Seq(Nat)
      BY <3>1, AppendProperties
    <3> QED
      BY <1>9, <3>1, <3>2
  <2> HIDE DEF S
  <2>3. \A i \in 0..n : i \in S
    BY <2>1, <2>2, DownTheTree DEF n
  <2> QED
    BY <2>3 DEF S
<1> QED
  BY <1>9, <1>10 DEF n

Around(i) == ToSet(Trail(i))

LEMMA AroundIs ==
  ASSUME IsTree(items)
  PROVE  /\ Around(0) = {}
         /\ \A i \in 1..Len(items) : Around(i) = Around(items[i].up) \cup {i}
<1>1. Around(0) = {}
  BY TrailIs DEF Around, ToSet
<1>2. ASSUME NEW i \in 1..Len(items) PROVE Around(i) = Around(items[i].up) \cup {i}
  <2> DEFINE s == Trail(items[i].up)
             n == Len(s)
  <2>1. s \in Seq(Nat) /\ i \in Nat /\ Trail(i) = Append(s, i)
    <3>1. items[i].up \in 0..Len(items) /\ i \in Nat
      BY TreeIs
    <3> QED
      BY <3>1, TrailIs
  <2> HIDE DEF s
  <2>2. /\ n \in Nat /\ DOMAIN s = 1..n /\ DOMAIN Append(s, i) = 1..(n + 1)
        /\ Append(s, i)[n + 1] = i /\ \A k \in 1..n : Append(s, i)[k] = s[k]
    BY <2>1, AppendProperties, LenProperties
  <2>3. 1..(n + 1) = (1..n) \cup {n + 1}
    BY <2>2
  <2> HIDE DEF n
  <2>4. ToSet(Append(s, i)) = ToSet(s) \cup {i}
    BY <2>2, <2>3 DEF ToSet
  <2> QED
    BY <2>1, <2>4 DEF Around, s
<1> QED
  BY <1>1, <1>2

\* What is around an item is around what it is around.
LEMMA AroundWithin ==
  ASSUME IsTree(items)
  PROVE  \A j \in 0..Len(items) : \A i \in Around(j) :
           i \in 1..Len(items) /\ i <= j /\ Around(i) \subseteq Around(j)
<1> DEFINE n == Len(items)
           S == {j \in 0..n : \A i \in Around(j) :
                                i \in 1..n /\ i <= j /\ Around(i) \subseteq Around(j)}
<1>1. n \in Nat /\ \A i \in 1..n : items[i].up \in 0..n /\ items[i].up < i
  BY TreeIs
<1>2. Around(0) = {} /\ \A i \in 1..n : Around(i) = Around(items[i].up) \cup {i}
  BY AroundIs
<1> HIDE DEF n
<1>3. 0 \in S
  BY <1>1, <1>2
<1>4. ASSUME NEW j \in 1..n, items[j].up \in S PROVE j \in S
  <2> SUFFICES ASSUME NEW i \in Around(j)
               PROVE  i \in 1..n /\ i <= j /\ Around(i) \subseteq Around(j)
    BY <1>1
  <2>1. CASE i = j
    BY <1>1, <2>1
  <2>2. CASE i # j
    <3>1. i \in Around(items[j].up)
      BY <1>2, <2>2
    <3>2. i \in 1..n /\ i <= items[j].up /\ Around(i) \subseteq Around(items[j].up)
      BY <1>4, <3>1
    <3>3. items[j].up \in 0..n /\ items[j].up < j
      BY <1>1
    <3>4. i <= j
      BY <1>1, <3>2, <3>3
    <3> QED
      BY <1>2, <3>2, <3>4
  <2> QED
    BY <2>1, <2>2
<1> HIDE DEF S
<1>5. \A j \in 0..n : j \in S
  BY <1>3, <1>4, DownTheTree DEF n
<1> QED
  BY <1>5 DEF S, n

\* Of two items around one, one is around the other.
LEMMA AroundLinear ==
  ASSUME IsTree(items)
  PROVE  \A j \in 0..Len(items) : \A i, k \in Around(j) : i \in Around(k) \/ k \in Around(i)
<1> DEFINE n == Len(items)
           S == {j \in 0..n : \A i, k \in Around(j) : i \in Around(k) \/ k \in Around(i)}
<1>1. n \in Nat /\ \A i \in 1..n : items[i].up \in 0..n
  BY TreeIs
<1>2. Around(0) = {} /\ \A i \in 1..n : Around(i) = Around(items[i].up) \cup {i}
  BY AroundIs
<1> HIDE DEF n
<1>3. 0 \in S
  BY <1>1, <1>2
<1>4. ASSUME NEW j \in 1..n, items[j].up \in S PROVE j \in S
  <2>1. \A i, k \in Around(items[j].up) : i \in Around(k) \/ k \in Around(i)
    BY <1>4
  <2>2. \A i, k \in Around(j) : i \in Around(k) \/ k \in Around(i)
    BY <1>2, <2>1
  <2> QED
    BY <1>1, <2>2
<1> HIDE DEF S
<1>5. \A j \in 0..n : j \in S
  BY <1>3, <1>4, DownTheTree DEF n
<1> QED
  BY <1>5 DEF S, n

\* An item around another is around the section it is in.
LEMMA AroundAbove ==
  ASSUME IsTree(items), NEW j \in 1..Len(items), NEW i \in Around(j)
  PROVE  i = j \/ i \in Around(items[j].up)
BY AroundIs

\* Nothing is in two items of one list.
LEMMA AroundOne ==
  ASSUME IsTree(items), NEW j \in 1..Len(items), NEW i \in Around(j), NEW k \in Around(j),
         items[i].up = items[k].up
  PROVE  i = k
<1>1. \A x, y \in Around(j) : items[x].up = items[y].up /\ x \in Around(y) => x = y
  <2> SUFFICES ASSUME NEW x \in Around(j), NEW y \in Around(j), items[x].up = items[y].up,
                      x \in Around(y), x # y
               PROVE  FALSE
    OBVIOUS
  <2>1. j \in 0..Len(items)
    OBVIOUS
  <2>2. x \in 1..Len(items) /\ y \in 1..Len(items)
    BY <2>1, AroundWithin
  <2>3. x \in Around(items[x].up)
    BY <2>2, AroundAbove
  <2>4. items[x].up \in 0..Len(items) /\ items[x].up < x
    BY <2>2, TreeIs
  <2>5. x <= items[x].up
    BY <2>3, <2>4, AroundWithin
  <2> QED
    BY <2>2, <2>4, <2>5
<1>2. j \in 0..Len(items)
  OBVIOUS
<1>3. i \in Around(k) \/ k \in Around(i)
  BY <1>2, AroundLinear
<1> QED
  BY <1>1, <1>3

LEMMA BeforeIs ==
  ASSUME NEW i, NEW j
  PROVE  Before(i, j) <=> \/ i # j /\ i \in Around(j)
                          \/ \E k \in Around(i), l \in Around(j) :
                               k < l /\ items[k].up = items[l].up
BY DEF Before, Around

(* No two items are in order both ways.                                    *)
LEMMA BeforeOneWay ==
  ASSUME IsTree(items), NEW i \in 1..Len(items), NEW j \in 1..Len(items), Before(i, j)
  PROVE  ~Before(j, i)
<1> SUFFICES ASSUME Before(j, i) PROVE FALSE
  OBVIOUS
<1>1. i \in 0..Len(items) /\ j \in 0..Len(items) /\ i \in Nat /\ j \in Nat
  BY TreeIs
<1>2. \A k \in Around(i) \cup Around(j) : k \in 1..Len(items)
  BY <1>1, AroundWithin
<1>3. ASSUME NEW k \in Around(i), NEW l \in Around(i), k < l, items[k].up = items[l].up PROVE FALSE
  <2>1. k = l
    BY <1>3, AroundOne
  <2> QED
    BY <1>2, <1>3, <2>1
<1>4. ASSUME NEW k \in Around(j), NEW l \in Around(j), k < l, items[k].up = items[l].up PROVE FALSE
  <2>1. k = l
    BY <1>4, AroundOne
  <2> QED
    BY <1>2, <1>4, <2>1
<1>5. CASE i # j /\ i \in Around(j)
  <2>1. Around(i) \subseteq Around(j) /\ i <= j
    BY <1>1, <1>5, AroundWithin
  <2>2. CASE j \in Around(i)
    <3>1. j <= i
      BY <1>1, <2>2, AroundWithin
    <3> QED
      BY <1>1, <1>5, <2>1, <3>1
  <2>3. CASE j \notin Around(i)
    BY <1>4, <2>1, <2>3, BeforeIs
  <2> QED
    BY <2>2, <2>3
<1>6. CASE j # i /\ j \in Around(i)
  <2>1. Around(j) \subseteq Around(i)
    BY <1>1, <1>6, AroundWithin
  <2>2. i \notin Around(j)
    BY <1>5, <1>6
  <2> QED
    BY <1>3, <2>1, <2>2, BeforeIs
<1>7. CASE ~(i # j /\ i \in Around(j)) /\ ~(j # i /\ j \in Around(i))
  <2>1. PICK a \in Around(i), b \in Around(j) : a < b /\ items[a].up = items[b].up
    BY <1>7, BeforeIs
  <2>2. PICK c \in Around(j), d \in Around(i) : c < d /\ items[c].up = items[d].up
    BY <1>7, BeforeIs
  <2>3. a \in 1..Len(items) /\ b \in 1..Len(items) /\ c \in 1..Len(items) /\ d \in 1..Len(items)
    BY <1>2
  <2>4. a \in 0..Len(items) /\ b \in 0..Len(items) /\ c \in 0..Len(items) /\ d \in 0..Len(items)
    BY <2>3
  <2>5. CASE a = d
    <3>1. c < b /\ items[c].up = items[b].up
      BY <2>1, <2>2, <2>3, <2>5
    <3> QED
      BY <1>4, <3>1
  <2>6. CASE d \in Around(a) /\ a # d
    <3>1. d \in Around(items[b].up)
      BY <2>1, <2>3, <2>6, AroundAbove
    <3>2. d \in Around(b)
      BY <2>3, <3>1, AroundIs
    <3>3. d \in Around(j)
      BY <1>1, <2>1, <3>2, AroundWithin
    <3> QED
      BY <1>4, <2>2, <3>3
  <2>7. CASE a \in Around(d) /\ a # d
    <3>1. a \in Around(items[c].up)
      BY <2>2, <2>3, <2>7, AroundAbove
    <3>2. a \in Around(c)
      BY <2>3, <3>1, AroundIs
    <3>3. a \in Around(j)
      BY <1>1, <2>2, <3>2, AroundWithin
    <3> QED
      BY <1>4, <2>1, <3>3
  <2>8. a \in Around(d) \/ d \in Around(a)
    BY <1>1, AroundLinear
  <2> QED
    BY <2>5, <2>6, <2>7, <2>8
<1> QED
  BY <1>5, <1>6, <1>7

-----------------------------------------------------------------------------
(* The order of the pages.                                                 *)

LEMMA FirstIs ==
  ASSUME NEW T, T \subseteq Nat, 0 \notin T
  PROVE  IF T = {} THEN First(T) = 0
         ELSE First(T) \in T /\ First(T) # 0 /\ \A x \in T : First(T) <= x
<1>1. CASE T = {}
  BY <1>1 DEF First
<1>2. CASE T # {}
  <2>1. PICK m \in T : \A x \in T : m <= x
    BY <1>2, LeastNumber
  <2>2. Min(T) \in T /\ \A x \in T : Min(T) <= x
    BY <2>1 DEF Min
  <2> QED
    BY <1>2, <2>2 DEF First
<1> QED
  BY <1>1, <1>2

\* Induction from the end of the tree.
LEMMA UpTheTree ==
  ASSUME NEW n \in Nat, NEW S, 0 \in S,
         \A i \in 1..n : (\A j \in 1..n : i < j => j \in S) => i \in S
  PROVE  \A i \in 0..n : i \in S
<1> DEFINE T == {n - i : i \in (1..n) \ S}
<1> SUFFICES ASSUME T # {} PROVE FALSE
  <2>1. \A i \in 0..n : i # 0 => i \in 1..n
    OBVIOUS
  <2> QED
    BY <2>1
<1>1. T \subseteq Nat
  OBVIOUS
<1> HIDE DEF T
<1>2. PICK m \in T : \A k \in T : m <= k
  BY <1>1, LeastNumber
<1>3. PICK i \in (1..n) \ S : m = n - i
  BY <1>2 DEF T
<1>4. \A j \in (1..n) \ S : n - i <= n - j
  <2>1. \A j \in (1..n) \ S : n - j \in T
    BY DEF T
  <2> QED
    BY <1>2, <1>3, <2>1
<1>5. \A j \in 1..n : i < j => ~(n - i <= n - j)
  BY <1>3
<1> QED
  BY <1>3, <1>4, <1>5

LEMMA ListsAre ==
  ASSUME NEW tree, IsTree(tree), NEW i \in 1..Len(tree)
  PROVE  /\ Children(tree, i) = {j \in 1..Len(tree) : tree[j].up = i}
         /\ \A j \in Children(tree, i) \cup Following(tree, i) : j \in 1..Len(tree) /\ i < j
<1>1. DOMAIN tree = 1..Len(tree) /\ \A j \in 1..Len(tree) : tree[j].up < j
  BY TreeIs
<1> QED
  BY <1>1 DEF Children, Following

Firsts(tree) == [i \in 1..Len(tree) |-> First(Children(tree, i))]
Nexts(tree) == [i \in 1..Len(tree) |-> First(Following(tree, i))]

LEMMA FirstsRank ==
  ASSUME NEW tree, IsTree(tree)
  PROVE  /\ Firsts(tree) \in [1..Len(tree) -> 0..Len(tree)]
         /\ Nexts(tree) \in [1..Len(tree) -> 0..Len(tree)]
         /\ \E rank \in [0..Len(tree) -> 0..Len(tree)] :
              \A i \in 1..Len(tree) : /\ rank[Firsts(tree)[i]] < rank[i]
                                      /\ rank[Nexts(tree)[i]] < rank[i]
<1> DEFINE n == Len(tree)
           rank == [i \in 0..n |-> IF i = 0 THEN 0 ELSE n + 1 - i]
<1>1. n \in Nat
  BY TreeIs
<1>2. ASSUME NEW i \in 1..n
      PROVE  /\ Firsts(tree)[i] \in 0..n /\ (Firsts(tree)[i] # 0 => i < Firsts(tree)[i])
             /\ Nexts(tree)[i] \in 0..n /\ (Nexts(tree)[i] # 0 => i < Nexts(tree)[i])
  <2>1. \A j \in Children(tree, i) \cup Following(tree, i) : j \in 1..n /\ i < j
    BY ListsAre
  <2> HIDE DEF n
  <2>2. /\ Children(tree, i) \subseteq Nat /\ 0 \notin Children(tree, i)
        /\ Following(tree, i) \subseteq Nat /\ 0 \notin Following(tree, i)
    BY <1>1, <2>1
  <2>3. First(Children(tree, i)) = 0 \/ First(Children(tree, i)) \in Children(tree, i)
    BY <2>2, FirstIs
  <2>4. First(Following(tree, i)) = 0 \/ First(Following(tree, i)) \in Following(tree, i)
    BY <2>2, FirstIs
  <2>5. Firsts(tree)[i] = First(Children(tree, i)) /\ Nexts(tree)[i] = First(Following(tree, i))
    BY DEF Firsts, Nexts, n
  <2>6. 0 \in 0..n /\ \A j \in 1..n : j \in 0..n
    BY <1>1
  <2> QED
    BY <2>1, <2>3, <2>4, <2>5, <2>6
<1>3. Firsts(tree) \in [1..n -> 0..n] /\ Nexts(tree) \in [1..n -> 0..n]
  BY <1>2 DEF Firsts, Nexts
<1> HIDE DEF n
<1>4. rank \in [0..n -> 0..n]
  BY <1>1
<1>5. \A i \in 1..n : \A j \in 0..n : (j # 0 => i < j) => rank[j] < rank[i]
  BY <1>1
<1> HIDE DEF rank
<1>6. \A i \in 1..n : rank[Firsts(tree)[i]] < rank[i] /\ rank[Nexts(tree)[i]] < rank[i]
  BY <1>2, <1>5
<1>7. \E r \in [0..n -> 0..n] :
        \A i \in 1..n : r[Firsts(tree)[i]] < r[i] /\ r[Nexts(tree)[i]] < r[i]
  BY <1>4, <1>6
<1> QED
  BY <1>3, <1>7 DEF n

Own(tree, i) == IF IsPage(tree[i], AllFiles) THEN <<i>> ELSE <<>>

VisitFun(v, tree) ==
  v = [i \in 0..Len(tree) |->
         IF i = 0 THEN <<>>
         ELSE (IF IsPage(tree[i], AllFiles) THEN <<i>> ELSE <<>>) \o
                v[First(Children(tree, i))] \o v[First(Following(tree, i))]]

LEMMA PagesVisited ==
  ASSUME NEW tree, IsTree(tree)
  PROVE  \E v : /\ GetPages(tree, AllFiles) = v[First(Children(tree, 0))] /\ v[0] = <<>>
                /\ \A i \in 1..Len(tree) :
                     v[i] = (Own(tree, i) \o v[First(Children(tree, i))])
                              \o v[First(Following(tree, i))]
<1> DEFINE n == Len(tree)
           V == Seq(Nat)
           step == [x \in (1..n) \X V \X V |-> (Own(tree, x[1]) \o x[2]) \o x[3]]
<1>1. n \in Nat
  BY TreeIs
<1>2. step \in [(1..n) \X V \X V -> V] /\ <<>> \in V
  <2>1. ASSUME NEW i \in 1..n, NEW s \in V, NEW t \in V PROVE (Own(tree, i) \o s) \o t \in V
    <3>1. Own(tree, i) \in V
      BY <1>1 DEF Own
    <3> HIDE DEF V
    <3>2. Own(tree, i) \o s \in V
      BY <3>1, ConcatProperties DEF V
    <3> QED
      BY <3>2, ConcatProperties DEF V
  <2> HIDE DEF V, n
  <2>2. \A x \in (1..n) \X V \X V : (Own(tree, x[1]) \o x[2]) \o x[3] \in V
    BY <2>1
  <2> QED
    BY <2>2 DEF V
<1>3. \A i \in 1..n, s, t \in V : step[<<i, s, t>>] = (Own(tree, i) \o s) \o t
  <2> HIDE DEF V, n
  <2> QED
    OBVIOUS
<1>4. \A i \in 1..n : /\ Firsts(tree)[i] = First(Children(tree, i))
                      /\ Nexts(tree)[i] = First(Following(tree, i))
                      /\ Firsts(tree)[i] \in 0..n /\ Nexts(tree)[i] \in 0..n
  BY FirstsRank DEF Firsts, Nexts
<1> HIDE DEF n, V, step
<1>5. PICK f : Recursion(f, n, V, <<>>, Firsts(tree), Nexts(tree), step)
  <2>1. PICK rank \in [0..n -> 0..n] :
          \A i \in 1..n : rank[Firsts(tree)[i]] < rank[i] /\ rank[Nexts(tree)[i]] < rank[i]
    BY FirstsRank DEF n
  <2>2. Firsts(tree) \in [1..n -> 0..n] /\ Nexts(tree) \in [1..n -> 0..n]
    BY FirstsRank DEF n
  <2> QED
    BY <1>1, <1>2, <2>1, <2>2, RecursionExists
<1>6. \E v : VisitFun(v, tree)
  <2>1. \A i \in 1..n :
          f[i] = (Own(tree, i) \o f[First(Children(tree, i))]) \o f[First(Following(tree, i))]
    <3> SUFFICES ASSUME NEW i \in 1..n
                 PROVE  f[i] = (Own(tree, i) \o f[First(Children(tree, i))])
                                  \o f[First(Following(tree, i))]
      OBVIOUS
    <3>1. /\ i \in 0..n /\ i # 0 /\ f[First(Children(tree, i))] \in V
          /\ f[First(Following(tree, i))] \in V
      BY <1>1, <1>4, <1>5 DEF Recursion
    <3>2. f[i] = step[<<i, f[First(Children(tree, i))], f[First(Following(tree, i))]>>]
      BY <1>4, <1>5, <3>1 DEF Recursion
    <3> QED
      BY <1>3, <3>1, <3>2
  <2>2. f \in [0..n -> V] /\ f[0] = <<>>
    BY <1>1, <1>5 DEF Recursion
  <2>3. \A i \in 0..n : i # 0 => i \in 1..n
    BY <1>1
  <2>4. \A i \in 0..n :
          f[i] = IF i = 0 THEN <<>>
                 ELSE (Own(tree, i) \o f[First(Children(tree, i))]) \o f[First(Following(tree, i))]
    BY <2>1, <2>2, <2>3
  <2>5. f = [i \in 0..n |-> f[i]]
    BY <2>2
  <2>6. f = [i \in 0..n |->
               IF i = 0 THEN <<>>
               ELSE (Own(tree, i) \o f[First(Children(tree, i))]) \o f[First(Following(tree, i))]]
    BY <2>4, <2>5
  <2> QED
    BY <2>6 DEF VisitFun, Own, n
<1> DEFINE v == CHOOSE v : VisitFun(v, tree)
<1>7. VisitFun(v, tree)
  BY <1>6
<1>8. GetPages(tree, AllFiles) = v[First(Children(tree, 0))]
  BY DEF GetPages, VisitFun
<1> HIDE DEF v
<1>9. \A i \in 0..n :
        v[i] = IF i = 0 THEN <<>>
               ELSE (Own(tree, i) \o v[First(Children(tree, i))]) \o v[First(Following(tree, i))]
  BY <1>7 DEF VisitFun, Own, n
<1>10. 0 \in 0..n /\ \A i \in 1..n : i \in 0..n /\ i # 0
  BY <1>1
<1> QED
  BY <1>8, <1>9, <1>10 DEF n

\* The items in a section, and the section.
Below(i) == {j \in 1..Len(items) : i \in Around(j)}

\* All that is in an item and in those that follow it in its list.
RestOf(i) == IF i = 0 THEN {} ELSE UNION {Below(j) : j \in {i} \cup Following(items, i)}

\* A list from some place on.
LEMMA RestOfList ==
  ASSUME IsTree(items), NEW u, NEW m \in Nat,
         NEW T, T = {j \in Children(items, u) : m < j}
  PROVE  /\ RestOf(First(T)) = UNION {Below(j) : j \in T}
         /\ First(T) \in 0..Len(items)
<1>1. Len(items) \in Nat /\ Children(items, u) = {j \in 1..Len(items) : items[j].up = u}
  BY TreeIs DEF Children
<1>2. T \subseteq 1..Len(items) /\ T \subseteq Nat /\ 0 \notin T
  BY <1>1
<1>3. CASE T = {}
  <2>1. First(T) = 0 /\ UNION {Below(j) : j \in T} = {}
    BY <1>2, <1>3, FirstIs
  <2> QED
    BY <1>1, <2>1 DEF RestOf
<1>4. CASE T # {}
  <2> DEFINE f == First(T)
  <2>1. f \in T /\ f # 0 /\ \A x \in T : f <= x
    BY <1>2, <1>4, FirstIs
  <2> HIDE DEF f
  <2>2. items[f].up = u /\ m < f /\ f \in 1..Len(items)
    BY <1>1, <2>1
  <2>3. Following(items, f) = {j \in 1..Len(items) : items[j].up = u /\ f < j}
    BY <1>1, <2>2 DEF Following
  <2>4. \A j \in 1..Len(items) : j \in T <=> items[j].up = u /\ (j = f \/ f < j)
    <3>1. \A j \in 1..Len(items) : j \in T <=> items[j].up = u /\ m < j
      BY <1>1
    <3>2. \A j \in 1..Len(items) : f < j => m < j
      BY <2>2
    <3>3. \A j \in T : j = f \/ f < j
      BY <1>2, <2>1
    <3> QED
      BY <2>1, <2>2, <3>1, <3>2, <3>3
  <2>5. T = {f} \cup Following(items, f)
    BY <1>2, <2>1, <2>3, <2>4
  <2> QED
    BY <1>1, <2>1, <2>2, <2>5 DEF RestOf, f
<1> QED
  BY <1>3, <1>4

LEMMA BelowAll ==
  ASSUME IsTree(items)
  PROVE  UNION {Below(c) : c \in Children(items, 0)} = 1..Len(items)
<1> DEFINE n == Len(items)
           S == {j \in 0..n : j = 0 \/ \E c \in Children(items, 0) : c \in Around(j)}
<1>1. n \in Nat /\ Children(items, 0) = {j \in 1..n : items[j].up = 0}
  BY TreeIs DEF Children
<1>2. \A j \in 1..n : Around(j) = Around(items[j].up) \cup {j}
  BY AroundIs
<1>3. 0 \in S
  BY <1>1
<1>4. ASSUME NEW j \in 1..n, items[j].up \in S PROVE j \in S
  <2>1. CASE items[j].up = 0
    <3>1. j \in Children(items, 0) /\ j \in Around(j) /\ j \in 0..n
      BY <1>1, <1>2, <2>1
    <3> QED
      BY <3>1
  <2>2. CASE items[j].up # 0
    BY <1>1, <1>2, <1>4, <2>2
  <2> QED
    BY <2>1, <2>2
<1> HIDE DEF S
<1>5. \A j \in 0..n : j \in S
  BY <1>3, <1>4, DownTheTree
<1>6. \A j \in 1..n : \E c \in Children(items, 0) : c \in Around(j)
  BY <1>1, <1>5 DEF S
<1> QED
  BY <1>1, <1>6 DEF Below

LEMMA BelowIs ==
  ASSUME IsTree(items), NEW i \in 1..Len(items)
  PROVE  Below(i) = {i} \cup UNION {Below(c) : c \in Children(items, i)}
<1> DEFINE n == Len(items)
           S == {j \in 0..n : i \in Around(j) =>
                                j = i \/ \E c \in Children(items, i) : c \in Around(j)}
<1>1. /\ n \in Nat /\ Children(items, i) = {j \in 1..n : items[j].up = i}
      /\ \A j \in 1..n : items[j].up \in 0..n
  BY TreeIs DEF Children
<1>2. Around(0) = {} /\ \A j \in 1..n : Around(j) = Around(items[j].up) \cup {j}
  BY AroundIs
<1>3. 0 \in S
  BY <1>1, <1>2
<1>4. ASSUME NEW j \in 1..n, items[j].up \in S PROVE j \in S
  <2> SUFFICES ASSUME i \in Around(j), j # i PROVE \E c \in Children(items, i) : c \in Around(j)
    BY <1>1
  <2>1. i \in Around(items[j].up)
    BY <1>2
  <2>2. CASE items[j].up = i
    BY <1>1, <1>2, <2>2
  <2>3. CASE items[j].up # i
    BY <1>2, <1>4, <2>1, <2>3
  <2> QED
    BY <2>2, <2>3
<1> HIDE DEF S
<1>5. \A j \in 0..n : j \in S
  BY <1>3, <1>4, DownTheTree
<1>6. \A j \in 1..n : i \in Around(j) => j = i \/ \E c \in Children(items, i) : c \in Around(j)
  BY <1>1, <1>5 DEF S
<1>7. i \in Around(i)
  BY <1>2
<1>8. ASSUME NEW c \in Children(items, i), NEW j \in 1..n, c \in Around(j) PROVE i \in Around(j)
  <2>1. c \in 1..n /\ i \in Around(c) /\ j \in 0..n
    BY <1>1, <1>2, <1>7, <1>8
  <2> QED
    BY <1>8, <2>1, AroundWithin
<1> HIDE DEF n
<1> QED
  BY <1>6, <1>7, <1>8 DEF Below, n

\* The pages in a set of items, in order.
Ordered(list, S) ==
  /\ list \in Seq(Nat)
  /\ {list[k] : k \in 1..Len(list)} = {i \in S : IsPage(items[i], AllFiles)}
  /\ \A k, l \in 1..Len(list) : k < l => Before(list[k], list[l])

LEMMA OrderedJoin ==
  ASSUME NEW a, NEW A, Ordered(a, A), NEW b, NEW B, Ordered(b, B),
         \A i \in A, j \in B : Before(i, j)
  PROVE  Ordered(a \o b, A \cup B)
<1> DEFINE c == a \o b
           m == Len(a)
           n == Len(b)
<1>1. a \in Seq(Nat) /\ b \in Seq(Nat) /\ m \in Nat /\ n \in Nat
  BY LenProperties DEF Ordered
<1>2. /\ c \in Seq(Nat) /\ Len(c) = m + n
      /\ \A i \in 1..(m + n) : c[i] = IF i <= m THEN a[i] ELSE b[i - m]
  BY <1>1, ConcatProperties
<1> HIDE DEF c
<1>3. /\ {a[k] : k \in 1..m} = {i \in A : IsPage(items[i], AllFiles)}
      /\ {b[k] : k \in 1..n} = {i \in B : IsPage(items[i], AllFiles)}
  BY DEF Ordered
<1>4. /\ \A k, l \in 1..m : k < l => Before(a[k], a[l])
      /\ \A k, l \in 1..n : k < l => Before(b[k], b[l])
  BY DEF Ordered
<1> HIDE DEF m, n
<1>5. ASSUME NEW i \in 1..(m + n)
      PROVE  \/ i \in 1..m /\ c[i] = a[i]
             \/ i - m \in 1..n /\ c[i] = b[i - m] /\ ~(i <= m)
  BY <1>1, <1>2
<1>6. /\ \A i \in 1..m : i \in 1..(m + n) /\ c[i] = a[i]
      /\ \A i \in 1..n : i + m \in 1..(m + n) /\ c[i + m] = b[i]
  <2>1. \A i \in 1..m : i \in 1..(m + n) /\ i <= m
    BY <1>1
  <2>2. \A i \in 1..n : i + m \in 1..(m + n) /\ ~(i + m <= m) /\ (i + m) - m = i
    BY <1>1
  <2> QED
    BY <1>2, <2>1, <2>2
<1>7. {c[i] : i \in 1..(m + n)} = {a[k] : k \in 1..m} \cup {b[k] : k \in 1..n}
  <2>1. \A i \in 1..(m + n) : (\E k \in 1..m : c[i] = a[k]) \/ (\E k \in 1..n : c[i] = b[k])
    BY <1>5
  <2> QED
    BY <1>6, <2>1
<1>8. ASSUME NEW i \in 1..(m + n), NEW j \in 1..(m + n), i < j PROVE Before(c[i], c[j])
  <2>1. CASE i \in 1..m /\ j \in 1..m
    BY <1>4, <1>6, <1>8, <2>1
  <2>2. CASE i \in 1..m /\ j \notin 1..m
    <3>1. j - m \in 1..n /\ c[j] = b[j - m] /\ c[i] = a[i]
      BY <1>5, <1>6, <2>2
    <3>2. a[i] \in A /\ b[j - m] \in B
      BY <1>3, <2>2, <3>1
    <3> QED
      BY <3>1, <3>2
  <2>3. CASE i \notin 1..m
    <3>1. i - m \in 1..n /\ c[i] = b[i - m] /\ ~(i <= m)
      BY <1>5, <2>3
    <3>2. j \notin 1..m
      BY <1>1, <1>8, <3>1
    <3>3. j - m \in 1..n /\ c[j] = b[j - m]
      BY <1>5, <3>2
    <3>4. i - m < j - m
      BY <1>1, <1>8
    <3> QED
      BY <1>4, <3>1, <3>3, <3>4
  <2> QED
    BY <2>1, <2>2, <2>3
<1>9. {i \in A \cup B : IsPage(items[i], AllFiles)}
        = {i \in A : IsPage(items[i], AllFiles)} \cup {i \in B : IsPage(items[i], AllFiles)}
  OBVIOUS
<1> QED
  BY <1>2, <1>3, <1>7, <1>8, <1>9 DEF Ordered, c

LEMMA OwnOrdered ==
  ASSUME NEW i \in Nat
  PROVE  Ordered(Own(items, i), {i})
<1>1. CASE IsPage(items[i], AllFiles)
  <2>1. Own(items, i) = <<i>> /\ Len(<<i>>) = 1 /\ <<i>>[1] = i /\ 1..1 = {1} /\ <<i>> \in Seq(Nat)
    BY <1>1 DEF Own
  <2> QED
    BY <1>1, <2>1 DEF Ordered
<1>2. CASE ~IsPage(items[i], AllFiles)
  BY <1>2 DEF Own, Ordered
<1> QED
  BY <1>1, <1>2

(* _get_by_type gives all pages, in the order of the tree.                 *)
LEMMA PagesOrdered ==
  ASSUME IsTree(items)
  PROVE  Ordered(GetPages(items, AllFiles), 1..Len(items))
<1> DEFINE n == Len(items)
<1>1. PICK v : /\ GetPages(items, AllFiles) = v[First(Children(items, 0))] /\ v[0] = <<>>
               /\ \A i \in 1..Len(items) :
                    v[i] = (Own(items, i) \o v[First(Children(items, i))])
                             \o v[First(Following(items, i))]
  BY PagesVisited
<1>2. n \in Nat
  BY TreeIs
<1> DEFINE S == {i \in 0..n : Ordered(v[i], RestOf(i))}
<1>3. 0 \in S
  <2>1. RestOf(0) = {} /\ Ordered(<<>>, {}) /\ 0 \in 0..n
    BY <1>2 DEF RestOf, Ordered
  <2>2. Ordered(v[0], RestOf(0))
    BY <1>1, <2>1
  <2> QED
    BY <2>1, <2>2
<1>4. ASSUME NEW i \in 1..n, \A j \in 1..n : i < j => j \in S PROVE i \in S
  <2> DEFINE f == First(Children(items, i))
             g == First(Following(items, i))
             A == UNION {Below(j) : j \in Children(items, i)}
             B == UNION {Below(j) : j \in Following(items, i)}
  <2>1. /\ \A j \in Children(items, i) \cup Following(items, i) : j \in 1..n /\ i < j
        /\ Children(items, i) \subseteq Nat /\ 0 \notin Children(items, i)
        /\ Following(items, i) \subseteq Nat /\ 0 \notin Following(items, i)
    BY ListsAre
  <2>2. RestOf(f) = A /\ RestOf(g) = B
    <3>1. Children(items, i) = {j \in Children(items, i) : 0 < j}
      BY <2>1
    <3>2. Following(items, i) = {j \in Children(items, items[i].up) : i < j}
      BY DEF Following
    <3>3. RestOf(f) = A
      BY <3>1, RestOfList
    <3>4. RestOf(g) = B
      BY <3>2, RestOfList
    <3> QED
      BY <3>3, <3>4
  <2>3. f \in S /\ g \in S
    <3>1. f = 0 \/ f \in Children(items, i)
      BY <2>1, FirstIs
    <3>2. g = 0 \/ g \in Following(items, i)
      BY <2>1, FirstIs
    <3> HIDE DEF S, f, g
    <3> QED
      BY <1>3, <1>4, <2>1, <3>1, <3>2
  <2>4. Ordered(v[f], A) /\ Ordered(v[g], B)
    BY <2>2, <2>3
  <2>5. v[i] = (Own(items, i) \o v[f]) \o v[g]
    BY <1>1
  <2>6. Below(i) = {i} \cup A
    BY BelowIs
  <2>7. Around(i) = Around(items[i].up) \cup {i}
    BY AroundIs
  <2>8. \A j \in A : Before(i, j)
    <3> SUFFICES ASSUME NEW c \in Children(items, i), NEW j \in Below(c) PROVE Before(i, j)
      OBVIOUS
    <3>1. j \in 1..n /\ i < c /\ j \in 0..n /\ c \in Around(j)
      BY <2>1 DEF Below
    <3>2. c <= j /\ c \in 1..n
      BY <3>1, AroundWithin
    <3>3. j \in Below(i)
      BY <2>6
    <3>4. i # j /\ i \in Around(j)
      BY <1>2, <3>1, <3>2, <3>3 DEF Below
    <3> QED
      BY <3>4, BeforeIs
  <2>9. \A k \in Below(i), j \in B : Before(k, j)
    <3> SUFFICES ASSUME NEW k \in Below(i), NEW c \in Following(items, i), NEW j \in Below(c)
                 PROVE  Before(k, j)
      OBVIOUS
    <3>1. i \in Around(k) /\ c \in Around(j) /\ i < c /\ items[c].up = items[i].up
      BY <2>1 DEF Below, Following, Children
    <3> QED
      BY <3>1, BeforeIs
  <2>10. Ordered(Own(items, i), {i})
    BY OwnOrdered
  <2>11. RestOf(i) = Below(i) \cup B
    BY <1>2 DEF RestOf
  <2> HIDE DEF f, g, A, B
  <2>12. Ordered(Own(items, i) \o v[f], {i} \cup A)
    BY <2>4, <2>8, <2>10, OrderedJoin
  <2>13. Ordered((Own(items, i) \o v[f]) \o v[g], Below(i) \cup B)
    BY <2>4, <2>6, <2>9, <2>12, OrderedJoin
  <2>14. Ordered(v[i], RestOf(i)) /\ i \in 0..n
    BY <1>2, <2>5, <2>11, <2>13
  <2> QED
    BY <2>14
<1> HIDE DEF S, n
<1>5. \A i \in 0..n : i \in S
  BY <1>2, <1>3, <1>4, UpTheTree
<1>6. RestOf(First(Children(items, 0))) = 1..n /\ First(Children(items, 0)) \in 0..n
  <2>1. Children(items, 0) = {j \in Children(items, 0) : 0 < j}
    BY TreeIs DEF Children
  <2>2. /\ RestOf(First(Children(items, 0))) = UNION {Below(j) : j \in Children(items, 0)}
        /\ First(Children(items, 0)) \in 0..Len(items)
    BY <2>1, RestOfList
  <2> QED
    BY <2>2, BelowAll DEF n
<1>7. Ordered(v[First(Children(items, 0))], 1..n)
  BY <1>5, <1>6 DEF S
<1> QED
  BY <1>1, <1>7 DEF n

-----------------------------------------------------------------------------
(* The pages of the navigation.                                            *)

NavPages == GetPages(items, AllFiles)

LEMMA PagesAre ==
  ASSUME IsTree(items)
  PROVE  /\ NavPages \in Seq(Nat) /\ Len(NavPages) \in Nat /\ DOMAIN NavPages = 1..Len(NavPages)
         /\ \A k \in 1..Len(NavPages) :
              NavPages[k] \in 1..Len(items) /\ IsPage(items[NavPages[k]], AllFiles)
         /\ \A i \in 1..Len(items) : IsPage(items[i], AllFiles) =>
              \E k \in 1..Len(NavPages) : NavPages[k] = i
         /\ \A k, l \in 1..Len(NavPages) : /\ k < l <=> Before(NavPages[k], NavPages[l])
                                           /\ NavPages[k] = NavPages[l] => k = l
<1> DEFINE n == Len(NavPages)
<1>1. /\ NavPages \in Seq(Nat) /\ n \in Nat /\ DOMAIN NavPages = 1..n
      /\ {NavPages[k] : k \in 1..n} = {i \in 1..Len(items) : IsPage(items[i], AllFiles)}
      /\ \A k, l \in 1..n : k < l => Before(NavPages[k], NavPages[l])
  BY PagesOrdered, LenProperties DEF Ordered, NavPages
<1> HIDE DEF n
<1>2. \A k \in 1..n : NavPages[k] \in 1..Len(items) /\ IsPage(items[NavPages[k]], AllFiles)
  BY <1>1
<1>3. \A i \in 1..Len(items) : IsPage(items[i], AllFiles) => \E k \in 1..n : NavPages[k] = i
  BY <1>1
<1>4. ASSUME NEW k \in 1..n, NEW l \in 1..n, l < k,
             NavPages[k] = NavPages[l] \/ Before(NavPages[k], NavPages[l])
      PROVE  FALSE
  <2>1. /\ Before(NavPages[l], NavPages[k])
        /\ NavPages[k] \in 1..Len(items) /\ NavPages[l] \in 1..Len(items)
    BY <1>1, <1>2, <1>4
  <2>2. ~Before(NavPages[k], NavPages[l])
    BY <2>1, BeforeOneWay
  <2> QED
    BY <1>4, <2>1, <2>2
<1>5. \A k, l \in 1..n : NavPages[k] = NavPages[l] => k = l
  <2> SUFFICES ASSUME NEW k \in 1..n, NEW l \in 1..n, NavPages[k] = NavPages[l] PROVE k = l
    OBVIOUS
  <2>1. ~(l < k) /\ ~(k < l)
    BY <1>4
  <2> QED
    BY <1>1, <2>1
<1>6. ASSUME NEW k \in 1..n, Before(NavPages[k], NavPages[k]) PROVE FALSE
  <2>1. NavPages[k] \in 1..Len(items)
    BY <1>2
  <2> QED
    BY <1>6, <2>1, BeforeOneWay
<1>7. \A k, l \in 1..n : k < l <=> Before(NavPages[k], NavPages[l])
  <2> SUFFICES ASSUME NEW k \in 1..n, NEW l \in 1..n, Before(NavPages[k], NavPages[l]) PROVE k < l
    BY <1>1
  <2>1. ~(l < k)
    BY <1>4
  <2>2. k # l
    BY <1>6
  <2> QED
    BY <1>1, <2>1, <2>2
<1> QED
  BY <1>1, <1>2, <1>3, <1>5, <1>7 DEF n

\* The visit and the order of the tree are the same.
LEMMA PagesOneOrder ==
  ASSUME IsTree(items), NEW k \in 1..Len(NavPages), NEW l \in 1..Len(NavPages)
  PROVE  k < l <=> Before(NavPages[k], NavPages[l])
<1>1. \A i, j \in 1..Len(NavPages) : i < j <=> Before(NavPages[i], NavPages[j])
  BY PagesAre
<1> QED
  BY <1>1

\* previous_page and next_page are those before and behind in the list.
LEMMA NeighboursAre ==
  ASSUME IsTree(items)
  PROVE  /\ DOMAIN Neighbours(NavPages) = {NavPages[k] : k \in 1..Len(NavPages)}
         /\ \A k \in 1..Len(NavPages) :
              Neighbours(NavPages)[NavPages[k]] = <<IF k = 1 THEN 0 ELSE NavPages[k - 1],
                                              IF k = Len(NavPages) THEN 0 ELSE NavPages[k + 1]>>
<1> DEFINE n == Len(NavPages)
           ends == <<0>> \o NavPages \o <<0>>
           place(i) == SelectInSeq(NavPages, LAMBDA j : j = i)
<1>1. /\ NavPages \in Seq(Nat) /\ n \in Nat /\ DOMAIN NavPages = 1..n
      /\ \A k, l \in 1..n : NavPages[k] = NavPages[l] => k = l
  BY PagesAre
<1>2. ToSet(NavPages) = {NavPages[k] : k \in 1..n}
  BY <1>1 DEF ToSet
<1>3. Neighbours(NavPages) = [i \in ToSet(NavPages) |-> <<ends[place(i)], ends[place(i) + 2]>>]
  BY Zenon DEF Neighbours
<1>4. \A k \in 1..n : place(NavPages[k]) = k
  <2> SUFFICES ASSUME NEW k \in 1..n PROVE place(NavPages[k]) = k
    OBVIOUS
  <2> DEFINE I == {l \in 1..Len(NavPages) : NavPages[l] = NavPages[k]}
  <2>1. place(NavPages[k]) = IF I # {} THEN Min(I) ELSE 0
    BY Zenon DEF SelectInSeq
  <2>2. I = {k}
    BY <1>1
  <2>3. Min({k}) = k
    <3>1. {k} \subseteq Nat /\ {k} # {}
      BY <1>1
    <3> QED
      BY <3>1, MinIn
  <2> HIDE DEF place, I
  <2> QED
    BY <2>1, <2>2, <2>3
<1>5. /\ \A k \in 1..n : ends[k + 1] = NavPages[k]
      /\ ends[1] = 0 /\ ends[n + 2] = 0
  <2> DEFINE front == <<0>> \o NavPages
  <2>1. /\ front \in Seq(Nat) /\ Len(front) = n + 1 /\ front[1] = 0
        /\ \A k \in 1..n : front[k + 1] = NavPages[k]
    <3>1. <<0>> \in Seq(Nat) /\ Len(<<0>>) = 1 /\ <<0>>[1] = 0
      OBVIOUS
    <3>2. /\ front \in Seq(Nat) /\ Len(front) = 1 + n
          /\ \A i \in 1..(1 + n) : front[i] = IF i <= 1 THEN <<0>>[i] ELSE NavPages[i - 1]
      BY <1>1, <3>1, ConcatProperties
    <3>3. \A k \in 1..n : k + 1 \in 1..(1 + n) /\ ~(k + 1 <= 1) /\ (k + 1) - 1 = k
      BY <1>1
    <3>4. 1 \in 1..(1 + n)
      BY <1>1
    <3> HIDE DEF front
    <3> QED
      BY <1>1, <3>1, <3>2, <3>3, <3>4
  <2> HIDE DEF front
  <2>2. front \o <<0>> = Append(front, 0)
    BY <2>1
  <2>3. /\ Append(front, 0)[(n + 1) + 1] = 0
        /\ \A k \in 1..(n + 1) : Append(front, 0)[k] = front[k]
    BY <2>1, AppendProperties
  <2>4. (n + 1) + 1 = n + 2 /\ 1 \in 1..(n + 1) /\ \A k \in 1..n : k + 1 \in 1..(n + 1)
    BY <1>1
  <2>5. ends = Append(front, 0)
    BY <2>2 DEF front
  <2> HIDE DEF ends
  <2> QED
    BY <2>1, <2>3, <2>4, <2>5
<1> HIDE DEF ends, place
<1>6. ASSUME NEW k \in 1..n
      PROVE  Neighbours(NavPages)[NavPages[k]] = <<IF k = 1 THEN 0 ELSE NavPages[k - 1],
                                             IF k = n THEN 0 ELSE NavPages[k + 1]>>
  <2>1. Neighbours(NavPages)[NavPages[k]] = <<ends[k], ends[k + 2]>>
    BY <1>2, <1>3, <1>4
  <2>2. ends[k] = IF k = 1 THEN 0 ELSE NavPages[k - 1]
    <3>1. k # 1 => k - 1 \in 1..n /\ (k - 1) + 1 = k
      BY <1>1
    <3> QED
      BY <1>5, <3>1
  <2>3. ends[k + 2] = IF k = n THEN 0 ELSE NavPages[k + 1]
    <3>1. k # n => k + 1 \in 1..n /\ (k + 1) + 1 = k + 2
      <4>1. \A m \in Nat : \A x \in 1..m : x # m => x + 1 \in 1..m /\ (x + 1) + 1 = x + 2
        OBVIOUS
      <4> HIDE DEF n
      <4> QED
        BY <1>1, <4>1
    <3> QED
      BY <1>5, <3>1
  <2> QED
    BY <2>1, <2>2, <2>3
<1> QED
  BY <1>2, <1>3, <1>6

LEMMA LastOf ==
  ASSUME NEW n \in Nat, NEW s \in SUBSET (1..n), s # {}
  PROVE  Max(s) \in s /\ \A x \in s : x <= Max(s)
<1> DEFINE T == {n - x : x \in s}
<1>1. T \subseteq Nat /\ T # {}
  <2>1. \A x \in s : n - x \in Nat
    OBVIOUS
  <2> QED
    BY <2>1
<1>2. PICK k \in T : \A j \in T : k <= j
  BY <1>1, LeastNumber
<1>3. PICK m \in s : k = n - m
  BY <1>2
<1>4. \A x \in s : n - m <= n - x
  BY <1>2, <1>3
<1>5. s \subseteq Int /\ \A x \in s : x <= m
  BY <1>4
<1>6. Max(s) = m
  BY <1>5, MaxIs
<1> QED
  BY <1>5, <1>6

\* The page of a document is the last there is.
LEMMA PageOfIs ==
  ASSUME IsTree(items), NEW doc, NEW k \in 1..Len(NavPages), items[NavPages[k]].name = doc
  PROVE  \E l \in 1..Len(NavPages) : /\ k <= l /\ items[NavPages[l]].name = doc
                                     /\ PageOf(items, AllFiles, documents, doc) = NavPages[l]
<1> DEFINE n == Len(NavPages)
           I == {l \in 1..Len(NavPages) : items[NavPages[l]].name = doc}
           own == SelectLastInSeq(NavPages, LAMBDA i : items[i].name = doc)
<1>1. n \in Nat
  BY PagesAre
<1>2. own = IF I # {} THEN Max(I) ELSE 0
  BY Zenon DEF SelectLastInSeq
<1>3. PageOf(items, AllFiles, documents, doc) =
        IF own # 0 THEN NavPages[own] ELSE Apart(items, documents, doc)
  BY Zenon DEF PageOf, NavPages
<1>4. k \in I /\ I \in SUBSET (1..n)
  OBVIOUS
<1>5. Max(I) \in I /\ k <= Max(I)
  <2> HIDE DEF I
  <2> QED
    BY <1>1, <1>4, LastOf
<1>6. own = Max(I)
  BY <1>2, <1>4
<1>7. Max(I) \in 1..n /\ Max(I) # 0 /\ items[NavPages[Max(I)]].name = doc
  BY <1>1, <1>5
<1> HIDE DEF own, I, n
<1>8. PageOf(items, AllFiles, documents, doc) = NavPages[Max(I)]
  BY <1>3, <1>6, <1>7
<1> QED
  BY <1>5, <1>7, <1>8 DEF n

-----------------------------------------------------------------------------
(* nest_paths.                                                             *)

LEMMA TitlesAre ==
  ASSUME NEW doc \in Docs
  PROVE  /\ TitlesOf(doc) \in Seq(Titles) /\ Len(TitlesOf(doc)) \in Nat
         /\ DOMAIN TitlesOf(doc) = 1..Len(TitlesOf(doc))
<1> DEFINE m == Len(Folders[doc])
<1>1. Folders[doc] \in Seq(Directories)
  BY FoldersAssumption
<1>2. m \in Nat /\ DOMAIN Folders[doc] = 1..m /\ \A k \in 1..m : Folders[doc][k] \in Directories
  BY <1>1, LenProperties, ElementOfSeq
<1> HIDE DEF m
<1>3. TitlesOf(doc) = [k \in 1..m |-> Title[Folders[doc][k]]]
  BY <1>2 DEF TitlesOf
<1>4. \A k \in 1..m : Title[Folders[doc][k]] \in Titles
  BY <1>2, TitleAssumption
<1>5. TitlesOf(doc) \in [1..m -> Titles]
  BY <1>3, <1>4
<1>6. TitlesOf(doc) \in Seq(Titles)
  BY <1>2, <1>5, SeqDef
<1> QED
  BY <1>6, LenProperties

Extends(tree, part) ==
  Len(part) <= Len(tree) /\ \A i \in 1..Len(part) : tree[i] = part[i]

OneSection(tree) ==
  \A i, j \in 1..Len(tree) :
    /\ tree[i].kind = "section" /\ tree[j].kind = "section"
    /\ tree[i].name = tree[j].name /\ tree[i].up = tree[j].up
    => i = j

\* Sections of these names, from the top.
SectionWay(tree, q, names, k) ==
  /\ q \in [0..k -> 0..Len(tree)] /\ q[0] = 0
  /\ \A m \in 1..k : /\ q[m] \in 1..Len(tree) /\ tree[q[m]].kind = "section"
                     /\ tree[q[m]].name = names[m] /\ tree[q[m]].up = q[m - 1]

LEMMA TreeGrows ==
  ASSUME NEW tree, IsTree(tree), NEW item \in Item, item.up <= Len(tree),
         item.up # 0 => tree[item.up].kind = "section",
         item.name \in IF item.kind = "section" THEN Titles ELSE Docs \cup Media
  PROVE  /\ IsTree(Append(tree, item)) /\ Extends(Append(tree, item), tree)
         /\ Len(Append(tree, item)) = Len(tree) + 1
         /\ Append(tree, item)[Len(tree) + 1] = item
<1> DEFINE n == Len(tree)
           t == Append(tree, item)
<1>1. /\ tree \in Seq(Item) /\ n \in Nat /\ DOMAIN tree = 1..n
      /\ \A i \in 1..n : /\ tree[i].up \in 0..n /\ tree[i].up < i
                         /\ tree[i].up # 0 => tree[tree[i].up].kind = "section"
                         /\ tree[i].name \in IF tree[i].kind = "section" THEN Titles
                                            ELSE Docs \cup Media
  BY TreeIs DEF IsTree
<1>2. /\ t \in Seq(Item) /\ Len(t) = n + 1 /\ DOMAIN t = 1..(n + 1)
      /\ t[n + 1] = item /\ \A i \in 1..n : t[i] = tree[i]
  BY <1>1, AppendProperties, LenProperties
<1>3. item.up \in 0..n
  BY <1>1 DEF Item
<1> HIDE DEF t, n
<1>4. Extends(t, tree)
  BY <1>1, <1>2 DEF Extends, n
<1>5. ASSUME NEW i \in 1..(n + 1)
      PROVE  /\ t[i].up < i /\ (t[i].up # 0 => t[t[i].up].kind = "section")
             /\ t[i].name \in IF t[i].kind = "section" THEN Titles ELSE Docs \cup Media
  <2>1. \A u \in 0..n : u # 0 => u \in 1..n
    BY <1>1
  <2>2. CASE i \in 1..n
    <3>1. t[i] = tree[i] /\ tree[i].up \in 0..n
      BY <1>1, <1>2, <2>2
    <3>2. tree[i].up # 0 => t[tree[i].up] = tree[tree[i].up]
      BY <1>2, <2>1, <3>1
    <3> QED
      BY <1>1, <2>2, <3>1, <3>2
  <2>3. CASE i = n + 1
    <3>1. t[i] = item
      BY <1>2, <2>3
    <3>2. item.up # 0 => t[item.up] = tree[item.up]
      BY <1>2, <1>3, <2>1
    <3>3. item.up < n + 1
      BY <1>1, <1>3
    <3> QED
      BY <2>3, <3>1, <3>2, <3>3
  <2> QED
    BY <1>1, <2>2, <2>3
<1>6. IsTree(t)
  BY <1>2, <1>5 DEF IsTree
<1> QED
  BY <1>2, <1>4, <1>6 DEF t, n

\* What is there stays where it is.
LEMMA WayStays ==
  ASSUME NEW tree, NEW part, IsTree(tree), IsTree(part), Extends(tree, part),
         NEW names, NEW k \in Nat, NEW q, SectionWay(part, q, names, k)
  PROVE  SectionWay(tree, q, names, k)
<1>1. Len(tree) \in Nat /\ Len(part) \in Nat /\ Len(part) <= Len(tree)
  BY TreeIs DEF Extends
<1>2. 0..Len(part) \subseteq 0..Len(tree) /\ 1..Len(part) \subseteq 1..Len(tree)
  BY <1>1
<1>3. q \in [0..k -> 0..Len(tree)]
  BY <1>2 DEF SectionWay
<1> QED
  BY <1>2, <1>3 DEF SectionWay, Extends

LEMMA ExtendsMore ==
  ASSUME NEW r, NEW s, NEW t, IsTree(r), IsTree(s), IsTree(t), Extends(r, s), Extends(s, t)
  PROVE  Extends(r, t)
<1>1. Len(r) \in Nat /\ Len(s) \in Nat /\ Len(t) \in Nat
  BY TreeIs
<1> QED
  BY <1>1 DEF Extends

LEMMA ExtendsSelf ==
  ASSUME NEW t, IsTree(t)
  PROVE  Extends(t, t)
<1>1. Len(t) \in Nat
  BY TreeIs
<1> QED
  BY <1>1 DEF Extends

\* The section of a title in a branch.
Found(r, b, title) ==
  /\ IsTree(r.tree) /\ OneSection(r.tree) /\ Extends(r.tree, b.tree)
  /\ \A i \in 1..Len(r.tree) : i \in 1..Len(b.tree) \/ r.tree[i].kind = "section"
  /\ r.at \in 1..Len(r.tree) /\ r.tree[r.at].kind = "section"
  /\ r.tree[r.at].name = title /\ r.tree[r.at].up = b.at

LEMMA FoundIs ==
  ASSUME NEW tree, IsTree(tree), OneSection(tree), NEW u \in 0..Len(tree),
         u # 0 => tree[u].kind = "section", NEW title \in Titles
  PROVE  Found(FindOrCreate([tree |-> tree, at |-> u], title), [tree |-> tree, at |-> u], title)
<1> DEFINE b == [tree |-> tree, at |-> u]
           found == {i \in DOMAIN tree : /\ tree[i].kind = "section" /\ tree[i].name = title
                                         /\ tree[i].up = u}
           item == [kind |-> "section", name |-> title, up |-> u]
           n == Len(tree)
<1>1. n \in Nat /\ DOMAIN tree = 1..n
  BY TreeIs
<1>2. FindOrCreate(b, title) = IF found # {} THEN [tree |-> tree, at |-> CHOOSE i \in found : TRUE]
                               ELSE [tree |-> Append(tree, item), at |-> n + 1]
  <2> DEFINE list == {i \in DOMAIN b.tree :
                        /\ b.tree[i].kind = "section" /\ b.tree[i].name = title
                        /\ b.tree[i].up = b.at}
             new == [kind |-> "section", name |-> title, up |-> b.at]
  <2>1. FindOrCreate(b, title) =
          IF list # {} THEN [b EXCEPT !.at = CHOOSE i \in list : TRUE]
          ELSE [tree |-> Append(b.tree, new), at |-> Len(b.tree) + 1]
    BY Zenon DEF FindOrCreate
  <2>2. list = found /\ new = item /\ b.tree = tree /\ b.at = u
    OBVIOUS
  <2>3. \A i : [b EXCEPT !.at = i] = [tree |-> tree, at |-> i]
    OBVIOUS
  <2> HIDE DEF list, found, new, item, b
  <2> QED
    BY <2>1, <2>2, <2>3
<1>3. CASE found # {}
  <2> DEFINE i == CHOOSE i \in found : TRUE
  <2>1. i \in found
    BY <1>3
  <2>2. Extends(tree, tree)
    BY ExtendsSelf
  <2> HIDE DEF i
  <2>3. FindOrCreate(b, title) = [tree |-> tree, at |-> i]
    BY <1>2, <1>3 DEF i
  <2>4. i \in 1..n /\ tree[i].kind = "section" /\ tree[i].name = title /\ tree[i].up = u
    BY <1>1, <2>1
  <2> HIDE DEF found
  <2> QED
    BY <1>1, <2>2, <2>3, <2>4 DEF Found
<1>4. CASE found = {}
  <2> DEFINE t == Append(tree, item)
  <2>1. item \in Item /\ item.up = u /\ item.kind = "section" /\ item.name = title
    BY <1>1 DEF Item
  <2>2. u <= n
    BY <1>1
  <2> HIDE DEF item
  <2>3. IsTree(t) /\ Extends(t, tree) /\ Len(t) = n + 1 /\ t[n + 1] = item
    BY <2>1, <2>2, TreeGrows
  <2> HIDE DEF t
  <2>4. \A i \in 1..n : t[i] = tree[i]
    BY <2>3 DEF Extends
  <2>5. \A i \in 1..(n + 1) : i \in 1..n \/ i = n + 1
    BY <1>1
  <2>6. \A i \in 1..n : ~(tree[i].kind = "section" /\ tree[i].name = title /\ tree[i].up = u)
    BY <1>1, <1>4
  <2>7. OneSection(t)
    <3> SUFFICES ASSUME NEW i \in 1..(n + 1), NEW j \in 1..(n + 1),
                        t[i].kind = "section", t[j].kind = "section",
                        t[i].name = t[j].name, t[i].up = t[j].up
                 PROVE  i = j
      BY <2>3 DEF OneSection
    <3>1. CASE i \in 1..n /\ j \in 1..n
      BY <2>4, <3>1 DEF OneSection
    <3>2. CASE i = n + 1 /\ j \in 1..n
      BY <2>1, <2>3, <2>4, <2>6, <3>2
    <3>3. CASE i \in 1..n /\ j = n + 1
      BY <2>1, <2>3, <2>4, <2>6, <3>3
    <3> QED
      BY <2>5, <3>1, <3>2, <3>3
  <2>8. FindOrCreate(b, title) = [tree |-> t, at |-> n + 1]
    BY <1>2, <1>4 DEF t
  <2>9. n + 1 \in 1..(n + 1)
    BY <1>1
  <2>10. Found([tree |-> t, at |-> n + 1], b, title)
    BY <2>1, <2>3, <2>5, <2>7, <2>9 DEF Found
  <2> QED
    BY <2>8, <2>10
<1> QED
  BY <1>3, <1>4

Branches == [tree : Seq(Item), at : Nat]

BranchFold(g, S, base, names) ==
  g = [s \in SUBSET S |-> IF s = {} THEN base ELSE FindOrCreate(g[s \ {Max(s)}], names[Max(s)])]

LEMMA BranchesChosen ==
  ASSUME NEW base, NEW names, \E g : BranchFold(g, DOMAIN names, base, names)
  PROVE  \E g : /\ BranchFold(g, DOMAIN names, base, names)
                /\ FoldLeft(FindOrCreate, base, names) = g[DOMAIN names]
<1>1. FoldLeft(FindOrCreate, base, names) =
        (CHOOSE g : g = [s \in SUBSET DOMAIN names |->
           IF s = {} THEN base ELSE FindOrCreate(g[s \ {Max(s)}], names[Max(s)])])[DOMAIN names]
  BY DEF FoldLeft, MapThenFoldSet
<1> QED
  BY <1>1 DEF BranchFold

LEMMA BranchIn ==
  ASSUME NEW b \in Branches, NEW title \in Titles
  PROVE  FindOrCreate(b, title) \in Branches
<1> DEFINE list == {i \in DOMAIN b.tree :
                      /\ b.tree[i].kind = "section" /\ b.tree[i].name = title
                      /\ b.tree[i].up = b.at}
           new == [kind |-> "section", name |-> title, up |-> b.at]
<1>1. FindOrCreate(b, title) =
        IF list # {} THEN [b EXCEPT !.at = CHOOSE i \in list : TRUE]
        ELSE [tree |-> Append(b.tree, new), at |-> Len(b.tree) + 1]
  BY Zenon DEF FindOrCreate
<1>2. b.tree \in Seq(Item) /\ b.at \in Nat /\ new \in Item
  BY DEF Branches, Item
<1>3. DOMAIN b.tree = 1..Len(b.tree) /\ Len(b.tree) \in Nat
  BY <1>2, LenProperties
<1>4. list # {} => (CHOOSE i \in list : TRUE) \in Nat
  <2>1. list \subseteq Nat
    BY <1>3
  <2> HIDE DEF list
  <2> QED
    BY <2>1
<1> HIDE DEF list, new
<1>5. Append(b.tree, new) \in Seq(Item) /\ Len(b.tree) + 1 \in Nat
  BY <1>2, <1>3, AppendProperties
<1>6. \A i \in Nat : [b EXCEPT !.at = i] \in Branches
  BY DEF Branches
<1>7. [tree |-> Append(b.tree, new), at |-> Len(b.tree) + 1] \in Branches
  BY <1>5 DEF Branches
<1> QED
  BY <1>1, <1>4, <1>6, <1>7

LEMMA BranchBySteps ==
  ASSUME NEW base \in Branches, NEW names \in Seq(Titles)
  PROVE  \E r : /\ r[0] = base /\ r[Len(names)] = FoldLeft(FindOrCreate, base, names)
                /\ \A k \in 1..Len(names) : r[k] = FindOrCreate(r[k - 1], names[k])
<1> DEFINE n == Len(names)
           step == [x \in Branches \X Titles |-> FindOrCreate(x[1], x[2])]
<1>1. n \in Nat /\ names \in [1..n -> Titles] /\ DOMAIN names = 1..n
  BY LenProperties
<1>2. step \in [Branches \X Titles -> Branches]
  <2>1. \A a \in Branches, b \in Titles : FindOrCreate(a, b) \in Branches
    BY BranchIn
  <2> QED
    BY <2>1
<1>3. \A a \in Branches, b \in Titles : step[<<a, b>>] = FindOrCreate(a, b)
  OBVIOUS
<1> HIDE DEF n, step
<1>4. PICK g : Folds(g, Branches, base, step, names, n)
  BY <1>1, <1>2, FoldExists
<1>5. \E f : BranchFold(f, 1..n, base, names)
  <2>1. \A s \in SUBSET (1..n) : s # {} => Max(s) \in 1..n /\ s \ {Max(s)} \in SUBSET (1..n)
    BY <1>1, MaxIn
  <2>2. \A s \in SUBSET (1..n) :
          g[s] = IF s = {} THEN base ELSE FindOrCreate(g[s \ {Max(s)}], names[Max(s)])
    BY <1>1, <1>3, <1>4, <2>1 DEF Folds
  <2>3. BranchFold(g, 1..n, base, names)
    BY <1>4, <2>2 DEF BranchFold, Folds
  <2> QED
    BY <2>3
<1>6. PICK f : BranchFold(f, 1..n, base, names) /\ FoldLeft(FindOrCreate, base, names) = f[1..n]
  BY <1>1, <1>5, BranchesChosen
<1> DEFINE r == [k \in 0..n |-> f[1..k]]
<1>7. f[{}] = base /\ \A k \in 1..n : f[1..k] = FindOrCreate(f[1..(k - 1)], names[k])
  <2>1. \A s \in SUBSET (1..n) :
          f[s] = IF s = {} THEN base ELSE FindOrCreate(f[s \ {Max(s)}], names[Max(s)])
    BY <1>6 DEF BranchFold
  <2>2. f[{}] = base
    BY <2>1
  <2>3. ASSUME NEW k \in 1..n PROVE f[1..k] = FindOrCreate(f[1..(k - 1)], names[k])
    <3>1. 1..k \in SUBSET (1..n) /\ 1..k # {} /\ Max(1..k) = k /\ (1..k) \ {k} = 1..(k - 1)
      BY <1>1, FirstPositions
    <3> QED
      BY <2>1, <3>1
  <2> QED
    BY <2>2, <2>3
<1>8. r[0] = base /\ r[n] = f[1..n]
  BY <1>1, <1>7, FirstPositions
<1>9. \A k \in 1..n : r[k] = FindOrCreate(r[k - 1], names[k])
  BY <1>1, <1>7
<1> HIDE DEF r
<1> QED
  BY <1>6, <1>8, <1>9 DEF n

\* A branch for the first k of these names, in a tree that goes on from another.
Reached(b, tree, names, k) ==
  /\ IsTree(b.tree) /\ OneSection(b.tree) /\ Extends(b.tree, tree)
  /\ \A i \in 1..Len(b.tree) : i \in 1..Len(tree) \/ b.tree[i].kind = "section"
  /\ \E q : SectionWay(b.tree, q, names, k) /\ q[k] = b.at
  /\ b = [tree |-> b.tree, at |-> b.at]

LEMMA BranchReached ==
  ASSUME NEW tree, IsTree(tree), OneSection(tree), NEW names \in Seq(Titles)
  PROVE  Reached(FoldLeft(FindOrCreate, [tree |-> tree, at |-> 0], names), tree, names, Len(names))
<1> DEFINE n == Len(names)
           base == [tree |-> tree, at |-> 0]
           last == FoldLeft(FindOrCreate, [tree |-> tree, at |-> 0], names)
<1>1. n \in Nat /\ \A k \in 1..n : names[k] \in Titles
  BY LenProperties, ElementOfSeq
<1>2. PICK r : /\ r[0] = base /\ r[n] = last
               /\ \A k \in 1..n : r[k] = FindOrCreate(r[k - 1], names[k])
  <2>1. base \in Branches
    BY DEF Branches, IsTree
  <2> HIDE DEF base
  <2>2. \E r : /\ r[0] = base /\ r[Len(names)] = FoldLeft(FindOrCreate, base, names)
               /\ \A k \in 1..Len(names) : r[k] = FindOrCreate(r[k - 1], names[k])
    BY <2>1, BranchBySteps
  <2> QED
    BY <2>2 DEF base
<1> HIDE DEF last, n
<1> DEFINE S == {k \in Nat : Reached(r[k], tree, names, k)}
<1>3. 0 \in S
  <2> DEFINE q == [m \in 0..0 |-> 0]
  <2>1. r[0].tree = tree /\ r[0].at = 0 /\ r[0] = [tree |-> r[0].tree, at |-> r[0].at]
    BY <1>2
  <2>2. SectionWay(tree, q, names, 0) /\ q[0] = 0
    <3>1. Len(tree) \in Nat /\ 0..0 = {0} /\ 1..0 = {}
      BY TreeIs
    <3>2. q \in [0..0 -> 0..Len(tree)] /\ q[0] = 0
      BY <3>1
    <3> QED
      BY <3>1, <3>2 DEF SectionWay
  <2> HIDE DEF q
  <2>3. Extends(tree, tree)
    BY ExtendsSelf
  <2>4. Reached(r[0], tree, names, 0)
    BY <2>1, <2>2, <2>3 DEF Reached
  <2> QED
    BY <2>4
<1>4. ASSUME NEW k \in Nat, k < n, k \in S PROVE k + 1 \in S
  <2> DEFINE b == r[k]
             c == r[k + 1]
             t == r[k].tree
             u == r[k].at
  <2>1. Reached(b, tree, names, k)
    BY <1>4
  <2>2. IsTree(t) /\ OneSection(t) /\ b = [tree |-> t, at |-> u]
    BY <2>1 DEF Reached
  <2>3. PICK q : SectionWay(t, q, names, k) /\ q[k] = u
    BY <2>1 DEF Reached
  <2>4. Len(t) \in Nat /\ k + 1 \in 1..n /\ (k + 1) - 1 = k /\ Len(tree) \in Nat
    BY <1>1, <1>4, <2>2, TreeIs
  <2>5. u \in 0..Len(t) /\ (u # 0 => t[u].kind = "section")
    <3>1. CASE k = 0
      BY <2>3, <2>4, <3>1 DEF SectionWay
    <3>2. CASE k # 0
      <4>1. k \in 1..k
        BY <3>2
      <4>2. q[k] \in 1..Len(t) /\ t[q[k]].kind = "section"
        BY <2>3, <4>1 DEF SectionWay
      <4> QED
        BY <2>3, <2>4, <4>2
    <3> QED
      BY <3>1, <3>2
  <2>6. c = FindOrCreate(b, names[k + 1]) /\ names[k + 1] \in Titles
    BY <1>1, <1>2, <2>4
  <2> HIDE DEF b, c, t, u
  <2>7. Found(c, b, names[k + 1])
    BY <2>2, <2>5, <2>6, FoundIs
  <2>8. b.tree = t /\ b.at = u
    BY <2>2
  <2>9. /\ IsTree(c.tree) /\ OneSection(c.tree) /\ Extends(c.tree, t)
        /\ \A i \in 1..Len(c.tree) : i \in 1..Len(t) \/ c.tree[i].kind = "section"
        /\ c.at \in 1..Len(c.tree) /\ c.tree[c.at].kind = "section"
        /\ c.tree[c.at].name = names[k + 1] /\ c.tree[c.at].up = u
    BY <2>7, <2>8 DEF Found
  <2>10. Extends(t, tree) /\ \A i \in 1..Len(t) : i \in 1..Len(tree) \/ t[i].kind = "section"
    BY <2>1, <2>8 DEF Reached
  <2>11. Extends(c.tree, tree)
    BY <2>2, <2>9, <2>10, ExtendsMore
  <2>12. \A i \in 1..Len(c.tree) : i \in 1..Len(tree) \/ c.tree[i].kind = "section"
    BY <2>9, <2>10 DEF Extends
  <2>13. SectionWay(c.tree, q, names, k)
    BY <2>2, <2>3, <2>9, WayStays
  <2> DEFINE p == [m \in 0..(k + 1) |-> IF m = k + 1 THEN c.at ELSE q[m]]
  <2>14. SectionWay(c.tree, p, names, k + 1) /\ p[k + 1] = c.at
    <3>1. Len(c.tree) \in Nat
      BY <2>9, TreeIs
    <3>2. /\ \A m \in 0..k : m \in 0..(k + 1) /\ m # k + 1
          /\ \A m \in 0..(k + 1) : m # k + 1 => m \in 0..k
          /\ \A m \in 1..(k + 1) : m # k + 1 => m \in 1..k /\ m \in 0..k /\ m - 1 \in 0..k
          /\ k \in 0..k /\ 0 \in 0..k /\ k + 1 \in 0..(k + 1)
      BY <1>4
    <3>3. q \in [0..k -> 0..Len(c.tree)] /\ q[0] = 0 /\ c.at \in 0..Len(c.tree)
      BY <2>9, <2>13, <3>1 DEF SectionWay
    <3>4. p[k + 1] = c.at /\ \A m \in 0..k : p[m] = q[m]
      BY <3>2
    <3>5. p \in [0..(k + 1) -> 0..Len(c.tree)]
      BY <3>2, <3>3
    <3> HIDE DEF p
    <3>6. ASSUME NEW m \in 1..(k + 1)
          PROVE  /\ p[m] \in 1..Len(c.tree) /\ c.tree[p[m]].kind = "section"
                 /\ c.tree[p[m]].name = names[m] /\ c.tree[p[m]].up = p[m - 1]
      <4>1. CASE m = k + 1
        <5>1. p[m - 1] = u
          BY <2>3, <2>4, <3>2, <3>4, <4>1
        <5> QED
          BY <2>9, <3>4, <4>1, <5>1
      <4>2. CASE m # k + 1
        <5>1. m \in 1..k /\ p[m] = q[m] /\ p[m - 1] = q[m - 1]
          BY <3>2, <3>4, <4>2
        <5> QED
          BY <2>13, <5>1 DEF SectionWay
      <4> QED
        BY <4>1, <4>2
    <3>7. p[0] = 0
      BY <3>2, <3>3, <3>4
    <3> QED
      BY <3>4, <3>5, <3>6, <3>7 DEF SectionWay
  <2> HIDE DEF p
  <2>15. c = [tree |-> c.tree, at |-> c.at]
    <3>1. b \in Branches
      <4>1. t \in Seq(Item) /\ u \in Nat
        BY <2>2, <2>4, <2>5 DEF IsTree
      <4> QED
        BY <2>2, <4>1 DEF Branches
    <3>2. c \in Branches
      BY <2>6, <3>1, BranchIn
    <3> QED
      BY <3>2 DEF Branches
  <2>16. Reached(c, tree, names, k + 1)
    BY <2>9, <2>11, <2>12, <2>14, <2>15 DEF Reached
  <2> QED
    BY <2>16 DEF c
<1>5. n \in S
  <2> HIDE DEF S
  <2>1. \A k \in 0..n : k \in S
    BY <1>1, <1>3, <1>4, StepsUpTo
  <2> QED
    BY <1>1, <2>1
<1> QED
  BY <1>2, <1>5 DEF last, n

\* The item of a document, in the sections of its directories.
Placed(tree, p, doc) ==
  /\ p \in 1..Len(tree) /\ tree[p].kind = "path" /\ tree[p].name = doc
  /\ \E q : /\ SectionWay(tree, q, TitlesOf(doc), Len(TitlesOf(doc)))
            /\ tree[p].up = q[Len(TitlesOf(doc))]

LEMMA PlacedStays ==
  ASSUME NEW tree, NEW part, IsTree(tree), IsTree(part), Extends(tree, part),
         NEW doc \in Docs, NEW p, Placed(part, p, doc)
  PROVE  Placed(tree, p, doc)
<1>1. Len(TitlesOf(doc)) \in Nat
  BY TitlesAre
<1>2. PICK q : /\ SectionWay(part, q, TitlesOf(doc), Len(TitlesOf(doc)))
               /\ part[p].up = q[Len(TitlesOf(doc))]
  BY DEF Placed
<1>3. SectionWay(tree, q, TitlesOf(doc), Len(TitlesOf(doc)))
  BY <1>1, <1>2, WayStays
<1>4. Len(tree) \in Nat /\ Len(part) \in Nat
  BY TreeIs
<1>5. tree[p] = part[p] /\ p \in 1..Len(tree)
  BY <1>4 DEF Extends, Placed
<1> QED
  BY <1>2, <1>3, <1>5 DEF Placed

LEMMA NestPathIs ==
  ASSUME NEW tree, IsTree(tree), OneSection(tree), NEW doc \in Docs
  PROVE  /\ IsTree(NestPath(tree, doc)) /\ OneSection(NestPath(tree, doc))
         /\ Extends(NestPath(tree, doc), tree)
         /\ \E p : /\ Placed(NestPath(tree, doc), p, doc)
                   /\ \A i \in 1..Len(NestPath(tree, doc)) :
                        i \in 1..Len(tree) \/ NestPath(tree, doc)[i].kind = "section" \/ i = p
<1> DEFINE names == TitlesOf(doc)
           m == Len(names)
           b == FoldLeft(FindOrCreate, [tree |-> tree, at |-> 0], names)
           s == b.tree
           item == [kind |-> "path", name |-> doc, up |-> b.at]
           t == Append(s, item)
           n == Len(s)
<1>1. names \in Seq(Titles) /\ m \in Nat
  BY TitlesAre
<1>2. Reached(b, tree, names, m)
  BY <1>1, BranchReached
<1>3. NestPath(tree, doc) = t
  BY DEF NestPath
<1> HIDE DEF b, names, m
<1>4. /\ IsTree(s) /\ OneSection(s) /\ Extends(s, tree)
      /\ \A i \in 1..n : i \in 1..Len(tree) \/ s[i].kind = "section"
  BY <1>2 DEF Reached
<1>5. PICK q : SectionWay(s, q, names, m) /\ q[m] = b.at
  BY <1>2 DEF Reached
<1> HIDE DEF s
<1>6. n \in Nat
  BY <1>4, TreeIs
<1>7. b.at \in 0..n /\ (b.at # 0 => s[b.at].kind = "section")
  <2>1. CASE m = 0
    BY <1>5, <1>6, <2>1 DEF SectionWay
  <2>2. CASE m # 0
    <3>1. m \in 1..m
      BY <1>1, <2>2
    <3>2. q[m] \in 1..n /\ s[q[m]].kind = "section"
      BY <1>5, <3>1 DEF SectionWay
    <3> QED
      BY <1>5, <1>6, <3>2
  <2> QED
    BY <2>1, <2>2
<1>8. item \in Item /\ item.up = b.at /\ item.kind = "path" /\ item.name = doc
  BY <1>6, <1>7 DEF Item
<1>9. b.at <= n
  BY <1>6, <1>7
<1> HIDE DEF item
<1>10. IsTree(t) /\ Extends(t, s) /\ Len(t) = n + 1 /\ t[n + 1] = item
  BY <1>4, <1>7, <1>8, <1>9, TreeGrows
<1> HIDE DEF t
<1>11. Extends(t, tree)
  BY <1>4, <1>10, ExtendsMore
<1>12. \A i \in 1..n : t[i] = s[i]
  BY <1>10 DEF Extends
<1>13. \A i \in 1..(n + 1) : i \in 1..n \/ i = n + 1
  BY <1>6
<1>14. OneSection(t)
  <2>1. \A i \in 1..(n + 1) : t[i].kind = "section" => i \in 1..n
    BY <1>8, <1>10, <1>13
  <2> QED
    BY <1>4, <1>10, <1>12, <2>1 DEF OneSection
<1>15. SectionWay(t, q, names, m)
  BY <1>1, <1>4, <1>5, <1>10, WayStays
<1>16. Placed(t, n + 1, doc)
  <2>1. n + 1 \in 1..(n + 1)
    BY <1>6
  <2> QED
    BY <1>5, <1>8, <1>10, <1>15, <2>1 DEF Placed, names, m
<1>17. \A i \in 1..(n + 1) : i \in 1..Len(tree) \/ t[i].kind = "section" \/ i = n + 1
  BY <1>4, <1>12, <1>13
<1> HIDE DEF n
<1>18. \E p : /\ Placed(t, p, doc)
              /\ \A i \in 1..Len(t) : i \in 1..Len(tree) \/ t[i].kind = "section" \/ i = p
  BY <1>10, <1>16, <1>17
<1> QED
  BY <1>3, <1>10, <1>11, <1>14, <1>18

PathFold(g, S, paths) ==
  g = [s \in SUBSET S |-> IF s = {} THEN <<>> ELSE NestPath(g[s \ {Max(s)}], paths[Max(s)])]

LEMMA PathsChosen ==
  ASSUME NEW paths, \E g : PathFold(g, DOMAIN paths, paths)
  PROVE  \E g : PathFold(g, DOMAIN paths, paths) /\ NestPaths(paths) = g[DOMAIN paths]
<1>1. NestPaths(paths) =
        (CHOOSE g : g = [s \in SUBSET DOMAIN paths |->
           IF s = {} THEN <<>> ELSE NestPath(g[s \ {Max(s)}], paths[Max(s)])])[DOMAIN paths]
  BY DEF NestPaths, FoldLeft, MapThenFoldSet
<1> QED
  BY <1>1 DEF PathFold

Trees == {tree \in Seq(Item) : IsTree(tree) /\ OneSection(tree)}

LEMMA PathsBySteps ==
  ASSUME NEW paths \in Seq(Docs)
  PROVE  \E r : /\ r[0] = <<>> /\ r[Len(paths)] = NestPaths(paths)
                /\ \A k \in 1..Len(paths) : r[k] = NestPath(r[k - 1], paths[k])
<1> DEFINE n == Len(paths)
           step == [x \in Trees \X Docs |-> NestPath(x[1], x[2])]
<1>1. n \in Nat /\ paths \in [1..n -> Docs] /\ DOMAIN paths = 1..n
  BY LenProperties
<1>2. step \in [Trees \X Docs -> Trees]
  <2>1. \A a \in Trees, b \in Docs : NestPath(a, b) \in Trees
    BY NestPathIs DEF Trees, IsTree
  <2> QED
    BY <2>1
<1>3. \A a \in Trees, b \in Docs : step[<<a, b>>] = NestPath(a, b)
  OBVIOUS
<1>4. <<>> \in Trees
  BY DEF Trees, IsTree, OneSection
<1> HIDE DEF n, step
<1>5. PICK g : Folds(g, Trees, <<>>, step, paths, n)
  BY <1>1, <1>2, <1>4, FoldExists
<1>6. \E f : PathFold(f, 1..n, paths)
  <2>1. \A s \in SUBSET (1..n) : s # {} => Max(s) \in 1..n /\ s \ {Max(s)} \in SUBSET (1..n)
    BY <1>1, MaxIn
  <2>2. \A s \in SUBSET (1..n) :
          g[s] = IF s = {} THEN <<>> ELSE NestPath(g[s \ {Max(s)}], paths[Max(s)])
    BY <1>1, <1>3, <1>5, <2>1 DEF Folds
  <2>3. PathFold(g, 1..n, paths)
    BY <1>5, <2>2 DEF PathFold, Folds
  <2> QED
    BY <2>3
<1>7. PICK f : PathFold(f, 1..n, paths) /\ NestPaths(paths) = f[1..n]
  BY <1>1, <1>6, PathsChosen
<1> DEFINE r == [k \in 0..n |-> f[1..k]]
<1>8. f[{}] = <<>> /\ \A k \in 1..n : f[1..k] = NestPath(f[1..(k - 1)], paths[k])
  <2>1. \A s \in SUBSET (1..n) :
          f[s] = IF s = {} THEN <<>> ELSE NestPath(f[s \ {Max(s)}], paths[Max(s)])
    BY <1>7 DEF PathFold
  <2>2. f[{}] = <<>>
    BY <2>1
  <2>3. ASSUME NEW k \in 1..n PROVE f[1..k] = NestPath(f[1..(k - 1)], paths[k])
    <3>1. 1..k \in SUBSET (1..n) /\ 1..k # {} /\ Max(1..k) = k /\ (1..k) \ {k} = 1..(k - 1)
      BY <1>1, FirstPositions
    <3> QED
      BY <2>1, <3>1
  <2> QED
    BY <2>2, <2>3
<1>9. r[0] = <<>> /\ r[n] = f[1..n]
  BY <1>1, <1>8, FirstPositions
<1>10. \A k \in 1..n : r[k] = NestPath(r[k - 1], paths[k])
  BY <1>1, <1>8
<1> HIDE DEF r
<1> QED
  BY <1>7, <1>9, <1>10 DEF n

\* The first k documents are placed, by p, and nothing else is.
AllPlaced(tree, paths, k) ==
  /\ IsTree(tree) /\ OneSection(tree)
  /\ \E p : /\ \A m \in 1..k : Placed(tree, p[m], paths[m])
            /\ \A i \in 1..Len(tree) : tree[i].kind = "section" \/ \E m \in 1..k : i = p[m]

LEMMA NestedIs ==
  ASSUME NEW paths \in Seq(Docs)
  PROVE  AllPlaced(NestPaths(paths), paths, Len(paths))
<1> DEFINE n == Len(paths)
<1>1. n \in Nat /\ \A k \in 1..n : paths[k] \in Docs
  BY LenProperties, ElementOfSeq
<1>2. PICK r : /\ r[0] = <<>> /\ r[n] = NestPaths(paths)
               /\ \A k \in 1..n : r[k] = NestPath(r[k - 1], paths[k])
  BY PathsBySteps
<1> HIDE DEF n
<1> DEFINE S == {k \in Nat : AllPlaced(r[k], paths, k)}
<1>3. 0 \in S
  <2>1. IsTree(<<>>) /\ OneSection(<<>>) /\ 1..Len(<<>>) = {} /\ 1..0 = {}
    BY DEF IsTree, OneSection
  <2>2. AllPlaced(r[0], paths, 0)
    BY <1>2, <2>1 DEF AllPlaced
  <2> QED
    BY <2>2
<1>4. ASSUME NEW k \in Nat, k < n, k \in S PROVE k + 1 \in S
  <2> DEFINE s == r[k]
             t == r[k + 1]
             doc == paths[k + 1]
  <2>1. k + 1 \in 1..n /\ (k + 1) - 1 = k /\ \A m \in 1..k : m \in 1..n
    BY <1>1, <1>4
  <2>2. t = NestPath(s, doc) /\ doc \in Docs
    BY <1>1, <1>2, <2>1
  <2>3. IsTree(s) /\ OneSection(s)
    BY <1>4 DEF AllPlaced
  <2>4. PICK p : /\ \A m \in 1..k : Placed(s, p[m], paths[m])
                 /\ \A i \in 1..Len(s) : s[i].kind = "section" \/ \E m \in 1..k : i = p[m]
    BY <1>4 DEF AllPlaced
  <2> HIDE DEF s, t, doc
  <2>5. /\ IsTree(t) /\ OneSection(t) /\ Extends(t, s)
        /\ \E x : /\ Placed(t, x, doc)
                  /\ \A i \in 1..Len(t) : i \in 1..Len(s) \/ t[i].kind = "section" \/ i = x
    BY <2>2, <2>3, NestPathIs
  <2> PICK x : /\ Placed(t, x, doc)
               /\ \A i \in 1..Len(t) : i \in 1..Len(s) \/ t[i].kind = "section" \/ i = x
    BY <2>5
  <2> DEFINE o == [m \in 1..(k + 1) |-> IF m = k + 1 THEN x ELSE p[m]]
  <2>6. /\ \A m \in 1..k : m \in 1..(k + 1) /\ m # k + 1
        /\ \A m \in 1..(k + 1) : m # k + 1 => m \in 1..k
        /\ k + 1 \in 1..(k + 1)
    BY <1>4
  <2>7. o[k + 1] = x /\ \A m \in 1..k : o[m] = p[m]
    BY <2>6
  <2> HIDE DEF o
  <2>8. ASSUME NEW m \in 1..(k + 1) PROVE Placed(t, o[m], paths[m])
    <3>1. CASE m = k + 1
      BY <2>7, <3>1 DEF doc
    <3>2. CASE m # k + 1
      <4>1. m \in 1..k /\ o[m] = p[m] /\ paths[m] \in Docs
        BY <1>1, <2>1, <2>6, <2>7, <3>2
      <4> QED
        BY <2>3, <2>4, <2>5, <4>1, PlacedStays
    <3> QED
      BY <3>1, <3>2
  <2>9. ASSUME NEW i \in 1..Len(t) PROVE t[i].kind = "section" \/ \E m \in 1..(k + 1) : i = o[m]
    <3>1. CASE i \in 1..Len(s)
      <4>1. t[i] = s[i]
        BY <2>5, <3>1 DEF Extends
      <4>2. s[i].kind = "section" \/ \E m \in 1..k : i = p[m]
        BY <2>4, <3>1
      <4> QED
        BY <2>6, <2>7, <4>1, <4>2
    <3>2. CASE i = x
      BY <2>6, <2>7, <3>2
    <3> QED
      BY <3>1, <3>2
  <2>10. AllPlaced(t, paths, k + 1)
    BY <2>5, <2>8, <2>9 DEF AllPlaced
  <2> QED
    BY <2>10 DEF t
<1>5. n \in S
  <2> HIDE DEF S
  <2>1. \A k \in 0..n : k \in S
    BY <1>1, <1>3, <1>4, StepsUpTo
  <2> QED
    BY <1>1, <2>1
<1> QED
  BY <1>2, <1>5 DEF n

-----------------------------------------------------------------------------
(* What the setter of active goes through.                                 *)

ChainFun(f, tree) == f = [i \in 0..Len(tree) |-> IF i = 0 THEN {} ELSE {i} \cup f[tree[i].up]]

LEMMA ChainIs ==
  ASSUME IsTree(items), NEW page
  PROVE  Chain(items, page) = IF page \in DOMAIN items THEN Around(page) ELSE {page}
<1> DEFINE n == Len(items)
           V == SUBSET Nat
           step == [x \in (1..n) \X V \X V |-> {x[1]} \cup x[2]]
<1>1. n \in Nat /\ \A i \in 1..n : Parents(items)[i] = items[i].up /\ items[i].up \in 0..n
  BY TreeIs DEF Parents
<1>2. step \in [(1..n) \X V \X V -> V] /\ {} \in V
  OBVIOUS
<1>3. \A i \in 1..n, s \in V : step[<<i, s, s>>] = {i} \cup s
  OBVIOUS
<1> HIDE DEF n, V, step
<1>4. PICK f : Recursion(f, n, V, {}, Parents(items), Parents(items), step)
  <2>1. PICK rank \in [0..n -> 0..n] : \A i \in 1..n : rank[Parents(items)[i]] < rank[i]
    BY ParentsRank DEF n
  <2>2. Parents(items) \in [1..n -> 0..n]
    BY ParentsRank DEF n
  <2> QED
    BY <1>1, <1>2, <2>1, <2>2, RecursionExists
<1>5. \E t : ChainFun(t, items)
  <2>1. \A j \in 1..n : f[j] = {j} \cup f[items[j].up]
    <3> SUFFICES ASSUME NEW j \in 1..n PROVE f[j] = {j} \cup f[items[j].up]
      OBVIOUS
    <3>1. j \in 0..n /\ j # 0 /\ f[items[j].up] \in V
      BY <1>1, <1>4 DEF Recursion
    <3>2. f[j] = step[<<j, f[items[j].up], f[items[j].up]>>]
      BY <1>1, <1>4, <3>1 DEF Recursion
    <3> QED
      BY <1>3, <3>1, <3>2
  <2>2. f \in [0..n -> V] /\ f[0] = {}
    <3>1. 0 \in 0..n
      BY <1>1
    <3>2. /\ f \in [0..n -> V]
          /\ f[0] = IF 0 = 0 THEN {}
                    ELSE step[<<0, f[Parents(items)[0]], f[Parents(items)[0]]>>]
      BY <1>4, <3>1 DEF Recursion
    <3> QED
      BY <3>2
  <2>3. \A j \in 0..n : j # 0 => j \in 1..n
    BY <1>1
  <2>4. \A j \in 0..n : f[j] = IF j = 0 THEN {} ELSE {j} \cup f[items[j].up]
    BY <2>1, <2>2, <2>3
  <2>5. f = [j \in 0..n |-> f[j]]
    BY <2>2
  <2>6. f = [j \in 0..n |-> IF j = 0 THEN {} ELSE {j} \cup f[items[j].up]]
    BY <2>4, <2>5
  <2> QED
    BY <2>6 DEF ChainFun, n
<1> DEFINE t == CHOOSE t : ChainFun(t, items)
<1>6. ChainFun(t, items)
  BY <1>5
<1>7. Chain(items, page) = IF page \in DOMAIN items THEN t[page] ELSE {page}
  BY DEF Chain, ChainFun
<1> HIDE DEF t
<1>8. \A j \in 0..n : t[j] = IF j = 0 THEN {} ELSE {j} \cup t[items[j].up]
  BY <1>6 DEF ChainFun, n
<1> DEFINE S == {j \in 0..n : t[j] = Around(j)}
<1>9. 0 \in S
  <2>1. 0 \in 0..n
    BY <1>1
  <2> QED
    BY <1>8, <2>1, AroundIs
<1>10. ASSUME NEW j \in 1..n, items[j].up \in S PROVE j \in S
  <2>1. j \in 0..n /\ j # 0
    BY <1>1
  <2>2. t[j] = {j} \cup t[items[j].up]
    BY <1>8, <2>1
  <2>3. Around(j) = Around(items[j].up) \cup {j}
    BY AroundIs DEF n
  <2> QED
    BY <1>10, <2>1, <2>2, <2>3
<1> HIDE DEF S
<1>11. \A j \in 0..n : j \in S
  BY <1>9, <1>10, DownTheTree DEF n
<1>12. \A j \in DOMAIN items : t[j] = Around(j)
  <2>1. \A j \in DOMAIN items : j \in 0..n
    BY <1>1, TreeIs DEF n
  <2> QED
    BY <1>11, <2>1 DEF S
<1> QED
  BY <1>7, <1>12

-----------------------------------------------------------------------------
(* The inductive invariant.                                                *)

NavStages == {"files", "read", "write", "render", "done", "failed"}

InSites ==
  /\ documents \in Seq(Docs) /\ IsInjective(documents)
  /\ others \subseteq Media /\ IsTree(nav)

\* What the build has done with a document when it has been through the pages.
Settled(k) == pageOf[documents[k]] \in read \/ documents[k] \in unmodified

\* Before get_navigation, and what it made.
NavBuilt ==
  IF stage = "files"
  THEN items = <<>> /\ pages = <<>> /\ beside = <<>> /\ at = 1
         /\ read = {} /\ unmodified = {} /\ active = {}
  ELSE /\ items = IF nav = <<>> THEN NestPaths(documents) ELSE nav
       /\ pages = GetPages(items, AllFiles)
       /\ beside = Neighbours(pages)
       /\ pageOf = [d \in ToSet(documents) |-> PageOf(items, AllFiles, documents, d)]

NavProgress ==
  /\ stage \in {"read", "write", "render"} => at \in 1..Len(documents)
  /\ stage = "read" => \A k \in 1..Len(documents) : k < at => Settled(k)
  /\ stage \in {"write", "render", "done"} => \A k \in 1..Len(documents) : Settled(k)
  /\ unmodified = {} \/ dirty
  /\ stage \in {"read", "write", "done"} => active = {}
  /\ stage = "render" => active = Chain(items, pageOf[documents[at]])

NavInv == InSites /\ stage \in NavStages /\ NavBuilt /\ NavProgress

LEMMA DocsAre ==
  ASSUME InSites
  PROVE  /\ documents \in Seq(Docs) /\ Len(documents) \in Nat
         /\ DOMAIN documents = 1..Len(documents)
         /\ ToSet(documents) = {documents[k] : k \in 1..Len(documents)}
         /\ documents # <<>> => 1 \in 1..Len(documents)
         /\ \A k, l \in 1..Len(documents) : documents[k] = documents[l] => k = l
<1>1. documents \in Seq(Docs) /\ IsInjective(documents)
  BY DEF InSites
<1>2. Len(documents) \in Nat /\ DOMAIN documents = 1..Len(documents)
  BY <1>1, LenProperties
<1>3. documents # <<>> => Len(documents) # 0
  BY <1>1, EmptySeq
<1>4. \A k, l \in 1..Len(documents) : documents[k] = documents[l] => k = l
  BY <1>1, <1>2 DEF IsInjective
<1>5. ToSet(documents) = {documents[k] : k \in 1..Len(documents)}
  BY <1>2 DEF ToSet
<1> QED
  BY <1>1, <1>2, <1>3, <1>4, <1>5

LEMMA DoneIs ==
  ASSUME InSites, at \in 1..Len(documents), NEW next, Done(next)
  PROVE  \/ /\ at < Len(documents) /\ at' = at + 1 /\ at' \in 1..Len(documents)
            /\ stage' = IF stage = "read" THEN "read" ELSE "write"
         \/ at = Len(documents) /\ at' = 1 /\ at' \in 1..Len(documents) /\ stage' = next
<1>1. Len(documents) \in Nat
  BY DocsAre
<1>2. CASE at < Len(documents)
  BY <1>1, <1>2 DEF Done
<1>3. CASE ~(at < Len(documents))
  BY <1>1, <1>3 DEF Done
<1> QED
  BY <1>2, <1>3

LEMMA NavInitInv == NavInit => NavInv
<1> SUFFICES ASSUME NavInit PROVE NavInv
  OBVIOUS
<1>1. InSites
  BY SitesAssumption DEF NavInit, InSites
<1> QED
  BY <1>1 DEF NavInit, NavInv, NavStages, NavBuilt, NavProgress

\* The files, nav and what was made of them.
LEMMA BuiltStays ==
  ASSUME NavInv, UNCHANGED <<inputs, objects>>, stage # "files", stage' # "files"
  PROVE  InSites' /\ NavBuilt'
<1>1. /\ documents' = documents /\ others' = others /\ nav' = nav /\ items' = items
      /\ pages' = pages /\ beside' = beside /\ pageOf' = pageOf
  BY DEF inputs, objects
<1>2. AllFiles' = AllFiles
  BY <1>1 DEF AllFiles
<1>3. InSites'
  BY <1>1 DEF NavInv, InSites
<1> QED
  BY <1>1, <1>2, <1>3 DEF NavInv, NavBuilt

LEMMA NavStepInv == NavInv /\ [NavNext]_navVars => NavInv'
<1> SUFFICES ASSUME NavInv, [NavNext]_navVars PROVE NavInv'
  OBVIOUS
<1> USE DEF NavInv, NavStages
<1>1. CASE GetNavigation
  <2>1. InSites' /\ documents' = documents /\ nav' = nav /\ AllFiles' = AllFiles
    BY <1>1 DEF GetNavigation, InSites, inputs, AllFiles
  <2>2. NavBuilt'
    <3>1. stage' # "files"
      BY <1>1 DEF GetNavigation
    <3>2. /\ items' = IF nav' = <<>> THEN NestPaths(documents') ELSE nav'
          /\ pages' = GetPages(items', AllFiles')
          /\ beside' = Neighbours(pages')
      BY <1>1, <2>1 DEF GetNavigation
    <3>3. pageOf' = [d \in ToSet(documents') |-> PageOf(items', AllFiles', documents', d)]
      BY <1>1, <2>1 DEF GetNavigation
    <3> QED
      BY <3>1, <3>2, <3>3 DEF NavBuilt
  <2>3. at = 1 /\ read = {} /\ unmodified = {} /\ active = {}
        /\ at' = at /\ read' = read /\ unmodified' = unmodified /\ active' = active
    BY <1>1 DEF GetNavigation, NavBuilt
  <2>4. CASE documents = <<>>
    <3>1. Len(documents) = 0
      BY <2>4
    <3>2. stage' = "done"
      BY <1>1, <2>4 DEF GetNavigation
    <3>3. 1..Len(documents) = {}
      BY <3>1
    <3> QED
      BY <2>1, <2>2, <2>3, <3>2, <3>3 DEF NavProgress
  <2>5. CASE documents # <<>>
    <3>1. stage' = "read" /\ 1 \in 1..Len(documents)
      BY <1>1, <2>5, DocsAre DEF GetNavigation
    <3>2. \A k \in 1..Len(documents) : ~(k < 1)
      BY DocsAre
    <3> QED
      BY <2>1, <2>2, <2>3, <3>1, <3>2 DEF NavProgress
  <2> QED
    BY <2>4, <2>5
<1>2. ASSUME stage = "read", Done("write"), UNCHANGED <<inputs, objects, active>>,
             read \subseteq read', unmodified \subseteq unmodified',
             pageOf[documents[at]] \in read' \/ documents[at] \in unmodified',
             unmodified' = {} \/ dirty
      PROVE  NavInv'
  <2>1. documents' = documents /\ pageOf' = pageOf /\ active' = active /\ dirty' = dirty
    BY <1>2 DEF inputs, objects
  <2>2. at \in 1..Len(documents) /\ active = {}
        /\ \A k \in 1..Len(documents) : k < at => Settled(k)
    BY <1>2 DEF NavProgress
  <2>3. InSites' /\ NavBuilt'
    <3>1. stage' # "files"
      BY <1>2, <2>2, DoneIs
    <3> QED
      BY <1>2, <3>1, BuiltStays
  <2>4. \A k \in 1..Len(documents) : k <= at => Settled(k)'
    <3> SUFFICES ASSUME NEW k \in 1..Len(documents), k <= at PROVE Settled(k)'
      OBVIOUS
    <3>1. k < at \/ k = at
      BY <2>2
    <3> QED
      BY <1>2, <2>1, <2>2, <3>1 DEF Settled
  <2>5. CASE at' = at + 1 /\ at' \in 1..Len(documents) /\ stage' = "read"
    <3>1. \A k \in 1..Len(documents) : k < at + 1 => k <= at
      BY <2>2
    <3>2. \A k \in 1..Len(documents) : k < at' => Settled(k)'
      BY <2>4, <2>5, <3>1
    <3> QED
      BY <1>2, <2>1, <2>2, <2>3, <2>5, <3>2 DEF NavProgress
  <2>6. CASE at = Len(documents) /\ at' \in 1..Len(documents) /\ stage' = "write"
    <3>1. \A k \in 1..Len(documents) : k <= at
      BY <2>6, DocsAre
    <3>2. \A k \in 1..Len(documents) : Settled(k)'
      BY <2>4, <3>1
    <3> QED
      BY <1>2, <2>1, <2>2, <2>3, <2>6, <3>2 DEF NavProgress
  <2> QED
    BY <1>2, <2>2, <2>5, <2>6, DoneIs
<1>3. CASE Populate
  <2>1. unmodified = {} \/ dirty
    BY DEF NavProgress
  <2> QED
    BY <1>2, <1>3, <2>1 DEF Populate
<1>4. CASE SkipRead
  BY <1>2, <1>4 DEF SkipRead
<1>5. CASE Activate
  <2>1. /\ stage = "write" /\ stage' = "render"
        /\ active' = active \cup Chain(items, pageOf[documents[at]])
        /\ documents' = documents /\ items' = items /\ pageOf' = pageOf
        /\ at' = at /\ read' = read /\ unmodified' = unmodified /\ dirty' = dirty
    BY <1>5 DEF Activate, inputs, objects
  <2>2. /\ at \in 1..Len(documents) /\ active = {} /\ (unmodified = {} \/ dirty)
        /\ \A k \in 1..Len(documents) : Settled(k)
    BY <2>1 DEF NavProgress
  <2>3. InSites' /\ NavBuilt'
    BY <1>5, <2>1, BuiltStays DEF Activate
  <2>4. active' = Chain(items', pageOf'[documents'[at']])
    BY <2>1, <2>2
  <2>5. \A k \in 1..Len(documents) : Settled(k)'
    BY <2>1, <2>2 DEF Settled
  <2> QED
    BY <2>1, <2>2, <2>3, <2>4, <2>5 DEF NavProgress
<1>6. ASSUME \/ stage = "write" /\ active' = active
             \/ stage = "render" /\ active' = active \ Chain(items, pageOf[documents[at]]),
             Done("done"), UNCHANGED <<inputs, objects, read, unmodified>>
      PROVE  NavInv'
  <2>1. /\ documents' = documents /\ pageOf' = pageOf /\ dirty' = dirty
        /\ read' = read /\ unmodified' = unmodified
    BY <1>6 DEF inputs, objects
  <2>2. /\ at \in 1..Len(documents) /\ (unmodified = {} \/ dirty)
        /\ \A k \in 1..Len(documents) : Settled(k)
    BY <1>6 DEF NavProgress
  <2>3. active' = {}
    BY <1>6 DEF NavProgress
  <2>4. at' \in 1..Len(documents) /\ stage' \in {"write", "done"}
    BY <1>6, <2>2, DoneIs
  <2>5. InSites' /\ NavBuilt'
    BY <1>6, <2>4, BuiltStays
  <2>6. \A k \in 1..Len(documents) : Settled(k)'
    BY <2>1, <2>2 DEF Settled
  <2> QED
    BY <2>1, <2>2, <2>3, <2>4, <2>5, <2>6 DEF NavProgress
<1>7. CASE SkipPage
  BY <1>6, <1>7 DEF SkipPage
<1>8. CASE Deactivate
  BY <1>6, <1>8 DEF Deactivate
<1>9. CASE Raise
  <2>1. /\ stage # "files" /\ stage' = "failed" /\ unmodified' = unmodified /\ dirty' = dirty
    BY <1>9 DEF Raise, inputs
  <2>2. InSites' /\ NavBuilt'
    BY <1>9, <2>1, BuiltStays DEF Raise
  <2> QED
    BY <2>1, <2>2 DEF NavProgress
<1>10. CASE UNCHANGED navVars
  <2>1. /\ documents' = documents /\ others' = others /\ nav' = nav /\ dirty' = dirty
        /\ items' = items /\ pages' = pages /\ beside' = beside /\ pageOf' = pageOf
        /\ stage' = stage /\ at' = at /\ read' = read /\ unmodified' = unmodified
        /\ active' = active
    BY <1>10 DEF navVars, inputs, objects
  <2>2. AllFiles' = AllFiles
    BY <2>1 DEF AllFiles
  <2> QED
    BY <2>1, <2>2 DEF InSites, NavBuilt, NavProgress, Settled
<1> QED
  BY <1>1, <1>3, <1>4, <1>5, <1>7, <1>8, <1>9, <1>10 DEF NavNext

LEMMA NavInvHolds == NavSpec => []NavInv
BY NavInitInv, NavStepInv, PTL DEF NavSpec

\* The items are a tree: the one given, or the one of the directories.
LEMMA ItemsAreTree ==
  ASSUME NavInv
  PROVE  IsTree(items)
<1>1. CASE items = <<>>
  <2>1. <<>> \in Seq(Item) /\ DOMAIN <<>> = {}
    BY EmptySeq
  <2> QED
    BY <1>1, <2>1 DEF IsTree
<1>2. CASE items = nav
  BY <1>2 DEF NavInv, InSites
<1>3. CASE items = NestPaths(documents)
  BY <1>3, DocsAre, NestedIs DEF NavInv, AllPlaced
<1> QED
  BY <1>1, <1>2, <1>3 DEF NavInv, NavBuilt

-----------------------------------------------------------------------------
(* What is active while a page is rendered is its object and the sections  *)
(* around it, for any nav and any documents (the setter of Section.active  *)
(* and Page.active, and _build_page, which resets it).                     *)
THEOREM NavActiveIsTrail == NavSpec => []ActiveIsTrail
<1>1. NavInv => ActiveIsTrail
  <2> SUFFICES ASSUME NavInv PROVE ActiveIsTrail
    OBVIOUS
  <2>1. stage \in {"write", "done"} => active = {}
    BY DEF NavInv, NavProgress
  <2> DEFINE page == pageOf[documents[at]]
  <2>2. ASSUME stage = "render"
        PROVE  active = {page} \cup (IF page \in DOMAIN items THEN Around(page) ELSE {})
    <3>1. active = Chain(items, page)
      BY <2>2 DEF NavInv, NavProgress
    <3>2. IsTree(items)
      BY ItemsAreTree
    <3> HIDE DEF page
    <3>3. CASE page \in DOMAIN items
      <4>1. page \in Around(page)
        BY <3>2, <3>3, AroundIs, TreeIs
      <4>2. active = Around(page)
        BY <3>1, <3>2, <3>3, ChainIs
      <4> QED
        BY <3>3, <4>1, <4>2
    <3>4. CASE page \notin DOMAIN items
      <4>1. active = {page}
        BY <3>1, <3>2, <3>4, ChainIs
      <4> QED
        BY <3>4, <4>1
    <3> QED
      BY <3>3, <3>4
  <2> QED
    BY <2>1, <2>2 DEF ActiveIsTrail, Around
<1> QED
  BY <1>1, NavInvHolds, PTL

(* Each document in the navigation has been read when the first page is    *)
(* rendered, unless it is listed again further on (_populate_page reads    *)
(* file.page, which is the last one made) or a dirty build left it alone   *)
(* as unmodified.                                                          *)
THEOREM NavReadsPages == NavSpec => []NavPagesAreRead
<1>1. NavInv => NavPagesAreRead
  <2> SUFFICES ASSUME NavInv, stage \in {"write", "render", "done"}, NEW i \in ToSet(pages),
                      items[i].name \in ToSet(documents)
               PROVE  \/ i \in read
                      \/ dirty /\ items[i].name \in unmodified
                      \/ \E j \in ToSet(pages) : Before(i, j) /\ items[j].name = items[i].name
    BY DEF NavPagesAreRead
  <2>1. /\ pages = NavPages
        /\ pageOf = [d \in ToSet(documents) |-> PageOf(items, AllFiles, documents, d)]
        /\ \A m \in 1..Len(documents) : Settled(m)
        /\ unmodified = {} \/ dirty
    BY DEF NavInv, NavBuilt, NavProgress, NavPages
  <2>2. IsTree(items)
    BY ItemsAreTree
  <2>3. ToSet(NavPages) = {NavPages[k] : k \in 1..Len(NavPages)}
    BY <2>2, PagesAre DEF ToSet
  <2>4. PICK k \in 1..Len(NavPages) : NavPages[k] = i
    BY <2>1, <2>3
  <2>5. PICK l \in 1..Len(NavPages) :
          /\ k <= l /\ items[NavPages[l]].name = items[i].name
          /\ PageOf(items, AllFiles, documents, items[i].name) = NavPages[l]
    BY <2>2, <2>4, PageOfIs
  <2>6. NavPages[l] \in read \/ (dirty /\ items[i].name \in unmodified)
    <3>1. pageOf[items[i].name] = NavPages[l]
      BY <2>1, <2>5
    <3>2. PICK m \in 1..Len(documents) : documents[m] = items[i].name
      BY DocsAre DEF NavInv
    <3>3. pageOf[documents[m]] = NavPages[l]
      BY <3>1, <3>2
    <3>4. NavPages[l] \in read \/ items[i].name \in unmodified
      BY <2>1, <3>2, <3>3 DEF Settled
    <3>5. items[i].name \in unmodified => dirty
      <4>1. unmodified = {} \/ dirty
        BY <2>1
      <4> QED
        BY <4>1
    <3> QED
      BY <3>4, <3>5
  <2>7. CASE k = l
    BY <2>4, <2>6, <2>7
  <2>8. CASE k # l
    <3>1. k < l
      BY <2>2, <2>5, <2>8, PagesAre
    <3>2. Before(NavPages[k], NavPages[l])
      BY <2>2, <3>1, PagesOneOrder
    <3> QED
      BY <2>1, <2>3, <2>4, <2>5, <3>2
  <2> QED
    BY <2>7, <2>8
<1> QED
  BY <1>1, NavInvHolds, PTL

(* The next page is the first of the pages after a page in the order of    *)
(* reading, and the one before that one is the page                        *)
(* (_get_by_type and _add_previous_and_next_links).                        *)
THEOREM NavNeighbours == NavSpec => []NeighboursFollowNav
<1>1. NavInv => NeighboursFollowNav
  <2> DEFINE after(i) == {j \in DOMAIN items : /\ items[j].kind = "path" /\ Before(i, j)
                                               /\ items[j].name \in AllFiles}
  <2> SUFFICES ASSUME NavInv, NEW i \in DOMAIN beside
               PROVE  IF beside[i][2] = 0 THEN after(i) = {}
                      ELSE /\ beside[i][2] \in after(i)
                           /\ \A j \in after(i) : j = beside[i][2] \/ Before(beside[i][2], j)
                           /\ beside[beside[i][2]][1] = i
    BY DEF NeighboursFollowNav
  <2>1. CASE beside = <<>>
    <3>1. DOMAIN beside = {}
      BY <2>1, EmptySeq
    <3> QED
      BY <3>1
  <2>2. CASE beside = Neighbours(NavPages)
    <3> DEFINE n == Len(NavPages)
    <3>1. IsTree(items)
      BY ItemsAreTree
    <3>2. /\ n \in Nat
          /\ \A k \in 1..n : NavPages[k] \in 1..Len(items) /\ IsPage(items[NavPages[k]], AllFiles)
          /\ \A j \in 1..Len(items) : IsPage(items[j], AllFiles) => \E k \in 1..n : NavPages[k] = j
          /\ \A k, l \in 1..n : k < l <=> Before(NavPages[k], NavPages[l])
      <4>1. \A k, l \in 1..Len(NavPages) : k < l <=> Before(NavPages[k], NavPages[l])
        BY <3>1, PagesOneOrder
      <4>2. /\ Len(NavPages) \in Nat
            /\ \A k \in 1..Len(NavPages) :
                 NavPages[k] \in 1..Len(items) /\ IsPage(items[NavPages[k]], AllFiles)
            /\ \A j \in 1..Len(items) : IsPage(items[j], AllFiles) =>
                 \E k \in 1..Len(NavPages) : NavPages[k] = j
        BY <3>1, PagesAre
      <4> QED
        BY <4>1, <4>2
    <3>3. DOMAIN items = 1..Len(items) /\ Len(items) \in Nat
      BY <3>1, TreeIs
    <3>4. \A k \in 1..n : beside[NavPages[k]] = <<IF k = 1 THEN 0 ELSE NavPages[k - 1],
                                               IF k = n THEN 0 ELSE NavPages[k + 1]>>
      BY <2>2, <3>1, NeighboursAre
    <3>5. PICK k \in 1..n : NavPages[k] = i
      BY <2>2, <3>1, NeighboursAre
    <3>6. after(i) = {NavPages[l] : l \in {m \in 1..n : k < m}}
      BY <3>2, <3>3, <3>5 DEF IsPage
    <3> HIDE DEF n, after
    <3>7. CASE k = n
      <4>1. beside[i][2] = 0
        BY <3>4, <3>5, <3>7
      <4>2. \A m \in 1..n : ~(k < m)
        BY <3>2, <3>7
      <4> QED
        BY <3>6, <4>1, <4>2
    <3>8. CASE k # n
      <4>1. /\ k + 1 \in 1..n /\ k < k + 1 /\ k + 1 # 1 /\ (k + 1) - 1 = k
            /\ \A m \in 1..n : k < m => m = k + 1 \/ k + 1 < m
        BY <3>2, <3>8
      <4>2. beside[i][2] = NavPages[k + 1] /\ NavPages[k + 1] # 0
        <5>1. beside[i][2] = NavPages[k + 1]
          BY <3>4, <3>5, <3>8
        <5>2. \A p \in 1..Len(items) : p # 0
          BY <3>3
        <5> QED
          BY <3>2, <4>1, <5>1, <5>2
      <4>3. NavPages[k + 1] \in after(i)
        BY <3>6, <4>1
      <4>4. \A j \in after(i) : j = NavPages[k + 1] \/ Before(NavPages[k + 1], j)
        <5>1. \A m \in 1..n : k < m =>
                NavPages[m] = NavPages[k + 1] \/ Before(NavPages[k + 1], NavPages[m])
          BY <3>2, <4>1
        <5> QED
          BY <3>6, <5>1
      <4>5. beside[NavPages[k + 1]][1] = i
        BY <3>4, <3>5, <4>1
      <4> QED
        BY <4>2, <4>3, <4>4, <4>5
    <3> QED
      BY <3>7, <3>8
  <2> QED
    BY <2>1, <2>2 DEF NavInv, NavBuilt, NavPages
<1> QED
  BY <1>1, NavInvHolds, PTL

\* The trail of an item in the last of a row of sections.
LEMMA TrailOfWay ==
  ASSUME IsTree(items), NEW names, NEW m \in Nat, NEW q, SectionWay(items, q, names, m),
         NEW p \in 1..Len(items), items[p].up = q[m]
  PROVE  /\ Len(Trail(p)) = m + 1
         /\ \A k \in 1..m : Trail(p)[k] = q[k]
<1> DEFINE S == {k \in Nat : k <= m => /\ Trail(q[k]) \in Seq(Nat) /\ Len(Trail(q[k])) = k
                                       /\ \A l \in 1..k : Trail(q[k])[l] = q[l]}
<1>1. /\ q[0] = 0 /\ \A k \in 0..m : q[k] \in 0..Len(items)
      /\ \A k \in 1..m : q[k] \in 1..Len(items) /\ items[q[k]].up = q[k - 1]
  BY DEF SectionWay
<1>2. 0 \in S
  <2>1. <<>> \in Seq(Nat) /\ Len(<<>>) = 0 /\ 1..0 = {} /\ 0 \in Nat
    BY EmptySeq
  <2>2. Trail(q[0]) = <<>>
    BY <1>1, TrailIs
  <2> QED
    BY <2>1, <2>2
<1>3. \A s \in Seq(Nat), i \in Nat :
        /\ Append(s, i) \in Seq(Nat) /\ Len(Append(s, i)) = Len(s) + 1
        /\ Append(s, i)[Len(s) + 1] = i
        /\ \A l \in 1..Len(s) : Append(s, i)[l] = s[l]
  BY AppendProperties
<1>4. ASSUME NEW k \in Nat, k < m /\ k \in S PROVE k + 1 \in S
  <2>1. k + 1 \in 1..m /\ (k + 1) - 1 = k /\ k <= m /\ k + 1 \in Nat
    BY <1>4
  <2>2. /\ Trail(q[k]) \in Seq(Nat) /\ Len(Trail(q[k])) = k
        /\ \A l \in 1..k : Trail(q[k])[l] = q[l]
    BY <1>4, <2>1
  <2>3. q[k + 1] \in 1..Len(items) /\ items[q[k + 1]].up = q[k]
    BY <1>1, <2>1
  <2>4. Trail(q[k + 1]) = Append(Trail(q[k]), q[k + 1]) /\ q[k + 1] \in Nat
    <3>1. \A i \in 1..Len(items) : i \in Nat
      BY TreeIs
    <3>2. Trail(q[k + 1]) = Append(Trail(items[q[k + 1]].up), q[k + 1])
      BY <2>3, TrailIs
    <3> QED
      BY <2>3, <3>1, <3>2
  <2>5. /\ Trail(q[k + 1]) \in Seq(Nat) /\ Len(Trail(q[k + 1])) = k + 1
        /\ Trail(q[k + 1])[k + 1] = q[k + 1]
        /\ \A l \in 1..k : Trail(q[k + 1])[l] = q[l]
    BY <1>3, <2>2, <2>4
  <2>6. \A l \in 1..(k + 1) : l \in 1..k \/ l = k + 1
    OBVIOUS
  <2>7. \A l \in 1..(k + 1) : Trail(q[k + 1])[l] = q[l]
    BY <2>5, <2>6
  <2> QED
    BY <2>1, <2>5, <2>7
<1>5. /\ Trail(q[m]) \in Seq(Nat) /\ Len(Trail(q[m])) = m
      /\ \A l \in 1..m : Trail(q[m])[l] = q[l]
  <2> HIDE DEF S
  <2>1. Nat \subseteq S
    <3>1. \A k \in 0..m : k \in S
      BY <1>2, <1>4, StepsUpTo
    <3>2. \A k \in Nat : k \in 0..m \/ ~(k <= m)
      OBVIOUS
    <3> QED
      BY <3>1, <3>2 DEF S
  <2>2. m \in S /\ m <= m
    BY <2>1
  <2> QED
    BY <2>2 DEF S
<1> HIDE DEF S
<1>6. Trail(p) = Append(Trail(q[m]), p) /\ p \in Nat
  <2>1. Trail(p) = Append(Trail(items[p].up), p)
    BY TrailIs
  <2>2. p \in Nat
    BY TreeIs
  <2> QED
    BY <2>1, <2>2
<1>7. /\ Len(Append(Trail(q[m]), p)) = m + 1
      /\ \A k \in 1..m : Append(Trail(q[m]), p)[k] = Trail(q[m])[k]
  BY <1>3, <1>5, <1>6
<1> QED
  BY <1>5, <1>6, <1>7

(* Without nav, each document is in the sections named for its directories *)
(* and no list has two of one name, for any documents, directories and     *)
(* order of files (nest_paths and find_or_create_node).                    *)
THEOREM NavDirectories == NavSpec => []DirectoriesAreSections
<1>1. NavInv => DirectoriesAreSections
  <2> SUFFICES ASSUME NavInv, stage # "files", nav = <<>> PROVE
        /\ \A d \in ToSet(documents) :
             [k \in DOMAIN TitlesOf(d) |-> items[Trail(pageOf[d])[k]].name] = TitlesOf(d)
               /\ Len(Trail(pageOf[d])) = Len(TitlesOf(d)) + 1
        /\ \A i, j \in DOMAIN items :
             items[i].kind = "section" /\ items[j].kind = "section"
               /\ items[i].name = items[j].name /\ items[i].up = items[j].up => i = j
    BY DEF DirectoriesAreSections
  <2> DEFINE n == Len(documents)
  <2>1. /\ items = NestPaths(documents) /\ pages = NavPages
        /\ pageOf = [d \in ToSet(documents) |-> PageOf(items, AllFiles, documents, d)]
    BY DEF NavInv, NavBuilt, NavPages
  <2>2. /\ documents \in Seq(Docs) /\ n \in Nat /\ \A k \in 1..n : documents[k] \in Docs
        /\ ToSet(documents) = {documents[k] : k \in 1..n}
        /\ \A k, l \in 1..n : documents[k] = documents[l] => k = l
    BY DocsAre, ElementOfSeq DEF NavInv
  <2>3. AllPlaced(items, documents, n)
    BY <2>1, <2>2, NestedIs
  <2>4. IsTree(items) /\ OneSection(items)
    BY <2>3 DEF AllPlaced
  <2> HIDE DEF n
  <2>5. PICK p : /\ \A m \in 1..n : Placed(items, p[m], documents[m])
                 /\ \A i \in 1..Len(items) : items[i].kind = "section" \/ \E m \in 1..n : i = p[m]
    BY <2>3 DEF AllPlaced
  <2>6. ASSUME NEW d \in ToSet(documents)
        PROVE  [k \in DOMAIN TitlesOf(d) |-> items[Trail(pageOf[d])[k]].name] = TitlesOf(d)
                 /\ Len(Trail(pageOf[d])) = Len(TitlesOf(d)) + 1
    <3>1. PICK m \in 1..n : documents[m] = d
      BY <2>2, <2>6
    <3>2. Placed(items, p[m], d)
      BY <2>5, <3>1
    <3>3. p[m] \in 1..Len(items) /\ IsPage(items[p[m]], AllFiles) /\ items[p[m]].name = d
      BY <2>6, <3>2 DEF Placed, IsPage, AllFiles
    <3>4. PICK k \in 1..Len(NavPages) : NavPages[k] = p[m]
      BY <2>4, <3>3, PagesAre
    <3>5. items[NavPages[k]].name = d
      BY <3>3, <3>4
    <3>6. PICK l \in 1..Len(NavPages) : /\ items[NavPages[l]].name = d
                                        /\ PageOf(items, AllFiles, documents, d) = NavPages[l]
      BY <2>4, <3>5, PageOfIs
    <3>7. NavPages[l] = p[m]
      <4>1. NavPages[l] \in 1..Len(items) /\ items[NavPages[l]].kind = "path"
        BY <2>4, PagesAre DEF IsPage
      <4>2. PICK r \in 1..n : NavPages[l] = p[r]
        BY <2>5, <4>1
      <4>3. documents[r] = d
        BY <2>5, <3>6, <4>2 DEF Placed
      <4> QED
        BY <2>2, <3>1, <4>2, <4>3
    <3>8. pageOf[d] = p[m]
      BY <2>1, <2>6, <3>6, <3>7
    <3> DEFINE names == TitlesOf(d)
               c == Len(names)
    <3>9. /\ names \in [1..c -> Titles] /\ DOMAIN names = 1..c /\ c \in Nat
      BY <2>2, <3>1, TitlesAre, LenProperties
    <3>10. PICK q : SectionWay(items, q, names, c) /\ items[p[m]].up = q[c]
      BY <3>2 DEF Placed
    <3> HIDE DEF names, c
    <3>11. /\ Len(Trail(p[m])) = c + 1
           /\ \A j \in 1..c : Trail(p[m])[j] = q[j]
      <4>1. p[m] \in 1..Len(items) /\ c \in Nat /\ IsTree(items)
        BY <2>4, <3>3, <3>9
      <4>2. \A x \in 1..Len(items) : items[x].up = q[c] =>
              Len(Trail(x)) = c + 1 /\ \A j \in 1..c : Trail(x)[j] = q[j]
        <5> SUFFICES ASSUME NEW x \in 1..Len(items), items[x].up = q[c]
                     PROVE  Len(Trail(x)) = c + 1 /\ \A j \in 1..c : Trail(x)[j] = q[j]
          OBVIOUS
        <5> QED
          BY <3>10, <4>1, TrailOfWay
      <4> QED
        BY <3>10, <4>1, <4>2
    <3>12. \A j \in 1..c : items[q[j]].name = names[j]
      BY <3>10 DEF SectionWay
    <3>13. [j \in 1..c |-> items[Trail(p[m])[j]].name] = [j \in 1..c |-> names[j]]
      BY <3>11, <3>12
    <3>14. [j \in 1..c |-> names[j]] = names
      BY <3>9
    <3>15. [j \in DOMAIN names |-> items[Trail(pageOf[d])[j]].name] = names
      BY <3>8, <3>9, <3>13, <3>14
    <3> QED
      BY <3>8, <3>11, <3>15 DEF names, c
  <2>7. \A i, j \in DOMAIN items :
          items[i].kind = "section" /\ items[j].kind = "section"
            /\ items[i].name = items[j].name /\ items[i].up = items[j].up => i = j
    BY <2>4, TreeIs DEF OneSection
  <2> QED
    BY <2>6, <2>7
<1> QED
  BY <1>1, NavInvHolds, PTL
=============================================================================
