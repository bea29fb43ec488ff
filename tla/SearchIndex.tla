---------------------------- MODULE SearchIndex -----------------------------
(***************************************************************************)
(* The search plugin's side of a build (contrib/search): the languages are *)
(* settled, the HTML of each page is cut into sections at its headings,    *)
(* sections that the table of contents lists become entries, and the       *)
(* index is written with the scripts that the web worker will import.      *)
(***************************************************************************)
EXTENDS Naturals, Sequences, SequencesExt, FiniteSets

CONSTANTS Pages,       \* the pages in the order they are built
          Listed,      \* ids of Markdown headings: the table of contents has them
          Unlisted,    \* ids of headings in raw HTML
          LangValues,  \* what `lang` may be set to
          ThemeLang,   \* the language of the theme's locale
          Supported,   \* languages with a lunr script
          Fallback,    \* the language that stands in for another
          MaxTokens    \* bound: tokens on all pages

NoLang == <<<<"not", "set">>>>
NoId == "none"
En == <<"en">>

\* A code is the sequence of what underscores separate: one part or more.
Codes == Seq(STRING) \ {<<>>}

ASSUME MaxTokensAssumption == MaxTokens \in Nat
ASSUME IdsAssumption == Listed \cap Unlisted = {} /\ NoId \notin Listed
ASSUME PagesAssumption == Pages \in Seq(ToSet(Pages)) /\ IsInjective(Pages)
ASSUME CodesAssumption == LangValues \subseteq Seq(Codes) /\ ThemeLang \in Codes

VARIABLES
  indexing,   \* config.indexing
  userLang,   \* `lang` in mkdocs.yml: a list of codes, or NoLang
  ownClient,  \* the theme's search_index_only
  lang,       \* config.lang once settled
  phase,      \* "config", "parse", "index" or "built"
  at,         \* the page
  html,       \* the tokens of the page that have been fed
  past,       \* those of the pages before
  data,       \* ContentParser.data: sections with an id and texts
  inHeader,   \* ContentParser.is_header_tag
  stripped,   \* ContentParser._stripped_html
  entries,    \* SearchIndex._entries
  scripts     \* those in site_dir/search

configVars == <<indexing, userLang, ownClient, lang>>
parserVars == <<html, data, inHeader, stripped>>
indexVars == <<configVars, phase, at, past, parserVars, entries, scripts>>

\* A token is a tag or a text; a text goes by where it is.
Heading(id) == [tag |-> "heading", id |-> id]
HeadingEnd  == [tag |-> "heading end", id |-> NoId]
Inline      == [tag |-> "inline", id |-> NoId] \* begins and ends, as <br/> does
Text        == [tag |-> "text", id |-> NoId]

IndexInit ==
  /\ indexing \in {"full", "sections", "titles"}
  /\ userLang \in LangValues \cup {NoLang}
  /\ ownClient \in BOOLEAN
  /\ lang = NoLang /\ phase = "config" /\ at = 1 /\ past = <<>>
  /\ html = <<>> /\ data = <<>> /\ inHeader = FALSE /\ stripped = <<>>
  /\ entries = <<>> /\ scripts = {}

-----------------------------------------------------------------------------
(* Languages.                                                              *)

\* get_lunr_supported_lang: the first part that has a script, or none.
Detected(code) ==
  LET parts == [i \in DOMAIN code |->
                  IF code[i] \in DOMAIN Fallback THEN Fallback[code[i]] ELSE code[i]]
      first == SelectInSeq(parts, LAMBDA part : part \in Supported)
  IN IF first = 0 THEN <<>> ELSE <<parts[first]>>

\* One round of run_validation's loop, over a copy of the list.
Settle(value, code) ==
  LET found == Detected(code)
      rest == RemoveFirst(value, code)
  IN IF code = En \/ found = code THEN value
     ELSE IF found # <<>> THEN Append(rest, found)
     ELSE IF Contains(rest, En) THEN rest ELSE Append(rest, En)

LangOption(value) == FoldLeft(Settle, value, value)

\* What is validated: the option or, without one, the theme's language.
LangSet == IF userLang = NoLang THEN <<ThemeLang>> ELSE userLang

\* load_config and on_config; unless the theme has its own client, the
\* worker's script and lunr.js come with the plugin's templates.
OnConfig ==
  /\ phase = "config"
  /\ lang' = LangOption(LangSet)
  /\ scripts' = IF ownClient THEN {} ELSE {<<"lunr">>}
  /\ phase' = "parse"
  /\ UNCHANGED <<indexing, userLang, ownClient, at, past, parserVars, entries>>

-----------------------------------------------------------------------------
(* ContentParser.                                                          *)

Fed(token) ==
  /\ phase = "parse"
  /\ FoldLeft(LAMBDA n, page : n + Len(page), Len(html), past) < MaxTokens
  /\ html' = Append(html, token)
  /\ UNCHANGED <<configVars, phase, at, past, entries, scripts>>

\* Headings are not within headings, and an id is on a page once.
HandleStartHeading(id) ==
  /\ ~inHeader
  /\ id = NoId \/ ~Contains(html, Heading(id))
  /\ Fed(Heading(id))
  /\ inHeader' = TRUE
  /\ data' = Append(data, [id |-> id, text |-> <<>>])
  /\ UNCHANGED stripped

HandleEndHeading ==
  /\ inHeader
  /\ Fed(HeadingEnd)
  /\ inHeader' = FALSE
  /\ UNCHANGED <<data, stripped>>

\* Faulty variant: the end of any tag ends the heading.
HandleAnyTag ==
  /\ Fed(Inline)
  /\ inHeader' = FALSE
  /\ UNCHANGED <<data, stripped>>

\* Any other tag, also within a heading.
HandleOtherTag ==
  /\ Fed(Inline)
  /\ UNCHANGED <<inHeader, data, stripped>>

\* handle_data: the title of a heading is not part of the section's text,
\* and there may be text before the first heading.
HandleData ==
  /\ Fed(Text)
  /\ stripped' = Append(stripped, Len(html'))
  /\ data' = IF data = <<>> \/ inHeader THEN data
             ELSE [data EXCEPT ![Len(data)].text = Append(@, Len(html'))]
  /\ UNCHANGED inHeader

-----------------------------------------------------------------------------
(* SearchIndex.                                                            *)

\* get_toc: where its items are on the page.
Toc == {i \in DOMAIN html : html[i].id \in Listed}
FindTocById(id) == \E i \in Toc : html[i].id = id

Entry(id, text) == [page |-> Pages[at], id |-> id, text |-> text]
Shown(text) == IF indexing = "full" THEN text ELSE <<>>

\* create_entry_for_section: one that is not in the table is left out.
WithSection(found, section) ==
  IF FindTocById(section.id) THEN Append(found, Entry(section.id, Shown(section.text)))
  ELSE found

SectionEntries == FoldLeft(WithSection, <<>>, data)

\* add_entry_from_context, when the page has been fed; the next one gets a
\* parser of its own.
AddEntry ==
  /\ phase = "parse" /\ at <= Len(Pages) /\ ~inHeader
  /\ entries' = Append(entries, Entry(NoId, Shown(stripped))) \o
                  (IF indexing = "titles" THEN <<>> ELSE SectionEntries)
  /\ past' = Append(past, html)
  /\ at' = at + 1
  /\ phase' = IF at = Len(Pages) THEN "index" ELSE "parse"
  /\ html' = <<>> /\ data' = <<>> /\ stripped' = <<>>
  /\ UNCHANGED <<configVars, inHeader, scripts>>

\* Faulty variant: a single language is taken for English.
CopiedMulti ==
  IF Len(lang) > 1
  THEN {<<"lunr", "stemmer", "support">>, <<"lunr", "multi">>}
         \cup {<<"lunr">> \o code : code \in ToSet(lang) \ {En}}
  ELSE {}

\* The files of lunr-language that on_post_build copies.
Copied ==
  (IF Len(lang) > 1 \/ ~Contains(lang, En) THEN {<<"lunr", "stemmer", "support">>} ELSE {})
  \cup (IF Len(lang) > 1 THEN {<<"lunr", "multi">>} ELSE {})
  \cup (IF {<<"ja">>, <<"jp">>} \cap ToSet(lang) # {} THEN {<<"tinyseg">>} ELSE {})
  \cup {<<"lunr">> \o code : code \in ToSet(lang) \ {En}}

OnPostBuild ==
  /\ phase = "index"
  /\ scripts' = scripts \cup (IF ownClient THEN {} ELSE Copied)
  /\ phase' = "built"
  /\ UNCHANGED <<configVars, at, past, parserVars, entries>>

IndexNext ==
  \/ OnConfig
  \/ \E id \in Listed \cup Unlisted \cup {NoId} : HandleStartHeading(id)
  \/ HandleEndHeading
  \/ HandleOtherTag
  \/ HandleData
  \/ AddEntry \/ OnPostBuild

IndexSpec == IndexInit /\ [][IndexNext]_indexVars

-----------------------------------------------------------------------------
(* The web worker: what onJSONLoaded imports for the languages it finds in *)
(* the index; importScripts throws if one is missing.                      *)
Imported ==
  LET langs == IF lang = <<>> THEN <<En>> ELSE lang IN
    {<<"lunr">>} \cup
    (IF Len(langs) > 1 \/ langs[1] # En
     THEN {<<"lunr", "stemmer", "support">>}
            \cup (IF Len(langs) > 1 THEN {<<"lunr", "multi">>} ELSE {})
            \cup (IF {<<"ja">>, <<"jp">>} \cap ToSet(langs) # {} THEN {<<"tinyseg">>} ELSE {})
            \cup {<<"lunr">> \o code : code \in ToSet(langs) \ {En}}
     ELSE {})

(* Every script the worker will import is in the site, whatever was set as *)
(* languages, and each of them exists: an unsupported language never gets  *)
(* to the worker.                                                          *)
ScriptsAreInSite ==
  phase = "built" /\ ~ownClient =>
    /\ Imported \subseteq scripts
    /\ ToSet(lang) \subseteq {En} \cup {<<part>> : part \in Supported}
    /\ userLang # <<>> => lang # <<>>

\* The headings of a page, and where the text of each ends.
Headings(page) == {i \in DOMAIN page : page[i].tag = "heading"}
Within(page, i) == \* what follows heading i before the next
  {j \in DOMAIN page : i < j /\ ~\E k \in Headings(page) : i < k /\ k <= j}
Title(page, i) == \* and is still within its tag
  {j \in Within(page, i) : \A k \in i..j : page[k] # HeadingEnd}
TextAt(page, positions) == {j \in positions : page[j] = Text}

PageEntries(n, page) ==
  LET full(positions) == IF indexing = "full" THEN TextAt(page, positions) ELSE {}
  IN {[page |-> Pages[n], id |-> NoId, text |-> full(DOMAIN page)]} \cup
     {[page |-> Pages[n], id |-> page[i].id,
       text |-> full(Within(page, i) \ Title(page, i))] :
        i \in IF indexing = "titles" THEN {}
              ELSE {h \in Headings(page) : page[h].id \in Listed}}

Ascending(text) == \A i, j \in DOMAIN text : i < j => text[i] < text[j]
Plain(entry) == [entry EXCEPT !.text = ToSet(@)]

(* The index has an entry for each page behind with all of its text and    *)
(* one for each heading of its table of contents with the text from there  *)
(* to the next heading, listed or not, but for the titles: in the order of *)
(* the page, and nothing moves from one page to the next.  Their locations *)
(* differ, as lunr needs of what it refers to documents by.  In the end    *)
(* these are all pages.                                                    *)
EntriesMatchPages ==
  /\ \A i, j \in DOMAIN entries :
       entries[i].page = entries[j].page /\ entries[i].id = entries[j].id => i = j
  /\ \A i \in DOMAIN entries : Ascending(entries[i].text)
  /\ {Plain(entries[i]) : i \in DOMAIN entries}
       = UNION {PageEntries(n, past[n]) : n \in DOMAIN past}
  /\ phase \in {"index", "built"} => Len(past) = Len(Pages)
=============================================================================
