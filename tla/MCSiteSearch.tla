---------------------------- MODULE MCSiteSearch ----------------------------
(***************************************************************************)
(* Sites in every modelled language, with what a reader means by the texts *)
(* typed into their search boxes.                                          *)
(***************************************************************************)
EXTENDS SiteSearch

Doc(location, title, text) == [location |-> location, title |-> title, text |-> text]

Asks(word) == [word |-> word, edits |-> 0, presence |-> "OPTIONAL", fields |-> Fields, boost |-> 1]
Must(clause) == [clause EXCEPT !.presence = "REQUIRED"]
Not(clause) == [clause EXCEPT !.presence = "PROHIBITED"]
Near(clause) == [clause EXCEPT !.edits = 1]
InField(clause, field) == [clause EXCEPT !.fields = <<field>>]
Boosted(clause, boost) == [clause EXCEPT !.boost = boost]

Means(clauses) == [malformed |-> FALSE, clauses |-> clauses]
Nothing == [malformed |-> TRUE, clauses |-> <<>>]

Manual ==
  <<Doc("", "Guide", "Begin: install the guides, then configure plug-ins."),
    Doc("api/", "Log API", "Logging to mkdocs.log since 2023: logs, a log."),
    Doc("api/#theme", "Themes", "Rendered with a plugin of the theme; guided plugins log")>>

\* Queries of every kind, with what they mean.
Kinds ==
  ("guides" :> Means(<<Asks("guides")>>)) @@
  ("logging guide" :> Means(<<Asks("logging"), Asks("guide")>>)) @@
  ("Log -plugins" :> Means(<<Asks("log"), Not(Asks("plugins"))>>)) @@
  ("+log +guide theme" :> Means(<<Must(Asks("log")), Must(Asks("guide")), Asks("theme")>>)) @@
  ("title:log^3 log" :> Means(<<Boosted(InField(Asks("log"), "title"), 3), Asks("log")>>)) @@
  ("+title:the* log" :> Means(<<Must(InField(Asks("the*"), "title")), Asks("log")>>)) @@
  ("*g*n +plug*" :> Means(<<Asks("*g*n"), Must(Asks("plug*"))>>)) @@
  ("lgo~1 gid~1^10" :> Means(<<Near(Asks("lgo")), Boosted(Near(Asks("gid")), 10)>>)) @@
  ("plug-ins" :> Means(<<Asks("plug"), Asks("ins")>>)) @@
  ("plug\\-ins" :> Means(<<Asks("plug-ins")>>)) @@
  ("-theme -install" :> Means(<<Not(Asks("theme")), Not(Asks("install"))>>)) @@
  ("2023" :> Means(<<Asks("2023")>>)) @@
  ("mkdocs.log" :> Means(<<Asks("mkdocs.log")>>)) @@
  ("   " :> Means(<<>>)) @@
  ("lo" :> Means(<<Asks("lo")>>)) @@
  ("api:log" :> Nothing) @@ ("log~" :> Nothing) @@ ("log -" :> Nothing) @@ ("^2" :> Nothing)

\* Two queries, one that is too short, and one that is malformed.
Few ==
  ("log" :> Means(<<Asks("log")>>)) @@ ("plugin guide" :> Means(<<Asks("plugin"), Asks("guide")>>)) @@
  ("lo" :> Means(<<Asks("lo")>>)) @@ ("log:" :> Nothing)

SiteOf(langs, prebuilt, docs, texts, addresses, changes) ==
  [langs |-> langs, separator |-> Chars(" -"), minLength |-> 3, prebuilt |-> prebuilt,
   docs |-> docs, texts |-> texts, addresses |-> addresses, keys |-> changes]

\* A site in one language, of two pages, and a query with one of its words.
Sample(lang, title, text, word) ==
  SiteOf(<<lang>>, FALSE, <<Doc("", title, "MkDocs"), Doc("a/", "MkDocs", text)>>,
         word :> Means(<<Asks(word)>>), {word}, 1)

Samples ==
  {Sample("da", "Vejledninger", "undersøgelser af siderne og deres indstillinger", "siderne"),
   Sample("de", "Anleitungen", "die häuser schließen, aufgaben und wörter werden gesucht", "aufgaben"),
   Sample("du", "Handleidingen", "de mogelijkheden van het zoeken in lettergrepen", "mogelijkheden"),
   Sample("es", "Configuraciones", "los complementos y páginas instalados rápidamente", "páginas"),
   Sample("fi", "Asetukset", "sivujen hakeminen ja asentaminen on helppoa", "sivujen"),
   Sample("fr", "Configurations", "les pages installées sont continuellement générées", "installées"),
   Sample("hu", "Oldalak", "az oldalakat és a kereséseket be kell állítani", "oldalakat"),
   Sample("it", "Configurazioni", "le pagine installate e la ricerca delle parole", "pagine"),
   Sample("nl", "Handleidingen", "de mogelijkheden van het zoeken in lettergrepen", "lettergrepen"),
   Sample("no", "Veiledninger", "sidene og innstillingene som søkes i", "sidene"),
   Sample("pt", "Configurações", "as páginas instaladas e a busca rapidamente", "instaladas"),
   Sample("ro", "Pagini", "cuvintele paginilor sunt instalate de utilizatori", "paginilor"),
   Sample("sv", "Sidorna", "inställningar och sökningar i sidornas ordlistor", "sidornas"),
   Sample("ja", "Pages", "plugin of themes", "plugin"),
   Sample("vi", "Pages", "plugin of themes", "plugin"),
   Sample("th", "Pages", "plugin of themes", "plugin"),
   Sample("jp", "Pages", "plugin of themes", "plugin")}

AllSites ==
  {SiteOf(<<"en">>, FALSE, Manual, Kinds, {"guides"}, 1),
   SiteOf(<<"en">>, TRUE, Manual, Kinds, {}, 0),
   SiteOf(<<"en">>, TRUE, Manual, Few, DOMAIN Few, 3),
   SiteOf(<<"en", "de">>, FALSE, Manual, Few, {"log"}, 1),
   SiteOf(<<"fr", "en", "vi">>, TRUE, Manual, Few, {"log"}, 1),
   SiteOf(<<"de">>, TRUE, Manual, Few, {"log"}, 1)} \cup Samples

\* Those of the samples' words.
SampleStopWords ==
  [da |-> {"af", "og", "deres"}, de |-> {"die", "und", "werden"}, du |-> {"de", "van", "het", "in"},
   es |-> {"los", "y"}, fi |-> {"ja", "on"}, fr |-> {"les", "sont", "a"},
   hu |-> {"az", "és", "a", "be", "kell"}, it |-> {"le", "e", "la", "delle"},
   nl |-> {"de", "van", "het", "in"}, no |-> {"og", "som", "i"}, pt |-> {"as", "e", "a"},
   ro |-> {"sunt", "de"}, sv |-> {"och", "i"}, ja |-> {}, vi |-> {}]
=============================================================================
