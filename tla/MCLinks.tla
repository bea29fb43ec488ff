------------------------------ MODULE MCLinks -------------------------------
(* Small collections of files for TLC: two directories, index and README,  *)
(* a page beside a directory and an HTML file of its name, another Markdown *)
(* extension, assets, and what is left out.                                *)
EXTENDS Links

CONSTANT dotted

D(stem) == Name(stem, "")
Md(stem) == Name(stem, "md")
Png == Name("logo", "png")

SmallDocs == {<<Md("index")>>, <<Md("README")>>, <<Md("guide")>>, <<Png>>,
              <<Name("guide", "html")>>,
              <<D("guide"), Md("index")>>, <<D("guide"), Name("README", "markdown")>>,
              <<D("guide"), Md("install")>>, <<D("templates"), Md("index")>>,
              <<D(dotted), Md("index")>>}
SmallTheme == {<<Png>>, <<Name("main", "html")>>, <<D("css"), Name("base", "css")>>,
               <<Name("LICENSE", "")>>}
SmallGenerated == {<<D("guide"), Md("api")>>}

\* Up to two directories up, down again, to a file; a directory, and a file
\* whose name has no extension.
SmallLinks ==
  {up \o down \o <<file>> : up \in {<<>>, <<Up>>, <<Up, Up>>}, down \in {<<>>, <<D("guide")>>},
                            file \in {Md("index"), Md("README"), Md("install"), Md("api"), Png}}
  \cup {<<D("guide")>>, <<D("guide"), Up, Md("guide")>>, <<Up>>, <<Name("LICENSE", "")>>}

SubDirectory == <<D("project")>>
=============================================================================
