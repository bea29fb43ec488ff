---------------------------- MODULE MCNavigation ----------------------------
(* A small instance of Navigation for TLC: directories of one title beside *)
(* each other and at different depths, and files in an order that mixes    *)
(* them; a page and an image that nav may list, or list in vain.           *)
EXTENDS Navigation

CONSTANTS MaxItems, index, guide, about, nested, other, logo, user, USER, api, User, Api

TitleOf == [d \in Directories |-> IF d = api THEN Api ELSE User]

FoldersOf == [d \in Docs |-> CASE d = index  -> <<>>
                              [] d = guide  -> <<user>>
                              [] d = about  -> <<USER>>
                              [] d = nested -> <<user, api>>
                              [] d = other  -> <<api>>]

\* The title of a section in nav makes no difference.
Navs(max, names) ==
  LET entries(n) == [kind : {"path"}, name : names, up : 0..(n - 1)]
                      \cup [kind : {"section"}, name : {User}, up : 0..(n - 1)]
  IN UNION {{tree \in [1..n -> entries(n)] : IsTree(tree)} : n \in 0..max}

SitesOf(lists, images, navs) == [documents : lists, others : images, nav : navs]

SomeSites ==
  SitesOf({<<guide>>, <<index, guide>>}, {{}, {logo}}, Navs(MaxItems, {guide, logo}))
    \cup SitesOf({<<>>, <<guide, nested, index>>}, {{logo}}, Navs(MaxItems - 1, Docs \cup Media))
    \cup SitesOf({<<index, guide, nested, about, other>>, <<about, other, nested, guide>>}, {{}},
                 Navs(1, {other, index}))
=============================================================================
