--------------------------- MODULE MCSearchIndex ----------------------------
(* SearchIndex for TLC: two pages; languages with a territory, a fallback, *)
(* no script, and scripts of their own.                                    *)
EXTENDS SearchIndex, TLC
CONSTANTS a, b, c

ListedPermutations == Permutations(Listed)
TwoPages == <<"index", "guide">>
Scripts == {"de", "ru", "pt", "ja"}
Ukrainian == [uk |-> "ru"]
German == <<"de">>
SomeLangs == {<<>>, <<<<"ja">>>>, <<<<"xx">>, <<"xx">>>>, <<<<"de">>, En>>, <<<<"xx">>, <<"yy">>>>,
              <<<<"uk">>, <<"ru">>>>, <<<<"pt", "br">>>>, <<<<"en", "us">>, <<"de">>>>}
=============================================================================
