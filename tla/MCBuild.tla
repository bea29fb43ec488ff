------------------------------ MODULE MCBuild -------------------------------
(* Small sites for TLC: index.md beside an index.html, one more page, a    *)
(* template of the user's and the theme's 404.html.                        *)
EXTENDS Build

CONSTANTS indexMd, pageMd, indexHtml, extra, notFound,
          indexOut, pageOut, extraOut, notFoundOut

SharedDest == [f \in Sources |->
                 CASE f = indexMd   -> indexOut
                   [] f = indexHtml -> indexOut
                   [] f = pageMd    -> pageOut
                   [] f = extra     -> extraOut
                   [] OTHER         -> notFoundOut]
=============================================================================
