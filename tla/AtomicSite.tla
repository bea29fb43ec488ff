----------------------------- MODULE AtomicSite -----------------------------
(***************************************************************************)
(* What the live reload server promises to the tabs.  The site has editions*)
(* that come and go as a whole, although the builder empties and rewrites  *)
(* it in place, page by page.  A tab is up to date with the edition there  *)
(* is, and then shows what that edition has of its page, or it knows that  *)
(* it has to reload.  LiveReload implements this (its PublishesAtomically).*)
(***************************************************************************)
EXTENDS Integers

CONSTANTS Pages, Browsers

VARIABLES
  settled,   \* there is an edition; FALSE: one is being built
  edition,   \* the version it has of each page
  current,   \* what the tabs that are up to date show: a page, a version
  outdated   \* the tabs that have to reload

vars == <<settled, edition, current, outdated>>

Nothing == {}
NoEdition == [p \in Pages |-> 0]

Init ==
  /\ settled = TRUE /\ edition = NoEdition
  /\ current = [b \in Browsers |-> Nothing]
  /\ outdated = {}

\* From now on no tab is up to date.
StartEdition ==
  /\ settled' = FALSE /\ edition' = NoEdition
  /\ current' = [b \in Browsers |-> Nothing]
  /\ outdated' = outdated \cup {b \in Browsers : current[b] # Nothing}

\* The tabs learn of it by polling, so nothing changes for them.
PublishEdition ==
  /\ ~settled /\ settled' = TRUE
  /\ edition' \in [Pages -> Nat]
  /\ UNCHANGED <<current, outdated>>

\* A tab gets a page: of this edition, or to be reloaded later.
Show(b) ==
  /\ current[b] = Nothing /\ b \notin outdated
  /\ \/ /\ settled
        /\ \E p \in Pages : current' = [current EXCEPT ![b] = {<<p, edition[p]>>}]
        /\ UNCHANGED outdated
     \/ /\ outdated' = outdated \cup {b}
        /\ UNCHANGED current
  /\ UNCHANGED <<settled, edition>>

\* It leaves the page, by itself or the user's doing.
Leave(b) ==
  /\ current' = [current EXCEPT ![b] = Nothing]
  /\ outdated' = outdated \ {b}
  /\ UNCHANGED <<settled, edition>>

Next ==
  \/ StartEdition \/ PublishEdition
  \/ \E b \in Browsers : Show(b) \/ Leave(b)

Spec == Init /\ [][Next]_vars
=============================================================================
