\* Two documents, each edited once, and one tab: tabs do not interact.
SPECIFICATION FairSpec
CONSTANTS
  Pages = {p1, p2}
  Browsers = {b1}
  MaxEdits = 1
INVARIANTS EpochsTellBuilds TrustedPageIsCurrent NoLostWakeup NoLostEdit
PROPERTIES PublishesAtomically TabsConverge RequestsEnd ShutdownEnds
\* The server exits at any time.
CHECK_DEADLOCK FALSE
