\* Two processes, one document, one tab that outlives the first process.
SPECIFICATION DevFairSpec
CONSTANTS
  Pages = {p1}
  Browsers = {b1}
  MaxEdits = 1
  MaxRuns = 2
INVARIANTS TrustedAcrossRestarts BuildsInsideLifetime
PROPERTIES TabsFollowRestart
\* Nobody has to start the server again.
CHECK_DEADLOCK FALSE
