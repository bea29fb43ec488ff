\* Three builds in one process, two kinds of warnings.
SPECIFICATION StrictSpec
CONSTANTS
  BuildMsgs = {templateSkipped, dirtyBuild}
  OtherMsgs = {notInNav}
  MaxBuilds = 3
INVARIANTS StrictTypeOK HandlersMatchBuild FirstWarningsAbort
\* Nobody has to build again.
CHECK_DEADLOCK FALSE
