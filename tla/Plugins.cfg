\* Lists of up to two plugins, one edit of mkdocs.yml, two builds.
SPECIFICATION Spec
CONSTANTS
  kept = kept
  plain = plain
  early = early
  Names = {kept, plain, early}
  Persistent = {kept}
  Priority <- EarlyFirst
  MaxEntries = 2
  MaxEdits = 1
  MaxBuilds = 2
INVARIANTS ObjectsFollowConfig CallsInOrder StartedAreShutDown
\* The process ends.
CHECK_DEADLOCK FALSE
