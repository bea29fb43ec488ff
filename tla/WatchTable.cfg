\* Two paths, the builder and a plugin's function.
SPECIFICATION Spec
CONSTANTS
  Paths = {p1, p2}
  Funcs = {builder, plugin}
  MaxCalls = 3
  MaxEvents = 3
INVARIANTS TypeOK ObservedWhileWatched OwedCallsAreQueued
\* The loop may raise.
CHECK_DEADLOCK FALSE
