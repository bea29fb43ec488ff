\* A tab that opens its file while the next build has begun.
SPECIFICATION Spec
CONSTANTS
  Pages = {p1}
  Browsers = {b1}
  MaxEdits = 2
INVARIANTS HalfBuiltNeverServed
CHECK_DEADLOCK FALSE
