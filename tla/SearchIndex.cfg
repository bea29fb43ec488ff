\* Two pages of six tokens together.
SPECIFICATION IndexSpec
CONSTANTS
  Pages <- TwoPages
  Listed = {a, b}
  Unlisted = {c}
  a = a
  b = b
  c = c
  LangValues <- SomeLangs
  ThemeLang <- German
  Supported <- Scripts
  Fallback <- Ukrainian
  MaxTokens = 6
\* The headings of the table of contents are interchangeable.
SYMMETRY ListedPermutations
INVARIANTS ScriptsAreInSite EntriesMatchPages
\* The build ends.
CHECK_DEADLOCK FALSE
