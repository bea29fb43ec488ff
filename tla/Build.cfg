\* Two builds of any kind, two edits or deletions at any moment.
SPECIFICATION Spec
CONSTANTS
  indexMd = indexMd
  pageMd = pageMd
  indexHtml = indexHtml
  extra = extra
  notFound = notFound
  indexOut = indexOut
  pageOut = pageOut
  extraOut = extraOut
  notFoundOut = notFoundOut
  Docs = {indexMd, pageMd}
  Statics = {indexHtml, extra}
  Templates = {notFound}
  Extras = {extra}
  Empty = {notFound}
  Outputs = {indexOut, pageOut, extraOut, notFoundOut}
  Dest <- SharedDest
  MaxEdits = 2
  MaxBuilds = 2
INVARIANTS SettledEditsAreBuilt IndexMatchesSite CleanBuildIsExact
\* The user need not build again.
CHECK_DEADLOCK FALSE
