\* All docs_dirs of ten files, either URL style, one change by a plugin.
SPECIFICATION Spec
CONSTANTS
  dotted = dotted
  Hidden = {dotted}
  DocsDir <- SmallDocs
  Theme <- SmallTheme
  Generated <- SmallGenerated
  LinkPaths <- SmallLinks
  Mount <- SubDirectory
  MaxCalls = 1
INVARIANTS LinksLeadToTargets NavLinksLeadToPages NothingWrittenOver
\* The build ends.
CHECK_DEADLOCK FALSE
