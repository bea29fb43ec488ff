\* Sites in each language, with one query; an English one with queries of every
\* kind; and one where three changes of the box race with the answers.
SPECIFICATION FairSpec
CONSTANTS
  Sites <- AllSites
  StopWords <- SampleStopWords
  ScriptsLoad <- SiteScriptsLoad
  Lunr <- SiteLunr
  Promise <- SitePromise
INVARIANTS LatestQueryIsShown AnswersAreExact WordsAreFound TokenSetIsMinimal TablesAreInOrder
PROPERTIES QueriesAreAnswered
\* The user stops typing.
CHECK_DEADLOCK FALSE
