CONSTANTS
  Workers = {w1, w2}
  Objects = {a, b}
  Async = {a, b}
  Serialized = {b}
  HandledErrors = FALSE
  Crashes = TRUE
  MaxVersion = 2
SPECIFICATION FairSpec
INVARIANTS OnlyCommittedIsExecuted CommitsAccountedFor SerializedRunsAlone
PROPERTIES PromiseSpec ServersNeverGoBack CommitsAreExecuted
