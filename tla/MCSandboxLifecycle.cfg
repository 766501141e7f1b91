\* Two runs, the first with two attempts, and one retry of a request.
SPECIFICATION FairSpec
CONSTANTS
  r1 = r1
  r2 = r2
  None = None
  Runs <- MCRuns
  MaxRetries <- MCMaxRetries
  Cap = 1
  MaxCancels = 1
  Retries = 1
INVARIANTS
  TypeOK
  NothingLeftBehind
  WorksInItsOwnSandbox
  StartingWithinCap
PROPERTIES
  EveryRunEnds
CONSTRAINT SharesNothing
\* All runs are over.
CHECK_DEADLOCK FALSE
