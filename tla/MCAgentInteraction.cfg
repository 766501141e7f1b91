\* Three turns of at most two calls; the second timeout exhausts the budget.
SPECIFICATION FairSpec
CONSTANTS
  Modes <- MCModes
  MaxTurns = 3
  TimeoutBudget = 1
  Probes = 5
  MaxCalls = 2
INVARIANTS
  TypeOK
  HistoryIsComplete
  CacheFollowsMessages
  FinishedMeansFinished
PROPERTIES
  NothingRunsAfterGivingUp
  RunEnds
\* A run ends.
CHECK_DEADLOCK FALSE
