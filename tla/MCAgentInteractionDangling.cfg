\* A shell that is lost: the history ends with calls nobody answered.
SPECIFICATION Spec
CONSTANTS
  Modes <- MCModes
  MaxTurns = 3
  TimeoutBudget = 1
  Probes = 5
  MaxCalls = 2
INVARIANT HistoryIsCompleteOnFailure
\* A run ends.
CHECK_DEADLOCK FALSE
