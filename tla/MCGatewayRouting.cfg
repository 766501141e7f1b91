\* Three rollouts compete for two permits on two gateways.
SPECIFICATION Spec
CONSTANTS
  Rollouts = {s1, s2, s3}
  GatewayCount = 2
  Cap = 2
  MaxTurns = 1
  MaxFaults = 2
  None = None
SYMMETRY RolloutSymmetry
INVARIANTS
  LoadCountsRoutes
  BurstIsSpread
  RunnerHasItsSession
  NoSessionLeftBehind
  OpenSessionsWithinCap
  AnsweredTurnsAreReturned
\* The batch ends.
CHECK_DEADLOCK FALSE
