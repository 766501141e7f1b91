\* Two prompts of two sessions; one session may be cancelled, two puts may fail.
SPECIFICATION FairSpec
CONSTANTS
  p1 = p1
  p2 = p2
  agent = agent
  unlimited = unlimited
  None = None
  Prompts <- MCPrompts
  N = 2
  Runners <- MCRunners
  AgentNames <- MCAgentNames
  Cap <- MCCap
  Lengths = {0, 2}
  MaxCancelled = 1
  MaxPutFaults = 2
INVARIANTS
  GroupsAreWhole
  StatusTellsOutputs
  StatsAccountForEverySession
PROPERTIES
  ImplementsGroups
  EveryBatchEnds
  RunnerFailuresAreIsolated
\* The batch ends.
CHECK_DEADLOCK FALSE
