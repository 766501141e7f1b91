\* One put fails: the batch is never sampled.
SPECIFICATION FairSpec
CONSTANTS
  p1 = p1
  p2 = p2
  agent = agent
  unlimited = unlimited
  None = None
  Prompts <- MCPrompts
  N = 2
  Runners <- MCRunners
  AgentNames <- MCTwoRunners
  Cap <- MCCap
  Lengths = {0, 2}
  MaxCancelled = 0
  MaxPutFaults = 1
PROPERTIES
  EveryBatchIsSampled
\* The batch ends.
CHECK_DEADLOCK FALSE
