\* Two calls, up to two lines in all; one of them may be cancelled.
SPECIFICATION FairSpec
CONSTANTS
  c1 = c1
  c2 = c2
  None = None
  Calls <- MCCalls
  MaxLines = 2
  MaxCuts = 1
INVARIANTS
  TypeOK
  NoCrossTalk
PROPERTIES
  EveryCallEnds
\* All calls have ended.
CHECK_DEADLOCK FALSE
