\* Four requests, a budget of four response tokens.
SPECIFICATION Spec
CONSTANTS
  Requests = {r1, r2, r3, r4}
  user = user
  more = more
  reply = reply
  echo = echo
  agentTools = agentTools
  otherTools = otherTools
  Messages <- MCMessages
  Tools = {agentTools, otherTools}
  Calls <- MCCalls
  Replies = {reply}
  CanonicalForm <- MCCanonicalForm
  ResponseLength = 4
  ContextLengths = {1}
  ReplyLengths = {1, 2}
  RewardInfos = {reward}
  Context = Context
  None = None
SYMMETRY RequestSymmetry
INVARIANTS
  InFlightOwnsChain
  ReservationsAreHeld
  BufferEncodesConversation
  LogprobsAligned
  BudgetRespected
  RewardTargetIsLatest
PROPERTIES
  ClosedSessionIsFrozen
  ImplementsLog
\* A session stops when it is closed and its requests have ended.
CHECK_DEADLOCK FALSE
