\* Liveness, three requests and no symmetry.
SPECIFICATION FairSpec
CONSTANTS
  Requests = {r1, r2, r3}
  user = user
  more = more
  reply = reply
  echo = echo
  agentTools = agentTools
  otherTools = otherTools
  Messages <- MCMessages
  Tools = {agentTools}
  Calls <- MCFewCalls
  Replies = {reply}
  CanonicalForm <- MCCanonicalForm
  ResponseLength = 3
  ContextLengths = {1}
  ReplyLengths = {1}
  RewardInfos = {reward}
  Context = Context
  None = None
PROPERTIES
  EveryRequestEnds
\* A session stops when it is closed and its requests have ended.
CHECK_DEADLOCK FALSE
