\* Four messages; a history of more than eight tokens is compacted to five.
SPECIFICATION Spec
CONSTANTS
  c1 = c1
  None = None
  Chats <- MCChats
  MaxTokens = 8
  TargetTokens = 5
  MaxSteps = 2
  Sizes <- MCSizes
  MaxCalls = 2
  MaxEvents = 4
INVARIANTS
  RequestsAreAccepted
  HistoryIsRecent
\* The last message has been handled.
CHECK_DEADLOCK FALSE
