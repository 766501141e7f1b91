\* Batches of two requests, chunks and encoder batches of two queries.
SPECIFICATION FairSpec
CONSTANTS
  c1 = c1
  c2 = c2
  c3 = c3
  w1 = w1
  w2 = w2
  None = None
  Requests <- MCRequests
  Size <- MCSize
  TopK <- MCTopK
  Workers <- MCWorkers
  NumEncoders = 2
  MaxRequests = 2
  BatchSize = 2
  MaxBatch = 2
  MinCandidates = 2
  Urls <- MCUrls
INVARIANTS
  TypeOK
  AnswersAreOwn
PROPERTIES
  EveryRequestEnds
\* All requests have ended.
CHECK_DEADLOCK FALSE
