--------------------------- MODULE MCSearchService ---------------------------
(* Three requests of one or two queries at two workers with two encoders.  *)
EXTENDS SearchService

CONSTANTS c1, c2, c3, w1, w2

MCRequests == {c1, c2, c3}
MCWorkers == {w1, w2}
MCSize == [c \in MCRequests |-> IF c = c2 THEN 2 ELSE 1]
MCTopK == [c \in MCRequests |-> CASE c = c1 -> 1 [] c = c2 -> 2 [] c = c3 -> 3]
MCUrls == <<1, 1, None, 1, 2, 3>>
===============================================================================
