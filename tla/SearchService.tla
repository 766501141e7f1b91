---------------------------- MODULE SearchService ----------------------------
(***************************************************************************)
(* The local wiki search (tools/search/localwiki): the worker processes of *)
(* retrieval_server.py, and the encoder actors of shared_encoder.py they   *)
(* share.  Batches are formed twice: a worker's batching_worker joins HTTP *)
(* requests, cuts their queries into chunks and has each chunk encoded;    *)
(* an actor's _batching_loop joins the chunks of several workers.  Both    *)
(* cut what comes back along the sizes of what went in.                    *)
(*                                                                         *)
(* The embedding of a query stands for the query.  What FAISS finds for it *)
(* is external: the passages it ranks first, several of which may be of one*)
(* document (have one url) or of none.  Encoding may raise and an actor may*)
(* die; nobody cancels a call of encode, and nobody calls it with          *)
(* is_query=False.                                                         *)
(***************************************************************************)
EXTENDS Integers, FiniteSets, FiniteSetsExt, SequencesExt

CONSTANTS
    Requests,
    Size,          \* the number of queries of a request
    TopK,          \* its topk
    Workers,
    NumEncoders,   \* encoder actors
    MaxRequests,   \* MAX_REQUEST_BATCH_SIZE of a worker
    BatchSize,     \* retrieval_batch_size, the queries of a chunk
    MaxBatch,      \* max_batch_size of an actor, in queries
    MinCandidates, \* passages that are looked at, at least
    Urls,          \* the urls of a query's passages, best first
    None

ASSUME RequestsAssumption == Size \in [Requests -> Nat] /\ TopK \in [Requests -> Nat]
ASSUME WorkersAssumption == IsFiniteSet(Workers)
ASSUME UrlsAssumption == Urls \in Seq(ToSet(Urls))
ASSUME SizesAssumption ==
    /\ NumEncoders \in Nat \ {0} /\ MaxRequests \in Nat \ {0}
    /\ BatchSize \in Nat \ {0} /\ MaxBatch \in Nat \ {0} /\ MinCandidates \in Nat \ {0}
ASSUME NoneAssumption ==
    None \notin [raised : BOOLEAN, embeddings : Seq([of : Requests, no : Nat])]

VARIABLES
    answer,   \* each request's future: how it ended, and the documents of its queries
    inbox,    \* each worker's request_queue
    pc,       \* each worker: "idle", "searching" or "encoding"
    batch,    \* its batch of requests
    todo,     \* their queries that are not encoded yet
    found,    \* what was found for the others
    next,     \* _encoder_idx
    reply,    \* what its call of encode returned
    queue,    \* each actor's request_queue
    pending,  \* its pending_requests
    joined,   \* its batch of calls
    closed,   \* whether it gathers no more for it
    dead      \* actors that died

workerVars == <<inbox, pc, batch, todo, found, next>>
encoderVars == <<queue, pending, joined, closed, dead>>
vars == <<answer, workerVars, reply, encoderVars>>

Encoders == 0 .. NumEncoders - 1
Queries(c) == [i \in 1 .. Size[c] |-> [of |-> c, no |-> i]]

Init ==
    /\ answer = [c \in Requests |-> None]
    /\ inbox = [w \in Workers |-> <<>>]
    /\ pc = [w \in Workers |-> "idle"]
    /\ batch = [w \in Workers |-> <<>>]
    /\ todo = [w \in Workers |-> <<>>]
    /\ found = [w \in Workers |-> <<>>]
    /\ next = [w \in Workers |-> 0]
    /\ reply = [w \in Workers |-> None]
    /\ queue = [e \in Encoders |-> <<>>]
    /\ pending = [e \in Encoders |-> <<>>]
    /\ joined = [e \in Encoders |-> <<>>]
    /\ closed = [e \in Encoders |-> FALSE]
    /\ dead = {}

-----------------------------------------------------------------------------
(* Cutting what comes back *)

\* Mutant: every slice starts where the first does.
SliceFromStart(s, parts, i) == SubSeq(s, 1, Len(parts[i]))

(* What belongs to the i-th of the parts that were joined.                 *)
Slice(s, parts, i) ==
    LET start == Len(FlattenSeq(SubSeq(parts, 1, i - 1)))
    IN  SubSeq(s, start + 1, start + Len(parts[i]))

Prefix(s, n) == SubSeq(s, 1, IF n < Len(s) THEN n ELSE Len(s))

-----------------------------------------------------------------------------
(* The worker *)

Waiting(c) == \E w \in Workers : Contains(inbox[w], c) \/ Contains(batch[w], c)

(* retrieve_endpoint; the load balancer picks the worker.                  *)
Arrive(c, w) ==
    /\ answer[c] = None /\ ~ Waiting(c)
    /\ inbox' = [inbox EXCEPT ![w] = Append(@, c)]
    /\ UNCHANGED <<answer, pc, batch, todo, found, next, reply, encoderVars>>

Ended(how, docs) == [how |-> how, docs |-> docs]

(* The endpoint is cancelled, and with it the future it awaits.            *)
Leave(c) ==
    /\ answer[c] = None /\ Waiting(c)
    /\ answer' = [answer EXCEPT ![c] = Ended("left", <<>>)]
    /\ UNCHANGED <<workerVars, reply, encoderVars>>

Parts(requests) == [i \in 1 .. Len(requests) |-> Queries(requests[i])]

(* batching_worker: as many requests as it finds in time.                  *)
TakeBatch(w) ==
    /\ pc[w] = "idle"
    /\ \E n \in 1 .. MaxRequests :
          /\ n <= Len(inbox[w])
          /\ batch' = [batch EXCEPT ![w] = Prefix(inbox[w], n)]
          /\ inbox' = [inbox EXCEPT ![w] = SubSeq(@, n + 1, Len(@))]
    /\ todo' = [todo EXCEPT ![w] = FlattenSeq(Parts(batch'[w]))]
    /\ pc' = [pc EXCEPT ![w] = "searching"]
    /\ UNCHANGED <<answer, found, next, reply, encoderVars>>

(* The futures of a batch that are not done yet.                           *)
Resolve(w, value) ==
    answer' = [c \in Requests |->
                  IF Contains(batch[w], c) /\ answer[c] = None THEN value[c] ELSE answer[c]]

Done(w) ==
    /\ pc' = [pc EXCEPT ![w] = "idle"]
    /\ batch' = [batch EXCEPT ![w] = <<>>]
    /\ todo' = [todo EXCEPT ![w] = <<>>]
    /\ found' = [found EXCEPT ![w] = <<>>]

Raised == [raised |-> TRUE, embeddings |-> <<>>]
Returned(embeddings) == [raised |-> FALSE, embeddings |-> embeddings]

(* _batch_search: the next chunk goes to the actors in turn.  A dead actor *)
(* raises.                                                                 *)
EncodeChunk(w) ==
    LET e == next[w]
        chunk == Prefix(todo[w], BatchSize)
    IN  /\ pc[w] = "searching" /\ todo[w] # <<>>
        /\ pc' = [pc EXCEPT ![w] = "encoding"]
        /\ next' = [next EXCEPT ![w] = (e + 1) % NumEncoders]
        /\ IF e \in dead
           THEN reply' = [reply EXCEPT ![w] = Raised] /\ UNCHANGED queue
           ELSE /\ queue' = [queue EXCEPT ![e] = Append(@, [from |-> w, queries |-> chunk])]
                /\ UNCHANGED reply
        /\ UNCHANGED <<answer, inbox, batch, todo, found, pending, joined, closed, dead>>

Larger(a, b) == IF a > b THEN a ELSE b

(* Of how many passages the documents are when num are asked for.          *)
LookedAt(num) == Len(Prefix(Urls, Larger(2 * num, MinCandidates)))

Best(rank) == Urls[rank] # None /\ \A i \in 1 .. rank - 1 : Urls[i] # Urls[rank]

(* Of the first n passages, the best one of each document.                 *)
Distinct[n \in 0 .. Len(Urls)] ==
    IF n = 0 THEN <<>> ELSE Distinct[n - 1] \o (IF Best(n) THEN <<n>> ELSE <<>>)

Documents(query, num) ==
    LET ranks == Prefix(Distinct[LookedAt(num)], num)
    IN  [k \in 1 .. Len(ranks) |-> [of |-> query, rank |-> ranks[k]]]

MaxTopK(w) == Max({TopK[batch[w][i]] : i \in 1 .. Len(batch[w])})

(* The chunk's embeddings, and the search for them.                        *)
Search(w) ==
    /\ pc[w] = "encoding" /\ reply[w] # None /\ ~ reply[w].raised
    /\ found' = [found EXCEPT ![w] = @ \o [i \in 1 .. Len(reply[w].embeddings) |->
                                    Documents(reply[w].embeddings[i], MaxTopK(w))]]
    /\ todo' = [todo EXCEPT ![w] = SubSeq(@, Len(Prefix(@, BatchSize)) + 1, Len(@))]
    /\ reply' = [reply EXCEPT ![w] = None]
    /\ pc' = [pc EXCEPT ![w] = "searching"]
    /\ UNCHANGED <<answer, inbox, batch, next, encoderVars>>

(* Every request gets its slice, cut to its own topk.                      *)
Answer(w) ==
    LET Own(c) == Slice(found[w], Parts(batch[w]), SelectInSeq(batch[w], LAMBDA d : d = c))
    IN  /\ pc[w] = "searching" /\ todo[w] = <<>>
        /\ Resolve(w, [c \in ToSet(batch[w]) |->
                Ended("result", [i \in 1 .. Len(Own(c)) |-> Prefix(Own(c)[i], TopK[c])])])
        /\ Done(w)
        /\ UNCHANGED <<inbox, next, reply, encoderVars>>

\* Mutant: the exception is logged, and the futures are left alone.
BatchDropped(w) ==
    /\ pc[w] = "encoding" /\ reply[w] # None /\ reply[w].raised
    /\ reply' = [reply EXCEPT ![w] = None]
    /\ pc' = [pc EXCEPT ![w] = "idle"]
    /\ todo' = [todo EXCEPT ![w] = <<>>]
    /\ found' = [found EXCEPT ![w] = <<>>]
    /\ batch' = [batch EXCEPT ![w] = <<>>]
    /\ UNCHANGED <<answer, inbox, next, encoderVars>>

(* The exception of one chunk is everybody's.                              *)
BatchFails(w) ==
    /\ pc[w] = "encoding" /\ reply[w] # None /\ reply[w].raised
    /\ reply' = [reply EXCEPT ![w] = None]
    /\ Resolve(w, [c \in ToSet(batch[w]) |-> Ended("error", <<>>)])
    /\ Done(w)
    /\ UNCHANGED <<inbox, next, encoderVars>>

-----------------------------------------------------------------------------
(* The encoder actor *)

Calls(e) == [i \in 1 .. Len(joined[e]) |-> joined[e][i].queries]
Joined(e) == Len(FlattenSeq(Calls(e)))

(* _get_next_request: pending_requests first.                              *)
NextCall(e) == Head(pending[e] \o queue[e])

PopNext(e) ==
    /\ pending[e] \o queue[e] # <<>>
    /\ IF pending[e] # <<>>
       THEN pending' = [pending EXCEPT ![e] = Tail(@)] /\ UNCHANGED queue
       ELSE queue' = [queue EXCEPT ![e] = Tail(@)] /\ UNCHANGED pending

(* The first call of a batch is taken whatever its size.                   *)
Begin(e) ==
    /\ joined[e] = <<>>
    /\ PopNext(e)
    /\ joined' = [joined EXCEPT ![e] = <<NextCall(e)>>]
    /\ UNCHANGED <<answer, workerVars, reply, closed, dead>>

\* Mutant: whatever comes next joins a batch that is not full.
JoinUnchecked(e) ==
    /\ joined[e] # <<>> /\ ~ closed[e] /\ Joined(e) < MaxBatch
    /\ PopNext(e)
    /\ joined' = [joined EXCEPT ![e] = Append(@, NextCall(e))]
    /\ UNCHANGED <<answer, workerVars, reply, closed, dead>>

Join(e) ==
    /\ joined[e] # <<>> /\ ~ closed[e] /\ Joined(e) < MaxBatch
    /\ PopNext(e)
    /\ Len(NextCall(e).queries) <= MaxBatch - Joined(e)
    /\ joined' = [joined EXCEPT ![e] = Append(@, NextCall(e))]
    /\ UNCHANGED <<answer, workerVars, reply, closed, dead>>

(* A call that does not fit is put back, in front, and the batch is closed.*)
PutBack(e) ==
    /\ joined[e] # <<>> /\ ~ closed[e] /\ Joined(e) < MaxBatch
    /\ pending[e] \o queue[e] # <<>>
    /\ Len(NextCall(e).queries) > MaxBatch - Joined(e)
    /\ closed' = [closed EXCEPT ![e] = TRUE]
    /\ IF pending[e] # <<>>
       THEN UNCHANGED <<pending, queue>>
       ELSE /\ queue' = [queue EXCEPT ![e] = Tail(@)]
            /\ pending' = [pending EXCEPT ![e] = <<NextCall(e)>> \o @]
    /\ UNCHANGED <<answer, workerVars, reply, joined, dead>>

(* What each of the calls returns to its worker.                           *)
Reply(calls, values) ==
    reply' = [w \in Workers |->
                 LET i == SelectInSeq(calls, LAMBDA call : call.from = w)
                 IN  IF i > 0 THEN values[i] ELSE reply[w]]

AllRaise(calls) == [i \in 1 .. Len(calls) |-> Raised]

Encoded(e) ==
    /\ joined[e] # <<>>
    /\ joined' = [joined EXCEPT ![e] = <<>>]
    /\ closed' = [closed EXCEPT ![e] = FALSE]
    /\ UNCHANGED <<answer, workerVars, queue, pending, dead>>

(* When the batch is full or closed, or its time is over.                  *)
Encode(e) ==
    /\ Encoded(e)
    /\ Reply(joined[e], [i \in 1 .. Len(joined[e]) |->
                             Returned(Slice(FlattenSeq(Calls(e)), Calls(e), i))])

EncodeRaises(e) ==
    /\ Encoded(e)
    /\ Reply(joined[e], AllRaise(joined[e]))

Held(e) == joined[e] \o pending[e] \o queue[e]

(* Every call that waits for the actor raises.                             *)
Die(e) ==
    /\ e \notin dead
    /\ dead' = dead \cup {e}
    /\ Reply(Held(e), AllRaise(Held(e)))
    /\ queue' = [queue EXCEPT ![e] = <<>>]
    /\ pending' = [pending EXCEPT ![e] = <<>>]
    /\ joined' = [joined EXCEPT ![e] = <<>>]
    /\ closed' = [closed EXCEPT ![e] = FALSE]
    /\ UNCHANGED <<answer, workerVars>>

-----------------------------------------------------------------------------
Work(w) == TakeBatch(w) \/ EncodeChunk(w) \/ Search(w) \/ Answer(w) \/ BatchFails(w)
Gather(e) == Begin(e) \/ Join(e) \/ PutBack(e)

Next ==
    \/ \E c \in Requests : Leave(c) \/ \E w \in Workers : Arrive(c, w)
    \/ \E w \in Workers : Work(w)
    \/ \E e \in Encoders : Gather(e) \/ Encode(e) \/ EncodeRaises(e) \/ Die(e)

Spec == Init /\ [][Next]_vars

(* Workers and actors go on, and every encoding returns or raises.         *)
FairSpec ==
    /\ Spec
    /\ \A w \in Workers : WF_vars(Work(w))
    /\ \A e \in Encoders : WF_vars(Gather(e)) /\ WF_vars(Encode(e) \/ EncodeRaises(e))

-----------------------------------------------------------------------------
(* Properties *)

\* Type invariant; an actor's batch holds one call or no more queries than it may, it has
\* put back one call at most, and an encoding worker waits for exactly one call.
TypeOK ==
    /\ \A w \in Workers :
          /\ pc[w] \in {"idle", "searching", "encoding"}
          /\ next[w] \in Encoders
          /\ Len(batch[w]) <= MaxRequests
          /\ pc[w] = "idle" <=> batch[w] = <<>>
    /\ \A e \in Encoders :
          /\ Len(joined[e]) <= 1 \/ Joined(e) <= MaxBatch
          /\ Len(pending[e]) <= 1 /\ Len(Held(e)) <= Cardinality(Workers)
    /\ \A w \in Workers :
          Cardinality({at \in Encoders \X (1 .. Cardinality(Workers)) :
                           at[2] <= Len(Held(at[1])) /\ Held(at[1])[at[2]].from = w})
              = IF pc[w] = "encoding" /\ reply[w] = None THEN 1 ELSE 0
    /\ dead \subseteq Encoders

\* A request gets one list of documents for each of its own queries, in order; each list
\* is the beginning of what that query finds, within the request's topk, and no worse
\* for the company it was searched in: at least what it would have been alone.
AnswersAreOwn ==
    \A c \in Requests : answer[c] # None /\ answer[c].how = "result" =>
        /\ Len(answer[c].docs) = Size[c]
        /\ \A i \in 1 .. Size[c] :
              LET docs == answer[c].docs[i]
                  query == Queries(c)[i]
              IN  /\ Len(docs) <= TopK[c]
                  /\ IsPrefix(docs, Documents(query, Len(Urls)))
                  /\ IsPrefix(Prefix(Documents(query, TopK[c]), TopK[c]), docs)

\* Every request is answered, with documents or with an error, whatever fails or dies.
EveryRequestEnds == \A c \in Requests : Waiting(c) ~> answer[c] # None
==============================================================================
