--------------------------- MODULE GatewaySession ---------------------------
(***************************************************************************)
(* One GatewaySession (uni_agent/gateway/session/session.py): concurrent   *)
(* generation requests of one agent run, the chains they extend, and the   *)
(* close of the session.  Every request is a process that takes the        *)
(* session's asyncio lock twice, around the codec, and lets it go while    *)
(* the backend generates.                                                  *)
(*                                                                         *)
(* Data is abstracted to what the properties tell apart.  A response token *)
(* is the request whose generation produced it, or Context: this stands    *)
(* for response_ids and response_mask together (mask 1 iff not Context).   *)
(* text is the messages that prompt_ids and response_ids encode, in order. *)
(* The SHA-256 prefix hashes are their preimages: the canonical forms of   *)
(* the messages hashed.  Media lists are copied and extended in step with  *)
(* the encoded messages and are not modelled apart from them.              *)
(***************************************************************************)
EXTENDS Integers, Sequences, FiniteSets

CONSTANTS
    Requests,       \* one per call of run_generation
    Messages,       \* chat messages
    Tools,          \* tool schema lists
    Calls,          \* the internal requests clients send
    Replies,        \* the assistant messages decode_response may return
    CanonicalForm,  \* canonicalize_message_for_prefix_comparison, a function
    ResponseLength, \* the response budget in tokens, None when not set
    ContextLengths, \* tokens an incremental encoding may have
    ReplyLengths,   \* tokens a generation may have
    RewardInfos,    \* values of reward_info
    Context,        \* label of a response token that no request generated
    None

ASSUME CallsAssumption ==
    Calls \subseteq [messages : Seq(Messages), tools : Tools, logprobs : BOOLEAN]
ASSUME RepliesAssumption == Replies \subseteq Messages
ASSUME BudgetAssumption == ResponseLength = None \/ ResponseLength \in Nat \ {0}
ASSUME LengthsAssumption == ContextLengths \subseteq Nat /\ ReplyLengths \subseteq Nat
ASSUME LabelsAssumption == Context \notin Requests /\ None \notin Requests

VARIABLES
    phase,        \* "ACTIVE", "FINALIZED" or "ABORTED"
    lock,         \* holder of request_lock across an await, or None
    chains,       \* active_chains, by chain id
    materialized, \* materialized_chains
    reserved,     \* reserved_chain_ids
    nextChain,    \* _next_chain_id
    orderSeq,     \* _order_seq
    rewardInfo,   \* reward_info
    returned,     \* what finalize returned, None before
    pc,           \* where each request stands in run_generation
    call,         \* the internal request of each request
    work          \* its EncodedData: the selected chain and a working buffer

sessionVars == <<phase, chains, materialized, reserved, nextChain, orderSeq,
                 rewardInfo, returned>>
vars == <<sessionVars, lock, pc, call, work>>

-----------------------------------------------------------------------------
(* Records *)

Tokens == Requests \cup {Context}
Buffer == [text : Seq(Messages), tools : Tools, ids : Seq(Tokens), lps : Seq(Tokens)]
Chain == [history : Seq(Messages), tools : Tools, buffer : Buffer, seq : Nat]
Trajectory == [chain : Nat, ids : Seq(Tokens), lps : Seq(Tokens), order : Nat]

NewChain == 0  \* encoded.chain_id is None
NoWork == [chain |-> NewChain, buffer |-> None]
NoChains == [c \in {} |-> None]

Copies(x, n) == [i \in 1..n |-> x]
Beyond(s, n) == SubSeq(s, n + 1, Len(s))

Exhausted(n) == ResponseLength # None /\ n >= ResponseLength

(* The request's messages start with the chain's history, up to canonical  *)
(* form: message_tip_hash equals the incoming prefix hash at that length.  *)
PrefixMatches(history, messages) ==
    /\ Len(history) <= Len(messages)
    /\ \A i \in 1..Len(history) : CanonicalForm[history[i]] = CanonicalForm[messages[i]]

SameConversation(s, t) == Len(s) = Len(t) /\ PrefixMatches(s, t)

\* Mutant: reserved chains are candidates too.
CandidatesWithReserved(k) ==
    {c \in DOMAIN chains :
        chains[c].tools = k.tools /\ PrefixMatches(chains[c].history, k.messages)}

Candidates(k) ==
    {c \in DOMAIN chains \ reserved :
        chains[c].tools = k.tools /\ PrefixMatches(chains[c].history, k.messages)}

(* max by (len(message_history), updated_seq); updated_seq is unique.      *)
Beats(c, d) ==
    LET m == Len(chains[c].history)
        n == Len(chains[d].history)
    IN  m > n \/ (m = n /\ chains[c].seq > chains[d].seq)

(* The outcomes of _select_chain, one at most: the best candidate, or a    *)
(* new chain when there is none.                                           *)
Selections(k) ==
    IF Candidates(k) = {} THEN {NewChain}
    ELSE {c \in Candidates(k) : \A d \in Candidates(k) \ {c} : Beats(c, d)}

\* Mutant: the log-probabilities are kept whatever their number.
MaterializeUnchecked(c, order) ==
    LET b == chains[c].buffer
    IN  [chain |-> c, ids |-> b.ids, order |-> order, lps |-> b.lps]

(* Log-probabilities are kept only when there is one for every token.      *)
Materialize(c, order) ==
    LET b == chains[c].buffer
    IN  [chain |-> c, ids |-> b.ids, order |-> order,
         lps |-> IF Len(b.lps) = Len(b.ids) THEN b.lps ELSE <<>>]

\* Mutant: the chains already closed are overwritten instead of extended.
OnlyActiveMaterialized == {Materialize(c, chains[c].seq) : c \in DOMAIN chains}

(* _materialize_active_chains: the closed chains and every open one.       *)
AllMaterialized ==
    materialized \cup {Materialize(c, chains[c].seq) : c \in DOMAIN chains}

(* sorted(materialized_chains, key=order_seq)                              *)
InOrder(S) ==
    [i \in 1..Cardinality(S) |->
        CHOOSE m \in S : Cardinality({k \in S : k.order <= m.order}) = i]

-----------------------------------------------------------------------------
Init ==
    /\ phase = "ACTIVE"
    /\ lock = None
    /\ chains = NoChains
    /\ materialized = {}
    /\ reserved = {}
    /\ nextChain = 1
    /\ orderSeq = 0
    /\ rewardInfo = None
    /\ returned = None
    /\ pc = [r \in Requests |-> "idle"]
    /\ call = [r \in Requests |-> None]
    /\ work = [r \in Requests |-> NoWork]

Goto(r, label) == pc' = [pc EXCEPT ![r] = label]

(* run_generation returns or raises: its locals are gone.                  *)
Exit(r, label) ==
    /\ Goto(r, label)
    /\ call' = [call EXCEPT ![r] = None]
    /\ work' = [work EXCEPT ![r] = NoWork]

(* A client posts a request; it queues for the lock.                       *)
Submit(r) ==
    /\ pc[r] = "idle"
    /\ \E k \in Calls : call' = [call EXCEPT ![r] = k]
    /\ Goto(r, "entering")
    /\ UNCHANGED <<sessionVars, lock, work>>

(* First critical section: HTTP 409 on a closed session.                   *)
Refuse(r) ==
    /\ pc[r] = "entering" /\ lock = None /\ phase # "ACTIVE"
    /\ Exit(r, "failed")
    /\ UNCHANGED <<sessionVars, lock>>

(* First critical section up to the await of the codec: select the chain.  *)
Select(r) ==
    /\ pc[r] = "entering" /\ lock = None /\ phase = "ACTIVE"
    /\ lock' = r
    /\ \E c \in Selections(call[r]) : work' = [work EXCEPT ![r].chain = c]
    /\ Goto(r, "encoding")
    /\ UNCHANGED <<sessionVars, call>>

(* encode_full: the working buffer of a new chain.                         *)
FullEncoding(k) == [text |-> k.messages, tools |-> k.tools, ids |-> <<>>, lps |-> <<>>]

(* A buffer whose text is now the one given, with tokens appended, and     *)
(* their log-probabilities when the request asked for them.                *)
Grown(b, text, tokens, logprobs) ==
    [text |-> text, tools |-> b.tools, ids |-> b.ids \o tokens,
     lps |-> IF logprobs THEN b.lps \o tokens ELSE b.lps]

\* Mutant: all of the request's messages are appended.
IncrementalEncodingOfAll(k, ch, n) ==
    Grown(ch.buffer, ch.buffer.text \o k.messages, Copies(Context, n), k.logprobs)

(* encode_incremental appends what the request adds to the chain's history *)
(* to a copy of the chain's buffer, as n context tokens.                   *)
IncrementalEncoding(k, ch, n) ==
    Grown(ch.buffer, ch.buffer.text \o Beyond(k.messages, Len(ch.history)),
          Copies(Context, n), k.logprobs)

(* No incremental messages, no incremental tokens.                         *)
IncrementLengths(k, ch) ==
    IF Len(k.messages) = Len(ch.history) THEN {0} ELSE ContextLengths

(* The rest of the first critical section for a new chain.                 *)
PrepareNew(r) ==
    /\ pc[r] = "encoding" /\ lock = r /\ work[r].chain = NewChain
    /\ work' = [work EXCEPT ![r].buffer = FullEncoding(call[r])]
    /\ lock' = None
    /\ Goto(r, "generating")
    /\ UNCHANGED <<sessionVars, call>>

(* ... for a chain with budget left: reserve it for this request.          *)
PrepareNext(r) ==
    LET c == work[r].chain IN
    /\ pc[r] = "encoding" /\ lock = r /\ c # NewChain
    /\ \E n \in IncrementLengths(call[r], chains[c]) :
          /\ ~ Exhausted(Len(chains[c].buffer.ids) + n)
          /\ work' = [work EXCEPT ![r].buffer = IncrementalEncoding(call[r], chains[c], n)]
    /\ reserved' = reserved \cup {c}
    /\ lock' = None
    /\ Goto(r, "generating")
    /\ UNCHANGED <<phase, chains, materialized, nextChain, orderSeq, rewardInfo, returned, call>>

(* ... for a chain without: close it as it stands and answer "length".     *)
CloseExhausted(r) ==
    LET c == work[r].chain IN
    /\ pc[r] = "encoding" /\ lock = r /\ c # NewChain
    /\ \E n \in IncrementLengths(call[r], chains[c]) :
          Exhausted(Len(chains[c].buffer.ids) + n)
    /\ orderSeq' = orderSeq + 1
    /\ materialized' = materialized \cup {Materialize(c, orderSeq + 1)}
    /\ chains' = [d \in DOMAIN chains \ {c} |-> chains[d]]
    /\ lock' = None
    /\ Exit(r, "exhausted")
    /\ UNCHANGED <<phase, reserved, nextChain, rewardInfo, returned>>

\* Mutant: the incremental tokens are left out of the budget.
WithinStaleBudget(r, n) ==
    ResponseLength # None =>
        n <= ResponseLength -
             (IF work[r].chain \in DOMAIN chains THEN Len(chains[work[r].chain].buffer.ids)
              ELSE 0)

(* max_tokens: the response budget that is left after the context tokens.  *)
WithinBudget(r, n) ==
    ResponseLength # None => n <= ResponseLength - Len(work[r].buffer.ids)

(* The backend answers, with at most max_tokens tokens; the response joins *)
(* the working buffer only.                                                *)
BackendReturns(r) ==
    LET b == work[r].buffer IN
    /\ pc[r] = "generating"
    /\ \E n \in ReplyLengths :
          /\ WithinBudget(r, n)
          /\ work' = [work EXCEPT ![r].buffer =
                                    Grown(b, b.text, Copies(r, n), call[r].logprobs)]
    /\ Goto(r, "returning")
    /\ UNCHANGED <<sessionVars, lock, call>>

\* Mutant: the phase is not checked again.
ReenterUnchecked(r) ==
    /\ pc[r] = "returning" /\ lock = None
    /\ lock' = r
    /\ Goto(r, "decoding")
    /\ UNCHANGED <<sessionVars, call, work>>

(* Second critical section up to the await of decode_response.             *)
Reenter(r) ==
    /\ pc[r] = "returning" /\ lock = None /\ phase = "ACTIVE"
    /\ lock' = r
    /\ Goto(r, "decoding")
    /\ UNCHANGED <<sessionVars, call, work>>

\* Mutant: an extended chain keeps its place in the order.
CommittedInPlace(r, reply) ==
    [history |-> Append(call[r].messages, reply), tools |-> call[r].tools,
     buffer |-> [work[r].buffer EXCEPT !.text = Append(@, reply)],
     seq |-> IF work[r].chain = NewChain THEN orderSeq + 1 ELSE chains[work[r].chain].seq]

(* ChainState after a commit: the client's messages, and the reply.        *)
Committed(r, reply) ==
    [history |-> Append(call[r].messages, reply), tools |-> call[r].tools,
     buffer |-> [work[r].buffer EXCEPT !.text = Append(@, reply)],
     seq |-> orderSeq + 1]

(* _commit_generation_to_chain and the end of the second critical section: *)
(* a new chain is appended, an existing one replaced in place.             *)
Commit(r) ==
    LET c == IF work[r].chain = NewChain THEN nextChain ELSE work[r].chain IN
    /\ pc[r] = "decoding" /\ lock = r
    /\ work[r].chain # NewChain => c \in DOMAIN chains
    /\ \E reply \in Replies :
          chains' = [d \in DOMAIN chains \cup {c} |->
                        IF d = c THEN Committed(r, reply) ELSE chains[d]]
    /\ nextChain' = IF work[r].chain = NewChain THEN nextChain + 1 ELSE nextChain
    /\ orderSeq' = orderSeq + 1
    /\ reserved' = reserved \ {work[r].chain}
    /\ lock' = None
    /\ Exit(r, "answered")
    /\ UNCHANGED <<phase, materialized, rewardInfo, returned>>

\* Mutant: the reservation is forgotten.
LeaveReserved(r) == Exit(r, "failed")

(* The finally clause: a request that still holds a reservation goes on to *)
(* release it, under the lock and shielded from cancellation.              *)
Leave(r) ==
    IF work[r].chain = NewChain
    THEN Exit(r, "failed")
    ELSE /\ Goto(r, "releasing")
         /\ work' = [work EXCEPT ![r].buffer = None]
         /\ call' = [call EXCEPT ![r] = None]

\* Mutant: a failure inside a critical section keeps the lock.
LockKept(r) == lock

(* async with request_lock: left by an exception, it frees the lock.       *)
LockFreed(r) == IF lock = r THEN None ELSE lock

(* The codec raises, or the task is cancelled, in the first section or     *)
(* before it; nothing is reserved yet.                                     *)
FailEarly(r) ==
    /\ pc[r] \in {"entering", "encoding"}
    /\ lock' = LockFreed(r)
    /\ Exit(r, "failed")
    /\ UNCHANGED sessionVars

(* The backend raises, omits or misaligns logprobs; decode_response        *)
(* raises; or the task is cancelled, here or while it waits for the lock.  *)
FailLate(r) ==
    /\ pc[r] \in {"generating", "returning", "decoding"}
    /\ lock' = LockFreed(r)
    /\ Leave(r)
    /\ UNCHANGED sessionVars

(* Second critical section: HTTP 409 on a session closed meanwhile.        *)
RefuseLate(r) ==
    /\ pc[r] = "returning" /\ lock = None /\ phase # "ACTIVE"
    /\ Leave(r)
    /\ UNCHANGED <<sessionVars, lock>>

(* _release_chain_reservation; discard of an absent id is a no-op.         *)
Release(r) ==
    /\ pc[r] = "releasing" /\ lock = None
    /\ reserved' = reserved \ {work[r].chain}
    /\ Exit(r, "failed")
    /\ UNCHANGED <<phase, chains, materialized, nextChain, orderSeq, rewardInfo, returned,
                   lock>>

(* set_reward_info; on a closed session it raises and changes nothing.     *)
SetRewardInfo ==
    /\ lock = None /\ phase = "ACTIVE"
    /\ \E v \in RewardInfos : rewardInfo' = v
    /\ UNCHANGED <<phase, chains, materialized, reserved, nextChain, orderSeq, returned,
                   lock, pc, call, work>>

(* finalize; on a closed session it raises and changes nothing.            *)
Finalize ==
    /\ lock = None /\ phase = "ACTIVE"
    /\ materialized' = AllMaterialized
    /\ chains' = NoChains
    /\ reserved' = {}
    /\ phase' = "FINALIZED"
    /\ returned' = InOrder(AllMaterialized)
    /\ UNCHANGED <<nextChain, orderSeq, rewardInfo, lock, pc, call, work>>

(* abort; idempotent on an aborted session, raises on a finalized one.     *)
Abort ==
    /\ lock = None /\ phase = "ACTIVE"
    /\ phase' = "ABORTED"
    /\ chains' = NoChains
    /\ materialized' = {}
    /\ reserved' = {}
    /\ UNCHANGED <<nextChain, orderSeq, rewardInfo, returned, lock, pc, call, work>>

(* What a request does once submitted, but for failing.                    *)
Advance(r) ==
    \/ Refuse(r) \/ Select(r)
    \/ PrepareNew(r) \/ PrepareNext(r) \/ CloseExhausted(r)
    \/ BackendReturns(r) \/ Reenter(r) \/ Commit(r)
    \/ RefuseLate(r) \/ Release(r)

Next ==
    \/ \E r \in Requests : Submit(r) \/ Advance(r) \/ FailEarly(r) \/ FailLate(r)
    \/ SetRewardInfo \/ Finalize \/ Abort

Spec == Init /\ [][Next]_vars

(* Submitted requests are run to an end: asyncio runs what is ready, its   *)
(* lock is first-in first-out, so a waiter whose turn keeps coming up gets *)
(* it (strong fairness), and the codec and the backend answer or raise.    *)
(* Clients need not submit, fail, finalize or abort.                       *)
FairSpec == Spec /\ \A r \in Requests : SF_vars(Advance(r))

-----------------------------------------------------------------------------
(* Properties *)

Labels == {"idle", "entering", "encoding", "generating", "returning", "decoding",
           "releasing", "answered", "exhausted", "failed"}

InFlight(r) == pc[r] \in {"generating", "returning", "decoding"}
Holding(r) == InFlight(r) \/ pc[r] = "releasing"

SessionType ==
    /\ phase \in {"ACTIVE", "FINALIZED", "ABORTED"}
    /\ lock \in Requests \cup {None}
    /\ DOMAIN chains \subseteq 1..(nextChain - 1)
    /\ \A c \in DOMAIN chains : chains[c] \in Chain
    /\ \A m \in materialized : m \in Trajectory
    /\ reserved \subseteq 1..(nextChain - 1)
    /\ nextChain \in Nat \ {0}
    /\ orderSeq \in Nat
    /\ rewardInfo \in RewardInfos \cup {None}

RequestType ==
    /\ pc \in [Requests -> Labels]
    /\ call \in [Requests -> Calls \cup {None}]
    /\ work \in [Requests -> [chain : Nat, buffer : Buffer \cup {None}]]
    /\ \A r \in Requests :
          /\ pc[r] \in {"entering", "encoding"} \/ InFlight(r) => call[r] \in Calls
          /\ work[r].chain \in 0..(nextChain - 1)
          /\ InFlight(r) => work[r].buffer \in Buffer

\* Type invariant.  A request's working buffer exists from the first critical
\* section on; chain identifiers are among those handed out.
TypeOK == SessionType /\ RequestType

Extends(b, prefix) == Len(prefix) <= Len(b) /\ \A i \in 1..Len(prefix) : b[i] = prefix[i]

\* No lost update.  While a request is with the backend or waits to commit, the
\* chain it was prepared from is still active, no other request in flight was
\* prepared from it, and it has not grown: the working buffer extends its tokens,
\* the request extends its history.  So _find_active_chain never raises, and a
\* commit that replaces the chain drops nothing.
InFlightOwnsChain ==
    phase = "ACTIVE" =>
        \A r \in Requests :
            LET c == work[r].chain IN
            InFlight(r) /\ c # NewChain =>
                /\ c \in DOMAIN chains \cap reserved
                /\ Extends(work[r].buffer.ids, chains[c].buffer.ids)
                /\ PrefixMatches(chains[c].history, call[r].messages)
                /\ \A q \in Requests \ {r} : InFlight(q) => work[q].chain # c

\* No leaked reservation: in an active session a chain is reserved exactly while a
\* request prepared from it is in flight or on its way to releasing it.
ReservationsAreHeld ==
    phase = "ACTIVE" =>
        reserved = {work[r].chain : r \in {q \in Requests : Holding(q)}} \ {NewChain}

\* The tokens a chain would be trained on encode the conversation the client and
\* the model had, message for message up to canonical form, under its tools.
BufferEncodesConversation ==
    \A c \in DOMAIN chains :
        /\ SameConversation(chains[c].buffer.text, chains[c].history)
        /\ chains[c].buffer.tools = chains[c].tools

\* Requests that ask for log-probabilities and requests that do not may share a
\* chain: a trajectory has the log-probability of each of its tokens, at its
\* place, or none at all.
LogprobsAligned == \A m \in materialized : m.lps \in {<<>>, m.ids}

\* However requests and failures interleave, no chain outgrows the budget.
BudgetRespected ==
    ResponseLength # None =>
        /\ \A c \in DOMAIN chains : Len(chains[c].buffer.ids) <= ResponseLength
        /\ \A m \in materialized : Len(m.ids) <= ResponseLength

\* The framework scores the last trajectory finalize returns and gives its reward
\* to all: trajectories come in strictly increasing order of their last commit or
\* close, and the last of them is the latest the session made.
RewardTargetIsLatest ==
    returned # None =>
        /\ \A i \in 1..Len(returned) : \A j \in 1..(i - 1) : returned[j].order < returned[i].order
        /\ orderSeq > 0 => returned # <<>> /\ returned[Len(returned)].order = orderSeq

\* Nothing a request does after the session was closed changes what it holds.
ClosedSessionIsFrozen ==
    [][phase # "ACTIVE" =>
        UNCHANGED <<phase, chains, materialized, rewardInfo, returned>>]_vars

\* The session implements the log of conversations: every answered generation is
\* one turn at the end of one conversation, as if it had happened at once, and no
\* conversation is lost, doubled or changed afterwards.
Log == INSTANCE ConversationLog WITH
           Generations <- Requests,
           open <- [c \in DOMAIN chains |-> chains[c].buffer.ids],
           closed <- {[chain |-> m.chain, ids |-> m.ids] : m \in materialized},
           answered <- {r \in Requests : pc[r] = "answered"},
           status <- phase
ImplementsLog == Log!LogSpec

\* Every submitted request is answered, refused or fails: no failure, cancellation
\* or close leaves the session's lock or a chain blocked for those that wait.
EveryRequestEnds ==
    \A r \in Requests :
        pc[r] = "entering" ~> pc[r] \in {"answered", "exhausted", "failed"}
-----------------------------------------------------------------------------
(* The inductive invariant of the proofs: each part names what the steps   *)
(* of one request rely on while others run.                                *)

(* Whoever stands at an await inside a critical section holds the lock of  *)
(* an active session; the chain it selected is still what it selected.     *)
CriticalInv ==
    \A r \in Requests :
        /\ pc[r] \in {"encoding", "decoding"} => lock = r /\ phase = "ACTIVE"
        /\ pc[r] = "encoding" => work[r].chain = NewChain \/ work[r].chain \in Candidates(call[r])

(* A reservation has one holder, and is there for every holder.            *)
Holder(r) == Holding(r) /\ work[r].chain # NewChain

ReservationInv ==
    /\ \A r \in Requests : pc[r] = "releasing" => work[r].chain # NewChain
    /\ phase = "ACTIVE" =>
          /\ \A r \in Requests : Holder(r) => work[r].chain \in DOMAIN chains \cap reserved
          /\ \A r, q \in Requests :
                Holder(r) /\ Holder(q) /\ r # q => work[r].chain # work[q].chain
          /\ \A c \in reserved : \E r \in Requests : Holder(r) /\ work[r].chain = c

(* A chain in flight is as its request found it.                           *)
GrowthInv ==
    phase = "ACTIVE" =>
        \A r \in Requests :
            InFlight(r) /\ work[r].chain # NewChain =>
                /\ Extends(work[r].buffer.ids, chains[work[r].chain].buffer.ids)
                /\ PrefixMatches(chains[work[r].chain].history, call[r].messages)

(* A buffer encodes a conversation; it is within the budget; and as many   *)
(* log-probabilities as tokens means the right ones.                       *)
Encodes(b, messages, tools) == SameConversation(b.text, messages) /\ b.tools = tools

WithinLength(ids) == ResponseLength # None => Len(ids) <= ResponseLength

Sound(b) ==
    /\ WithinLength(b.ids)
    /\ Len(b.lps) <= Len(b.ids)
    /\ Len(b.lps) = Len(b.ids) => b.lps = b.ids

BufferInv ==
    /\ \A c \in DOMAIN chains :
          /\ Sound(chains[c].buffer)
          /\ Encodes(chains[c].buffer, chains[c].history, chains[c].tools)
    /\ \A r \in Requests : InFlight(r) =>
          /\ Sound(work[r].buffer)
          /\ Encodes(work[r].buffer, call[r].messages, call[r].tools)
    /\ \A m \in materialized : m.lps \in {<<>>, m.ids} /\ WithinLength(m.ids)

SafetyInv == CriticalInv /\ ReservationInv /\ GrowthInv /\ BufferInv
=============================================================================
