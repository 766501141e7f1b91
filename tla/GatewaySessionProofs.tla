------------------------ MODULE GatewaySessionProofs ------------------------
(***************************************************************************)
(* Theorems about GatewaySession for every set of requests, calls and      *)
(* lengths, with proofs checked by TLAPS: first its safety; then, with     *)
(* LogInv besides, that it implements ConversationLog and that what        *)
(* finalize returns is in the order the framework relies on.               *)
(***************************************************************************)
EXTENDS GatewaySession, FiniteSetTheorems, SequenceTheorems, TLAPS

USE DEF NewChain

-----------------------------------------------------------------------------
(* Sequences *)

\* Copies of a label are a sequence of the length asked for.
LEMMA CopiesType ==
    ASSUME NEW S, NEW x \in S, NEW n \in Nat
    PROVE  Copies(x, n) \in Seq(S) /\ Len(Copies(x, n)) = n
BY DEF Copies

\* The messages beyond a prefix are messages.
LEMMA BeyondType ==
    ASSUME NEW S, NEW s \in Seq(S), NEW n \in 0..Len(s)
    PROVE  /\ Beyond(s, n) \in Seq(S)
           /\ Len(Beyond(s, n)) = Len(s) - n
           /\ \A i \in 1..(Len(s) - n) : Beyond(s, n)[i] = s[n + i]
BY DEF Beyond

-----------------------------------------------------------------------------
(* Types *)

\* Selections answers a new chain or an active one.
LEMMA SelectionsType ==
    ASSUME NEW k, NEW c \in Selections(k)
    PROVE  c = NewChain \/ c \in Candidates(k)
BY DEF Selections

\* The buffer of a new chain is a buffer.
LEMMA FullEncodingType ==
    ASSUME NEW k \in Calls
    PROVE  FullEncoding(k) \in Buffer
BY CallsAssumption DEF FullEncoding, Buffer, Tokens

\* Growing a buffer by tokens gives a buffer.
LEMMA GrownType ==
    ASSUME NEW b \in Buffer, NEW text \in Seq(Messages), NEW tokens \in Seq(Tokens),
           NEW logprobs \in BOOLEAN
    PROVE  Grown(b, text, tokens, logprobs) \in Buffer
BY DEF Grown, Buffer

\* An incremental encoding of a request that extends the chain is a buffer.
LEMMA IncrementalEncodingType ==
    ASSUME NEW k \in Calls, NEW ch \in Chain, NEW n \in Nat,
           Len(ch.history) <= Len(k.messages)
    PROVE  IncrementalEncoding(k, ch, n) \in Buffer
<1>1. Copies(Context, n) \in Seq(Tokens) BY CopiesType DEF Tokens
<1>2. k.messages \in Seq(Messages) /\ k.logprobs \in BOOLEAN BY CallsAssumption
<1>3. ch.history \in Seq(Messages) /\ Len(ch.history) \in 0..Len(k.messages)
  BY <1>2 DEF Chain
<1>4. Beyond(k.messages, Len(ch.history)) \in Seq(Messages) BY <1>2, <1>3, BeyondType
<1>5. ch.buffer \in Buffer /\ ch.buffer.text \in Seq(Messages) BY DEF Chain, Buffer
<1>6. ch.buffer.text \o Beyond(k.messages, Len(ch.history)) \in Seq(Messages)
  BY <1>4, <1>5
<1> QED BY <1>1, <1>2, <1>5, <1>6, GrownType DEF IncrementalEncoding

\* So is the buffer with the backend's response.
LEMMA ReplyType ==
    ASSUME NEW k \in Calls, NEW b \in Buffer, NEW r \in Requests, NEW n \in Nat
    PROVE  Grown(b, b.text, Copies(r, n), k.logprobs) \in Buffer
<1>1. Copies(r, n) \in Seq(Tokens) BY CopiesType DEF Tokens
<1>2. k.logprobs \in BOOLEAN BY CallsAssumption
<1>3. b.text \in Seq(Messages) BY DEF Buffer
<1> QED BY <1>1, <1>2, <1>3, GrownType

\* What _commit_generation_to_chain stores is a chain.
LEMMA CommittedType ==
    ASSUME NEW r \in Requests, NEW reply \in Replies, call[r] \in Calls,
           work[r].buffer \in Buffer, orderSeq \in Nat
    PROVE  Committed(r, reply) \in Chain
<1>1. call[r].messages \in Seq(Messages) /\ call[r].tools \in Tools BY CallsAssumption
<1>2. Append(call[r].messages, reply) \in Seq(Messages) BY <1>1, RepliesAssumption
<1>3. Append(work[r].buffer.text, reply) \in Seq(Messages) BY RepliesAssumption DEF Buffer
<1>4. [work[r].buffer EXCEPT !.text = Append(@, reply)] \in Buffer BY <1>3 DEF Buffer
<1> QED BY <1>1, <1>2, <1>4 DEF Committed, Chain

\* A materialized chain is a trajectory.
LEMMA MaterializeType ==
    ASSUME NEW c \in DOMAIN chains, chains[c] \in Chain, c \in Nat, NEW order \in Nat
    PROVE  Materialize(c, order) \in Trajectory
BY DEF Materialize, Trajectory, Chain, Buffer

\* Identifiers stay among those handed out.
LEMMA UpTo ==
    ASSUME NEW m \in Nat, NEW n \in Nat, m <= n
    PROVE  1..(m - 1) \subseteq 1..(n - 1)
OBVIOUS

\* Leaving run_generation keeps the types of the requests ...
LEMMA ExitType ==
    ASSUME SessionType, RequestType, NEW r \in Requests, NEW label \in Labels,
           label \notin {"entering", "encoding", "generating", "returning", "decoding"},
           Exit(r, label), nextChain' \in Nat, nextChain <= nextChain'
    PROVE  RequestType'
<1>1. /\ pc' = [pc EXCEPT ![r] = label]
      /\ call' = [call EXCEPT ![r] = None]
      /\ work' = [work EXCEPT ![r] = [chain |-> 0, buffer |-> None]]
  BY DEF Exit, Goto, NoWork
<1>2. pc' \in [Requests -> Labels] /\ call' \in [Requests -> Calls \cup {None}]
  BY <1>1 DEF RequestType
<1>3. work' \in [Requests -> [chain : Nat, buffer : Buffer \cup {None}]]
  BY <1>1 DEF RequestType
<1>4. nextChain \in Nat \ {0} BY DEF SessionType
<1>5. ASSUME NEW q \in Requests PROVE work'[q].chain \in 0..(nextChain' - 1)
  <2>1. work[q].chain \in 0..(nextChain - 1) BY DEF RequestType
  <2>2. work'[q].chain = 0 \/ work'[q].chain = work[q].chain BY <1>1 DEF RequestType
  <2> QED BY <1>4, <2>1, <2>2
<1> QED BY <1>1, <1>2, <1>3, <1>5 DEF RequestType, InFlight

\* ... also when a reservation has yet to be released.
LEMMA LeaveType ==
    ASSUME SessionType, RequestType, NEW r \in Requests, Leave(r), UNCHANGED nextChain
    PROVE  RequestType'
<1>1. CASE work[r].chain = NewChain BY <1>1, ExitType DEF Leave, SessionType, Labels
<1>2. CASE work[r].chain # NewChain
  <2>1. /\ pc' = [pc EXCEPT ![r] = "releasing"]
        /\ call' = [call EXCEPT ![r] = None]
        /\ work' = [work EXCEPT ![r].buffer = None]
    BY <1>2 DEF Leave, Goto
  <2>2. \A q \in Requests : work'[q].chain = work[q].chain BY <2>1 DEF RequestType
  <2> QED BY <2>1, <2>2 DEF RequestType, InFlight, Labels
<1> QED BY <1>1, <1>2

\* The types are preserved by every step; that a selected chain is still active
\* when it is used is what the lock is for.
LEMMA TypeStep == TypeOK /\ CriticalInv /\ [Next]_vars => TypeOK'
<1> SUFFICES ASSUME SessionType, RequestType, CriticalInv, [Next]_vars
             PROVE  SessionType' /\ RequestType'
  BY DEF TypeOK
<1>1. ASSUME NEW r \in Requests, Submit(r) PROVE SessionType' /\ RequestType'
  BY <1>1 DEF Submit, Goto, sessionVars, SessionType, RequestType, InFlight, Labels
<1>2. ASSUME NEW r \in Requests, Refuse(r) PROVE SessionType' /\ RequestType'
  BY <1>2, ExitType DEF Refuse, sessionVars, SessionType, Labels
<1>3. ASSUME NEW r \in Requests, Select(r) PROVE SessionType' /\ RequestType'
  <2>1. PICK c \in Selections(call[r]) : work' = [work EXCEPT ![r].chain = c]
    BY <1>3 DEF Select
  <2>2. c \in 0..(nextChain - 1) /\ c \in Nat
    BY <2>1, SelectionsType DEF Candidates, SessionType
  <2>3. RequestType'
    BY <1>3, <2>1, <2>2 DEF Select, sessionVars, RequestType, Goto, Labels, InFlight
  <2> QED BY <1>3, <2>3 DEF Select, sessionVars, SessionType
<1>4. ASSUME NEW r \in Requests, PrepareNew(r) PROVE SessionType' /\ RequestType'
  <2>1. FullEncoding(call[r]) \in Buffer
    BY <1>4, FullEncodingType DEF PrepareNew, RequestType
  <2>2. RequestType'
    BY <1>4, <2>1 DEF PrepareNew, sessionVars, RequestType, Goto, Labels, InFlight
  <2> QED BY <1>4, <2>2 DEF PrepareNew, sessionVars, SessionType
<1>5. ASSUME NEW r \in Requests, PrepareNext(r) PROVE SessionType' /\ RequestType'
  <2> DEFINE c == work[r].chain
  <2>1. PICK n \in IncrementLengths(call[r], chains[c]) :
           work' = [work EXCEPT ![r].buffer = IncrementalEncoding(call[r], chains[c], n)]
    BY <1>5 DEF PrepareNext
  <2>2. n \in Nat BY LengthsAssumption DEF IncrementLengths
  <2>3. c \in Candidates(call[r]) BY <1>5 DEF PrepareNext, CriticalInv
  <2>4. chains[c] \in Chain /\ Len(chains[c].history) <= Len(call[r].messages)
    BY <2>3 DEF Candidates, PrefixMatches, SessionType
  <2>5. IncrementalEncoding(call[r], chains[c], n) \in Buffer
    BY <1>5, <2>2, <2>4, IncrementalEncodingType DEF PrepareNext, RequestType
  <2>6. RequestType'
    BY <1>5, <2>1, <2>5 DEF PrepareNext, RequestType, Goto, Labels, InFlight
  <2> QED BY <1>5, <2>3, <2>6 DEF PrepareNext, Candidates, SessionType
<1>6. ASSUME NEW r \in Requests, CloseExhausted(r) PROVE SessionType' /\ RequestType'
  <2> DEFINE c == work[r].chain
  <2>1. c \in DOMAIN chains BY <1>6 DEF CloseExhausted, CriticalInv, Candidates
  <2>2. Materialize(c, orderSeq + 1) \in Trajectory BY <2>1, MaterializeType DEF SessionType
  <2>3. RequestType' BY <1>6, ExitType DEF CloseExhausted, SessionType, Labels
  <2> QED BY <1>6, <2>2, <2>3 DEF CloseExhausted, SessionType
<1>7. ASSUME NEW r \in Requests, BackendReturns(r) PROVE SessionType' /\ RequestType'
  <2> DEFINE b == work[r].buffer
  <2>1. PICK n \in ReplyLengths :
           work' = [work EXCEPT ![r].buffer = Grown(b, b.text, Copies(r, n), call[r].logprobs)]
    BY <1>7 DEF BackendReturns
  <2>2. b \in Buffer /\ n \in Nat /\ call[r] \in Calls
    BY <1>7, LengthsAssumption DEF BackendReturns, RequestType, InFlight
  <2>3. Grown(b, b.text, Copies(r, n), call[r].logprobs) \in Buffer BY <2>2, ReplyType
  <2>4. RequestType'
    BY <1>7, <2>1, <2>3 DEF BackendReturns, sessionVars, RequestType, Goto, Labels, InFlight
  <2> QED BY <1>7, <2>4 DEF BackendReturns, sessionVars, SessionType
<1>8. ASSUME NEW r \in Requests, Reenter(r) PROVE SessionType' /\ RequestType'
  <2>1. pc' = [pc EXCEPT ![r] = "decoding"] /\ UNCHANGED <<call, work, nextChain>>
    BY <1>8 DEF Reenter, Goto, sessionVars
  <2>2. InFlight(r) BY <1>8 DEF Reenter, InFlight
  <2>3. RequestType' BY <2>1, <2>2 DEF RequestType, Labels, InFlight
  <2> QED BY <1>8, <2>3 DEF Reenter, sessionVars, SessionType
<1>9. ASSUME NEW r \in Requests, Commit(r) PROVE SessionType' /\ RequestType'
  <2> DEFINE c == IF work[r].chain = NewChain THEN nextChain ELSE work[r].chain
  <2>1. PICK reply \in Replies :
           chains' = [d \in DOMAIN chains \cup {c} |->
                        IF d = c THEN Committed(r, reply) ELSE chains[d]]
    BY <1>9 DEF Commit
  <2>2. Committed(r, reply) \in Chain
    BY <1>9, CommittedType DEF Commit, SessionType, RequestType, InFlight
  <2>3. c \in 1..(nextChain' - 1) /\ nextChain' \in Nat \ {0} /\ nextChain <= nextChain'
    BY <1>9 DEF Commit, SessionType, RequestType
  <2>4. 1..(nextChain - 1) \subseteq 1..(nextChain' - 1) BY <2>3, UpTo DEF SessionType
  <2>5. DOMAIN chains' \subseteq 1..(nextChain' - 1) BY <2>1, <2>3, <2>4 DEF SessionType
  <2>6. \A d \in DOMAIN chains' : chains'[d] \in Chain BY <2>1, <2>2 DEF SessionType
  <2>9. reserved' \subseteq reserved BY <1>9 DEF Commit
  <2>10. reserved \subseteq 1..(nextChain - 1) BY DEF SessionType
  <2>7. reserved' \subseteq 1..(nextChain' - 1) BY <2>4, <2>9, <2>10
  <2>11. orderSeq' \in Nat BY <1>9 DEF Commit, SessionType
  <2>8. RequestType' BY <1>9, <2>3, ExitType DEF Commit, Labels
  <2> QED BY <1>9, <2>3, <2>5, <2>6, <2>7, <2>8, <2>11 DEF Commit, SessionType
<1>10. ASSUME NEW r \in Requests, FailEarly(r) PROVE SessionType' /\ RequestType'
  <2>1. RequestType' BY <1>10, ExitType DEF FailEarly, sessionVars, SessionType, Labels
  <2> QED BY <1>10, <2>1 DEF FailEarly, LockFreed, sessionVars, SessionType
<1>11. ASSUME NEW r \in Requests, FailLate(r) PROVE SessionType' /\ RequestType'
  <2>1. RequestType' BY <1>11, LeaveType DEF FailLate, sessionVars
  <2> QED BY <1>11, <2>1 DEF FailLate, LockFreed, sessionVars, SessionType
<1>12. ASSUME NEW r \in Requests, RefuseLate(r) PROVE SessionType' /\ RequestType'
  <2>1. RequestType' BY <1>12, LeaveType DEF RefuseLate, sessionVars
  <2> QED BY <1>12, <2>1 DEF RefuseLate, sessionVars, SessionType
<1>13. ASSUME NEW r \in Requests, Release(r) PROVE SessionType' /\ RequestType'
  <2>1. RequestType' BY <1>13, ExitType DEF Release, SessionType, Labels
  <2> QED BY <1>13, <2>1 DEF Release, SessionType
<1>14. CASE SetRewardInfo
  BY <1>14 DEF SetRewardInfo, SessionType, RequestType, InFlight
<1>15. CASE Finalize
  <2>1. \A m \in AllMaterialized : m \in Trajectory
    BY MaterializeType DEF AllMaterialized, Chain, SessionType
  <2> QED BY <1>15, <2>1 DEF Finalize, NoChains, SessionType, RequestType, InFlight
<1>16. CASE Abort BY <1>16 DEF Abort, NoChains, SessionType, RequestType, InFlight
<1>17. CASE UNCHANGED vars
  BY <1>17 DEF vars, sessionVars, SessionType, RequestType, InFlight
<1> QED
  BY <1>1, <1>2, <1>3, <1>4, <1>5, <1>6, <1>7, <1>8, <1>9, <1>10, <1>11, <1>12, <1>13,
     <1>14, <1>15, <1>16, <1>17 DEF Next, Advance

-----------------------------------------------------------------------------
(* The lock *)

RequestStep(r) == Submit(r) \/ Advance(r) \/ FailEarly(r) \/ FailLate(r)

\* A request's step leaves the locals of the others alone.
LEMMA Locality ==
    ASSUME RequestType, NEW r \in Requests, RequestStep(r), NEW q \in Requests \ {r}
    PROVE  pc'[q] = pc[q] /\ call'[q] = call[q] /\ work'[q] = work[q]
<1> USE DEF RequestType, Goto, Exit
<1>1. CASE Submit(r) BY <1>1 DEF Submit
<1>2. CASE Refuse(r) BY <1>2 DEF Refuse
<1>3. CASE Select(r) BY <1>3 DEF Select
<1>4. CASE PrepareNew(r) BY <1>4 DEF PrepareNew
<1>5. CASE PrepareNext(r) BY <1>5 DEF PrepareNext
<1>6. CASE CloseExhausted(r) BY <1>6 DEF CloseExhausted
<1>7. CASE BackendReturns(r) BY <1>7 DEF BackendReturns
<1>8. CASE Reenter(r) BY <1>8 DEF Reenter
<1>9. CASE Commit(r) BY <1>9 DEF Commit
<1>10. CASE RefuseLate(r) BY <1>10 DEF RefuseLate, Leave
<1>11. CASE Release(r) BY <1>11 DEF Release
<1>12. CASE FailEarly(r) BY <1>12 DEF FailEarly
<1>13. CASE FailLate(r) BY <1>13 DEF FailLate, Leave
<1> QED
  BY <1>1, <1>2, <1>3, <1>4, <1>5, <1>6, <1>7, <1>8, <1>9, <1>10, <1>11, <1>12, <1>13
  DEF RequestStep, Advance

Critical(r) == pc[r] \in {"encoding", "decoding"}

\* While one request stands at an await inside a critical section, a step of another
\* changes neither the session nor the lock.
LEMMA Exclusion ==
    ASSUME CriticalInv, NEW q \in Requests, Critical(q),
           NEW r \in Requests \ {q}, RequestStep(r)
    PROVE  UNCHANGED <<sessionVars, lock>>
<1>1. lock = q /\ lock # None /\ lock # r
  BY LabelsAssumption DEF CriticalInv, Critical
<1> USE <1>1 DEF sessionVars
<1>2. CASE Submit(r) BY <1>2 DEF Submit
<1>3. CASE Advance(r)
  BY <1>3 DEF Advance, Refuse, Select, PrepareNew, PrepareNext, CloseExhausted,
              BackendReturns, Reenter, Commit, RefuseLate, Release
<1>4. CASE FailEarly(r) BY <1>4 DEF FailEarly, LockFreed
<1>5. CASE FailLate(r) BY <1>5 DEF FailLate, LockFreed
<1> QED BY <1>2, <1>3, <1>4, <1>5 DEF RequestStep

\* With the lock free nobody stands inside a critical section.
LEMMA LockFree ==
    ASSUME CriticalInv, lock = None
    PROVE  \A q \in Requests : ~ Critical(q)
BY LabelsAssumption DEF CriticalInv, Critical

\* What a request's own step leaves it with, if it is in a critical section then.
LEMMA OwnCritical ==
    ASSUME TypeOK, CriticalInv, NEW r \in Requests, RequestStep(r), Critical(r)'
    PROVE  /\ lock' = r /\ phase' = "ACTIVE"
           /\ pc'[r] = "encoding" =>
                 work'[r].chain = NewChain \/ work'[r].chain \in Candidates(call[r])'
<1> USE DEF TypeOK, RequestType, Critical, Goto, Exit
<1>1. CASE Select(r)
  <2>1. PICK c \in Selections(call[r]) : work' = [work EXCEPT ![r].chain = c]
    BY <1>1 DEF Select
  <2>2. work'[r].chain = c /\ (c = NewChain \/ c \in Candidates(call[r]))
    BY <2>1, SelectionsType
  <2>3. UNCHANGED <<chains, reserved, call>> BY <1>1 DEF Select, sessionVars
  <2>4. Candidates(call[r])' = Candidates(call[r]) BY <2>3 DEF Candidates
  <2> QED BY <1>1, <2>2, <2>4 DEF Select, sessionVars
<1>2. CASE Reenter(r) BY <1>2 DEF Reenter, sessionVars
<1>3. CASE Submit(r) BY <1>3 DEF Submit
<1>4. CASE Refuse(r) BY <1>4 DEF Refuse
<1>5. CASE PrepareNew(r) BY <1>5 DEF PrepareNew
<1>6. CASE PrepareNext(r) BY <1>6 DEF PrepareNext
<1>7. CASE CloseExhausted(r) BY <1>7 DEF CloseExhausted
<1>8. CASE BackendReturns(r) BY <1>8 DEF BackendReturns
<1>9. CASE Commit(r) BY <1>9 DEF Commit
<1>10. CASE RefuseLate(r) BY <1>10 DEF RefuseLate, Leave
<1>11. CASE Release(r) BY <1>11 DEF Release
<1>12. CASE FailEarly(r) BY <1>12 DEF FailEarly
<1>13. CASE FailLate(r) BY <1>13 DEF FailLate, Leave
<1> QED
  BY <1>1, <1>2, <1>3, <1>4, <1>5, <1>6, <1>7, <1>8, <1>9, <1>10, <1>11, <1>12, <1>13
  DEF RequestStep, Advance

\* The lock does what it is there for: a selected chain stays as it was found until
\* the request that selected it leaves its critical section.
LEMMA CriticalStep == TypeOK /\ CriticalInv /\ [Next]_vars => CriticalInv'
<1> SUFFICES ASSUME TypeOK, CriticalInv, [Next]_vars, NEW q \in Requests, Critical(q)'
             PROVE  /\ lock' = q /\ phase' = "ACTIVE"
                    /\ pc'[q] = "encoding" =>
                          work'[q].chain = NewChain \/ work'[q].chain \in Candidates(call[q])'
  BY DEF CriticalInv, Critical
<1>1. ASSUME UNCHANGED <<pc[q], call[q], work[q], sessionVars, lock>>
      PROVE  /\ lock' = q /\ phase' = "ACTIVE"
             /\ pc'[q] = "encoding" =>
                   work'[q].chain = NewChain \/ work'[q].chain \in Candidates(call[q])'
  BY <1>1 DEF CriticalInv, Critical, Candidates, sessionVars
<1>2. ASSUME NEW r \in Requests, RequestStep(r), r # q
      PROVE  UNCHANGED <<pc[q], call[q], work[q], sessionVars, lock>>
  <2>1. pc'[q] = pc[q] /\ call'[q] = call[q] /\ work'[q] = work[q]
    BY <1>2, Locality DEF TypeOK
  <2>2. Critical(q) BY <2>1 DEF Critical
  <2> QED BY <1>2, <2>1, <2>2, Exclusion
<1>3. CASE SetRewardInfo \/ Finalize \/ Abort
  <2>1. lock = None /\ UNCHANGED pc BY <1>3 DEF SetRewardInfo, Finalize, Abort
  <2> QED BY <2>1, LockFree DEF Critical
<1>4. CASE UNCHANGED vars BY <1>1, <1>4 DEF vars
<1>5. ASSUME NEW r \in Requests, RequestStep(r)
      PROVE  /\ lock' = q /\ phase' = "ACTIVE"
             /\ pc'[q] = "encoding" =>
                   work'[q].chain = NewChain \/ work'[q].chain \in Candidates(call[q])'
  <2>1. CASE r = q BY <1>5, <2>1, OwnCritical
  <2>2. CASE r # q BY <1>1, <1>2, <1>5, <2>2
  <2> QED BY <2>1, <2>2
<1> QED BY <1>3, <1>4, <1>5 DEF Next, RequestStep

-----------------------------------------------------------------------------
(* Reservations *)

SameHolder(q) == Holder(q)' = Holder(q) /\ (Holder(q) => work'[q].chain = work[q].chain)

\* A step that keeps every holder, the reservations and the reserved chains.
LEMMA KeepHolders ==
    ASSUME ReservationInv, phase' = phase, reserved' = reserved,
           DOMAIN chains \cap reserved \subseteq DOMAIN chains',
           \A q \in Requests : SameHolder(q),
           \A q \in Requests : pc'[q] = "releasing" => work'[q].chain # NewChain
    PROVE  ReservationInv'
BY DEF ReservationInv, SameHolder

\* A step by which r takes the reservation of a chain nobody had.
LEMMA TakeReservation ==
    ASSUME ReservationInv, NEW r \in Requests, NEW c \in DOMAIN chains \ reserved,
           phase' = phase, reserved' = reserved \cup {c}, chains' = chains,
           ~ Holder(r), Holder(r)', work'[r].chain = c,
           \A q \in Requests \ {r} : SameHolder(q),
           \A q \in Requests : pc'[q] = "releasing" => work'[q].chain # NewChain
    PROVE  ReservationInv'
BY DEF ReservationInv, SameHolder

\* A step by which r gives its reservation back.
LEMMA DropReservation ==
    ASSUME ReservationInv, NEW r \in Requests, Holder(r), ~ Holder(r)',
           phase' = phase, reserved' = reserved \ {work[r].chain},
           DOMAIN chains \subseteq DOMAIN chains',
           \A q \in Requests \ {r} : SameHolder(q),
           \A q \in Requests : pc'[q] = "releasing" => work'[q].chain # NewChain
    PROVE  ReservationInv'
<1> USE DEF SameHolder
<1> SUFFICES ASSUME phase = "ACTIVE"
             PROVE  /\ \A p \in Requests : Holder(p)' => work'[p].chain \in DOMAIN chains' \cap reserved'
                    /\ \A p, q \in Requests :
                          Holder(p)' /\ Holder(q)' /\ p # q => work'[p].chain # work'[q].chain
                    /\ \A c \in reserved' : \E p \in Requests : Holder(p)' /\ work'[p].chain = c
  BY DEF ReservationInv
<1>1. \A p \in Requests : Holder(p)' => p # r /\ Holder(p) /\ work'[p].chain = work[p].chain
  OBVIOUS
<1>2. \A p \in Requests : Holder(p)' => work'[p].chain \in DOMAIN chains' \cap reserved'
  BY <1>1 DEF ReservationInv
<1>3. ASSUME NEW c \in reserved' PROVE \E p \in Requests : Holder(p)' /\ work'[p].chain = c
  <2>1. PICK p \in Requests : Holder(p) /\ work[p].chain = c BY <1>3 DEF ReservationInv
  <2> QED BY <1>3, <2>1
<1> QED BY <1>1, <1>2, <1>3 DEF ReservationInv

\* A step of r alone keeps the other holders.
LEMMA OthersSame ==
    ASSUME RequestType, NEW r \in Requests, RequestStep(r)
    PROVE  /\ \A q \in Requests \ {r} : SameHolder(q)
           /\ \A q \in Requests \ {r} : pc'[q] = pc[q] /\ work'[q] = work[q]
BY Locality DEF SameHolder, Holder, Holding, InFlight

\* Reservations are taken, kept and given back by one holder at a time.
LEMMA ReservationStep ==
    TypeOK /\ CriticalInv /\ ReservationInv /\ [Next]_vars => ReservationInv'
<1> SUFFICES ASSUME TypeOK, CriticalInv, ReservationInv, [Next]_vars PROVE ReservationInv'
  OBVIOUS
<1> USE DEF TypeOK, RequestType, Goto, Holder, Holding, InFlight
<1>1. \A q \in Requests : pc[q] = "releasing" => work[q].chain # NewChain
  BY DEF ReservationInv
<1>2. ASSUME NEW r \in Requests, Submit(r) \/ Refuse(r) \/ Select(r) \/ FailEarly(r)
      PROVE  ReservationInv'
  <2>1. RequestStep(r) BY <1>2 DEF RequestStep, Advance
  <2>2. ~ Holder(r) /\ ~ Holder(r)' /\ pc'[r] # "releasing" /\ UNCHANGED sessionVars
    BY <1>2 DEF Submit, Refuse, Select, FailEarly, Exit
  <2> QED BY <1>1, <2>1, <2>2, OthersSame, KeepHolders DEF SameHolder, sessionVars
<1>3. ASSUME NEW r \in Requests, PrepareNew(r) \/ BackendReturns(r) \/ Reenter(r)
      PROVE  ReservationInv'
  <2>1. RequestStep(r) BY <1>3 DEF RequestStep, Advance
  <2>2. SameHolder(r) /\ pc'[r] # "releasing" /\ UNCHANGED sessionVars
    BY <1>3 DEF PrepareNew, BackendReturns, Reenter, SameHolder
  <2> QED BY <1>1, <2>1, <2>2, OthersSame, KeepHolders DEF SameHolder, sessionVars
<1>4. ASSUME NEW r \in Requests, PrepareNext(r) PROVE ReservationInv'
  <2> DEFINE c == work[r].chain
  <2>1. RequestStep(r) BY <1>4 DEF RequestStep, Advance
  <2>2. c \in DOMAIN chains \ reserved BY <1>4 DEF PrepareNext, CriticalInv, Candidates
  <2>3. /\ phase' = phase /\ reserved' = reserved \cup {c} /\ chains' = chains
        /\ ~ Holder(r) /\ Holder(r)' /\ work'[r].chain = c /\ pc'[r] # "releasing"
    BY <1>4 DEF PrepareNext
  <2> QED BY <1>1, <2>1, <2>2, <2>3, OthersSame, TakeReservation
<1>5. ASSUME NEW r \in Requests, CloseExhausted(r) PROVE ReservationInv'
  <2>1. RequestStep(r) BY <1>5 DEF RequestStep, Advance
  <2>2. work[r].chain \notin reserved BY <1>5 DEF CloseExhausted, CriticalInv, Candidates
  <2>3. /\ phase' = phase /\ reserved' = reserved
        /\ DOMAIN chains' = DOMAIN chains \ {work[r].chain}
        /\ ~ Holder(r) /\ ~ Holder(r)' /\ pc'[r] # "releasing"
    BY <1>5 DEF CloseExhausted, Exit
  <2> QED BY <1>1, <2>1, <2>2, <2>3, OthersSame, KeepHolders DEF SameHolder
<1>6. ASSUME NEW r \in Requests, Commit(r) PROVE ReservationInv'
  <2>1. RequestStep(r) BY <1>6 DEF RequestStep, Advance
  <2>2. /\ phase' = phase /\ reserved' = reserved \ {work[r].chain}
        /\ DOMAIN chains \subseteq DOMAIN chains'
        /\ ~ Holder(r)' /\ pc'[r] # "releasing"
    BY <1>6 DEF Commit, Exit
  <2>3. CASE work[r].chain = NewChain
    <3>1. reserved' = reserved BY <2>2, <2>3 DEF SessionType
    <3> QED BY <1>1, <2>1, <2>2, <2>3, <3>1, OthersSame, KeepHolders DEF SameHolder
  <2>4. CASE work[r].chain # NewChain
    <3>1. Holder(r) BY <1>6, <2>4 DEF Commit
    <3> QED BY <1>1, <2>1, <2>2, <3>1, OthersSame, DropReservation
  <2> QED BY <2>3, <2>4
<1>7. ASSUME NEW r \in Requests, FailLate(r) \/ RefuseLate(r) PROVE ReservationInv'
  <2>1. RequestStep(r) BY <1>7 DEF RequestStep, Advance
  <2>2. UNCHANGED sessionVars /\ Leave(r) /\ InFlight(r)
    BY <1>7 DEF FailLate, RefuseLate
  <2>3. SameHolder(r) /\ (pc'[r] = "releasing" => work'[r].chain # NewChain)
    BY <2>2 DEF Leave, Exit, SameHolder
  <2> QED BY <1>1, <2>1, <2>2, <2>3, OthersSame, KeepHolders DEF SameHolder, sessionVars
<1>8. ASSUME NEW r \in Requests, Release(r) PROVE ReservationInv'
  <2>1. RequestStep(r) BY <1>8 DEF RequestStep, Advance
  <2>2. Holder(r) BY <1>1, <1>8 DEF Release
  <2>3. /\ phase' = phase /\ reserved' = reserved \ {work[r].chain} /\ chains' = chains
        /\ ~ Holder(r)' /\ pc'[r] # "releasing"
    BY <1>8 DEF Release, Exit
  <2> QED BY <1>1, <2>1, <2>2, <2>3, OthersSame, DropReservation
<1>9. CASE SetRewardInfo \/ UNCHANGED vars
  <2>1. UNCHANGED <<phase, reserved, chains, pc, work>>
    BY <1>9 DEF SetRewardInfo, vars, sessionVars
  <2> QED BY <1>1, <2>1, KeepHolders DEF SameHolder
<1>10. CASE Finalize \/ Abort
  <2>1. UNCHANGED <<pc, work>> /\ phase' # "ACTIVE" BY <1>10 DEF Finalize, Abort
  <2> QED BY <1>1, <2>1 DEF ReservationInv
<1> QED
  BY <1>2, <1>3, <1>4, <1>5, <1>6, <1>7, <1>8, <1>9, <1>10 DEF Next, Advance

-----------------------------------------------------------------------------
(* Chains in flight *)

\* A step of another request leaves the chain of a holder as it is.
LEMMA ChainKept ==
    ASSUME TypeOK, CriticalInv, ReservationInv, phase = "ACTIVE",
           NEW q \in Requests, Holder(q), NEW r \in Requests \ {q}, RequestStep(r)
    PROVE  /\ work[q].chain \in DOMAIN chains'
           /\ chains'[work[q].chain] = chains[work[q].chain]
<1> DEFINE c == work[q].chain
<1>1. c \in DOMAIN chains /\ c \in reserved BY DEF ReservationInv
<1>2. CASE UNCHANGED chains BY <1>1, <1>2
<1>3. CASE CloseExhausted(r)
  <2>1. work[r].chain \notin reserved BY <1>3 DEF CloseExhausted, CriticalInv, Candidates
  <2>2. chains' = [d \in DOMAIN chains \ {work[r].chain} |-> chains[d]] BY <1>3 DEF CloseExhausted
  <2> QED BY <1>1, <2>1, <2>2
<1>4. CASE Commit(r)
  <2> DEFINE e == IF work[r].chain = NewChain THEN nextChain ELSE work[r].chain
  <2>1. e # c
    <3>1. CASE work[r].chain = NewChain
      BY <1>1, <3>1 DEF TypeOK, SessionType
    <3>2. CASE work[r].chain # NewChain
      BY <1>4, <3>2 DEF Commit, Holder, Holding, InFlight, ReservationInv
    <3> QED BY <3>1, <3>2
  <2>2. PICK reply \in Replies :
           chains' = [d \in DOMAIN chains \cup {e} |->
                        IF d = e THEN Committed(r, reply) ELSE chains[d]]
    BY <1>4 DEF Commit
  <2> QED BY <1>1, <2>1, <2>2
<1> QED
  BY <1>2, <1>3, <1>4
  DEF RequestStep, Advance, sessionVars, Submit, Refuse, Select, PrepareNew, PrepareNext,
      BackendReturns, Reenter, RefuseLate, Release, FailEarly, FailLate

\* Appending keeps a prefix.
LEMMA ExtendsAppend ==
    ASSUME NEW S, NEW s \in Seq(S), NEW t \in Seq(S), NEW u \in Seq(S), Extends(s, t)
    PROVE  Extends(s \o u, t)
BY DEF Extends

\* A chain in flight grows under its request's hands only.
LEMMA GrowthStep ==
    TypeOK /\ CriticalInv /\ ReservationInv /\ GrowthInv /\ [Next]_vars => GrowthInv'
<1> SUFFICES ASSUME TypeOK, CriticalInv, ReservationInv, GrowthInv, [Next]_vars,
                    phase' = "ACTIVE", NEW q \in Requests, InFlight(q)',
                    work'[q].chain # NewChain
             PROVE  /\ Extends(work'[q].buffer.ids, chains'[work'[q].chain].buffer.ids)
                    /\ PrefixMatches(chains'[work'[q].chain].history, call'[q].messages)
  BY DEF GrowthInv
<1> DEFINE Goal == /\ Extends(work'[q].buffer.ids, chains'[work'[q].chain].buffer.ids)
                   /\ PrefixMatches(chains'[work'[q].chain].history, call'[q].messages)
<1> USE DEF TypeOK, RequestType, Goto, InFlight
<1>1. ASSUME InFlight(q), phase = "ACTIVE", UNCHANGED <<pc[q], call[q], work[q]>>,
             chains'[work[q].chain] = chains[work[q].chain]
      PROVE  Goal
  BY <1>1 DEF GrowthInv
<1>2. ASSUME NEW r \in Requests \ {q}, RequestStep(r) PROVE Goal
  <2>1. pc'[q] = pc[q] /\ call'[q] = call[q] /\ work'[q] = work[q] BY <1>2, Locality
  <2>2. phase = "ACTIVE"
    BY <1>2 DEF RequestStep, Advance, sessionVars, Submit, Refuse, Select, PrepareNew,
                PrepareNext, CloseExhausted, BackendReturns, Reenter, Commit, RefuseLate,
                Release, FailEarly, FailLate
  <2>3. InFlight(q) /\ Holder(q) BY <2>1 DEF Holder, Holding
  <2>4. chains'[work[q].chain] = chains[work[q].chain] BY <1>2, <2>2, <2>3, ChainKept
  <2> QED BY <1>1, <2>1, <2>2, <2>3, <2>4
<1>3. CASE PrepareNext(q)
  <2> DEFINE c == work[q].chain
  <2>1. PICK n \in IncrementLengths(call[q], chains[c]) :
           work' = [work EXCEPT ![q].buffer = IncrementalEncoding(call[q], chains[c], n)]
    BY <1>3 DEF PrepareNext
  <2>2. c \in Candidates(call[q]) /\ UNCHANGED <<chains, call>>
    BY <1>3 DEF PrepareNext, CriticalInv
  <2>3. n \in Nat BY LengthsAssumption DEF IncrementLengths
  <2>4. chains[c].buffer.ids \in Seq(Tokens) /\ Copies(Context, n) \in Seq(Tokens)
    BY <2>2, <2>3, CopiesType DEF Candidates, SessionType, Chain, Buffer, Tokens
  <2>5. work'[q].buffer.ids = chains[c].buffer.ids \o Copies(Context, n) /\ work'[q].chain = c
    BY <2>1 DEF IncrementalEncoding, Grown
  <2>6. Extends(chains[c].buffer.ids, chains[c].buffer.ids) BY <2>4 DEF Extends
  <2> HIDE DEF c, TypeOK, RequestType
  <2>7. Extends(chains[c].buffer.ids \o Copies(Context, n), chains[c].buffer.ids)
    BY <2>4, <2>6, ExtendsAppend
  <2>8. PrefixMatches(chains[c].history, call[q].messages) BY <2>2 DEF Candidates
  <2> QED BY <2>2, <2>5, <2>7, <2>8
<1>4. CASE BackendReturns(q)
  <2> DEFINE b == work[q].buffer
             c == work[q].chain
  <2>1. PICK n \in ReplyLengths :
           work' = [work EXCEPT ![q].buffer = Grown(b, b.text, Copies(q, n), call[q].logprobs)]
    BY <1>4 DEF BackendReturns
  <2>2. UNCHANGED <<chains, call, phase>> /\ InFlight(q) BY <1>4 DEF BackendReturns, sessionVars
  <2>3. work'[q].buffer.ids = b.ids \o Copies(q, n) /\ work'[q].chain = c BY <2>1 DEF Grown
  <2>4. c \in DOMAIN chains BY <2>2, <2>3 DEF ReservationInv, Holder, Holding
  <2>5. /\ b.ids \in Seq(Tokens) /\ Copies(q, n) \in Seq(Tokens)
        /\ chains[c].buffer.ids \in Seq(Tokens)
    BY <2>2, <2>4, CopiesType, LengthsAssumption DEF SessionType, Chain, Buffer, Tokens
  <2>6. Extends(b.ids, chains[c].buffer.ids) /\ PrefixMatches(chains[c].history, call[q].messages)
    BY <2>2, <2>3 DEF GrowthInv
  <2> HIDE DEF b, c, TypeOK, RequestType
  <2>7. Extends(b.ids \o Copies(q, n), chains[c].buffer.ids) BY <2>5, <2>6, ExtendsAppend
  <2> QED BY <2>2, <2>3, <2>6, <2>7
<1>5. CASE Reenter(q)
  <2>1. UNCHANGED <<call, work, chains, phase>> /\ InFlight(q)
    BY <1>5 DEF Reenter, sessionVars
  <2> QED BY <2>1 DEF GrowthInv
<1>6. CASE PrepareNew(q) BY <1>6 DEF PrepareNew
<1>7. CASE Submit(q) \/ Refuse(q) \/ Select(q) \/ CloseExhausted(q) \/ Commit(q) \/ Release(q)
           \/ FailEarly(q) \/ FailLate(q) \/ RefuseLate(q)
  BY <1>7 DEF Submit, Refuse, Select, CloseExhausted, Commit, Release, FailEarly, FailLate,
              RefuseLate, Leave, Exit
<1>8. CASE SetRewardInfo \/ UNCHANGED vars
  <2>1. UNCHANGED <<pc, call, work, chains, phase>>
    BY <1>8 DEF SetRewardInfo, vars, sessionVars
  <2> QED BY <1>1, <2>1
<1>9. CASE Finalize \/ Abort BY <1>9 DEF Finalize, Abort
<1> QED
  BY <1>2, <1>3, <1>4, <1>5, <1>6, <1>7, <1>8, <1>9 DEF Next, Advance, RequestStep

-----------------------------------------------------------------------------
(* Buffers *)

\* Tokens appended with their log-probabilities, or without, keep a buffer sound:
\* once a log-probability is missing the count never catches up.
LEMMA SoundGrown ==
    ASSUME NEW b \in Buffer, Sound(b), NEW text, NEW tokens \in Seq(Tokens),
           NEW logprobs \in BOOLEAN, WithinLength(b.ids \o tokens)
    PROVE  Sound(Grown(b, text, tokens, logprobs))
<1> DEFINE g == Grown(b, text, tokens, logprobs)
<1>1. b.ids \in Seq(Tokens) /\ b.lps \in Seq(Tokens) BY DEF Buffer
<1>2. g.ids = b.ids \o tokens /\ g.lps = IF logprobs THEN b.lps \o tokens ELSE b.lps
  BY DEF Grown
<1>3. Len(b.lps) <= Len(b.ids) /\ (Len(b.lps) = Len(b.ids) => b.lps = b.ids) BY DEF Sound
<1>4. Len(g.ids) = Len(b.ids) + Len(tokens) BY <1>1, <1>2
<1>5. CASE logprobs
  <2>1. g.lps = b.lps \o tokens /\ Len(g.lps) = Len(b.lps) + Len(tokens) BY <1>1, <1>2, <1>5
  <2>2. Len(g.lps) <= Len(g.ids) BY <1>1, <1>3, <1>4, <2>1
  <2>3. ASSUME Len(g.lps) = Len(g.ids) PROVE g.lps = g.ids
    <3>1. Len(b.lps) = Len(b.ids) BY <1>1, <1>4, <2>1, <2>3
    <3> QED BY <1>2, <1>3, <2>1, <3>1
  <2> QED BY <1>2, <2>2, <2>3 DEF Sound
<1>6. CASE ~ logprobs
  <2>1. g.lps = b.lps BY <1>2, <1>6
  <2>2. Len(g.lps) <= Len(g.ids) BY <1>1, <1>3, <1>4, <2>1
  <2>3. ASSUME Len(g.lps) = Len(g.ids) PROVE g.lps = g.ids
    <3>1. Len(tokens) = 0 /\ Len(b.lps) = Len(b.ids) BY <1>1, <1>3, <1>4, <2>1, <2>3
    <3>2. tokens = <<>> BY <3>1, EmptySeq
    <3>3. b.ids \o <<>> = b.ids BY <1>1, ConcatEmptySeq
    <3> QED BY <1>2, <1>3, <2>1, <3>1, <3>2, <3>3
  <2> QED BY <1>2, <2>2, <2>3 DEF Sound
<1> QED BY <1>5, <1>6

\* Two forms of a conversation stay so when both get the same reply.
LEMMA ConversationAppend ==
    ASSUME NEW s \in Seq(Messages), NEW t \in Seq(Messages), SameConversation(s, t),
           NEW m \in Messages
    PROVE  SameConversation(Append(s, m), Append(t, m))
BY DEF SameConversation, PrefixMatches

\* A form of the chain's history, continued with what the request adds to that
\* history, is a form of the request's messages.
LEMMA ConversationBeyond ==
    ASSUME NEW s \in Seq(Messages), NEW h \in Seq(Messages), NEW t \in Seq(Messages),
           SameConversation(s, h), PrefixMatches(h, t)
    PROVE  SameConversation(s \o Beyond(t, Len(h)), t)
<1> DEFINE n == Len(h)
           y == Beyond(t, n)
           x == s \o y
<1>1. n \in 0..Len(t) /\ Len(s) = n BY DEF SameConversation, PrefixMatches
<1>2. /\ y \in Seq(Messages) /\ Len(y) = Len(t) - n
      /\ \A i \in 1..(Len(t) - n) : y[i] = t[n + i]
  BY <1>1, BeyondType
<1>3. /\ Len(x) = Len(s) + Len(y)
      /\ \A i \in 1..(Len(s) + Len(y)) : x[i] = IF i <= Len(s) THEN s[i] ELSE y[i - Len(s)]
  <2> HIDE DEF y
  <2> QED BY <1>2, ConcatProperties
<1> HIDE DEF x, y
<1>4. Len(x) = Len(t) BY <1>1, <1>2, <1>3
<1>5. ASSUME NEW i \in 1..Len(t) PROVE CanonicalForm[x[i]] = CanonicalForm[t[i]]
  <2>1. CASE i <= n
    <3>1. x[i] = s[i] BY <1>1, <1>2, <1>3, <2>1
    <3>2. CanonicalForm[s[i]] = CanonicalForm[h[i]] /\ CanonicalForm[h[i]] = CanonicalForm[t[i]]
      BY <1>1, <2>1 DEF SameConversation, PrefixMatches
    <3> QED BY <3>1, <3>2
  <2>2. CASE i > n
    <3>1. i - n \in 1..(Len(t) - n) BY <1>1, <2>2
    <3>2. x[i] = y[i - n] BY <1>1, <1>2, <1>3, <2>2
    <3>3. y[i - n] = t[n + (i - n)] BY <1>2, <3>1
    <3> QED BY <1>1, <3>2, <3>3
  <2> QED BY <1>1, <2>1, <2>2
<1>6. SameConversation(x, t) BY <1>4, <1>5 DEF SameConversation, PrefixMatches
<1> QED BY <1>6 DEF x, y

\* The buffer of a new chain.
LEMMA NewBuffer ==
    ASSUME NEW k \in Calls
    PROVE  /\ Sound(FullEncoding(k))
           /\ Encodes(FullEncoding(k), k.messages, k.tools)
BY CallsAssumption, BudgetAssumption
DEF FullEncoding, Sound, WithinLength, Encodes, SameConversation, PrefixMatches

\* The working buffer of a continuation.
LEMMA NextBuffer ==
    ASSUME NEW k \in Calls, NEW ch \in Chain, NEW n \in Nat,
           Sound(ch.buffer), Encodes(ch.buffer, ch.history, ch.tools),
           ch.tools = k.tools, PrefixMatches(ch.history, k.messages),
           ~ Exhausted(Len(ch.buffer.ids) + n)
    PROVE  /\ Sound(IncrementalEncoding(k, ch, n))
           /\ Encodes(IncrementalEncoding(k, ch, n), k.messages, k.tools)
<1> DEFINE b == ch.buffer
           x == Copies(Context, n)
           text == b.text \o Beyond(k.messages, Len(ch.history))
           e == Grown(b, text, x, k.logprobs)
<1>1. e = IncrementalEncoding(k, ch, n) BY DEF IncrementalEncoding
<1>2. b \in Buffer /\ b.ids \in Seq(Tokens) /\ b.text \in Seq(Messages) /\ ch.history \in Seq(Messages)
  BY DEF Chain, Buffer
<1>3. k.messages \in Seq(Messages) /\ k.logprobs \in BOOLEAN BY CallsAssumption
<1>4. x \in Seq(Tokens) /\ Len(x) = n BY CopiesType DEF Tokens
<1>5. WithinLength(b.ids \o x) BY <1>2, <1>4, BudgetAssumption DEF WithinLength, Exhausted
<1>6. Sound(e) BY <1>2, <1>3, <1>4, <1>5, SoundGrown
<1>7. SameConversation(text, k.messages) BY <1>2, <1>3, ConversationBeyond DEF Encodes
<1>8. e.text = text /\ e.tools = b.tools BY DEF Grown
<1> QED BY <1>1, <1>6, <1>7, <1>8 DEF Encodes

\* The working buffer once the backend has answered.
LEMMA RepliedBuffer ==
    ASSUME NEW k \in Calls, NEW b \in Buffer, NEW r \in Requests, NEW n \in Nat,
           Sound(b), Encodes(b, k.messages, k.tools),
           ResponseLength # None => n <= ResponseLength - Len(b.ids)
    PROVE  LET g == Grown(b, b.text, Copies(r, n), k.logprobs)
           IN  Sound(g) /\ Encodes(g, k.messages, k.tools)
<1> DEFINE x == Copies(r, n)
           g == Grown(b, b.text, x, k.logprobs)
<1>1. b.ids \in Seq(Tokens) /\ k.logprobs \in BOOLEAN BY CallsAssumption DEF Buffer
<1>2. x \in Seq(Tokens) /\ Len(x) = n BY CopiesType DEF Tokens
<1>3. WithinLength(b.ids \o x) BY <1>1, <1>2, BudgetAssumption DEF WithinLength
<1>4. Sound(g) BY <1>1, <1>2, <1>3, SoundGrown
<1>5. g.text = b.text /\ g.tools = b.tools BY DEF Grown
<1> QED BY <1>4, <1>5 DEF Encodes

\* A chain after a commit: the same reply joins its text and its history.
LEMMA CommittedBuffer ==
    ASSUME NEW r \in Requests, NEW reply \in Replies, TypeOK, InFlight(r),
           Sound(work[r].buffer),
           Encodes(work[r].buffer, call[r].messages, call[r].tools)
    PROVE  LET ch == Committed(r, reply)
           IN  Sound(ch.buffer) /\ Encodes(ch.buffer, ch.history, ch.tools)
<1> DEFINE b == work[r].buffer
           k == call[r]
           ch == Committed(r, reply)
<1>1. b \in Buffer /\ k \in Calls BY DEF TypeOK, RequestType
<1>2. b.text \in Seq(Messages) /\ k.messages \in Seq(Messages) /\ reply \in Messages
  BY <1>1, CallsAssumption, RepliesAssumption DEF Buffer
<1>3. /\ ch.history = Append(k.messages, reply) /\ ch.tools = k.tools
      /\ ch.buffer.text = Append(b.text, reply)
      /\ ch.buffer.ids = b.ids /\ ch.buffer.lps = b.lps /\ ch.buffer.tools = b.tools
  BY <1>1 DEF Committed, Buffer
<1>4. SameConversation(Append(b.text, reply), Append(k.messages, reply))
  BY <1>2, ConversationAppend DEF Encodes
<1> QED BY <1>3, <1>4 DEF Sound, Encodes

\* A trajectory made from a sound buffer has all its log-probabilities or none.
LEMMA MaterializedBuffer ==
    ASSUME NEW c \in DOMAIN chains, NEW order, Sound(chains[c].buffer)
    PROVE  LET m == Materialize(c, order)
           IN  m.lps \in {<<>>, m.ids} /\ WithinLength(m.ids)
BY DEF Materialize, Sound

\* Buffers stay sound, and keep encoding their conversations.
LEMMA BufferStep ==
    TypeOK /\ CriticalInv /\ ReservationInv /\ BufferInv /\ [Next]_vars => BufferInv'
<1> SUFFICES ASSUME TypeOK, CriticalInv, ReservationInv, BufferInv, [Next]_vars
             PROVE  BufferInv'
  OBVIOUS
<1> USE DEF TypeOK, RequestType, Goto, InFlight
<1> DEFINE ChainOK(ch) == Sound(ch.buffer) /\ Encodes(ch.buffer, ch.history, ch.tools)
           WorkOK(w, k) == Sound(w.buffer) /\ Encodes(w.buffer, k.messages, k.tools)
           MadeOK(m) == m.lps \in {<<>>, m.ids} /\ WithinLength(m.ids)
           ChainsOK == \A c \in DOMAIN chains : ChainOK(chains[c])
           AllMadeOK == \A m \in materialized : MadeOK(m)
<1>1. ChainsOK /\ AllMadeOK /\ \A r \in Requests : InFlight(r) => WorkOK(work[r], call[r])
  BY DEF BufferInv
<1>2. SUFFICES ChainsOK' /\ AllMadeOK' /\ \A r \in Requests : InFlight(r)' => WorkOK(work'[r], call'[r])
  BY DEF BufferInv
<1> HIDE DEF ChainOK, WorkOK, MadeOK
<1> DEFINE Goal == /\ ChainsOK' /\ AllMadeOK'
                   /\ \A r \in Requests : InFlight(r)' => WorkOK(work'[r], call'[r])
<1>3. ASSUME NEW r \in Requests, RequestStep(r), ChainsOK', AllMadeOK',
             InFlight(r)' => WorkOK(work'[r], call'[r])
      PROVE  Goal
  <2>1. ASSUME NEW q \in Requests, InFlight(q)' PROVE WorkOK(work'[q], call'[q])
    <3>1. CASE q = r BY <1>3, <2>1, <3>1
    <3>2. CASE q # r
      <4>1. pc'[q] = pc[q] /\ call'[q] = call[q] /\ work'[q] = work[q] BY <1>3, <3>2, Locality
      <4> QED BY <1>1, <2>1, <4>1
    <3> QED BY <3>1, <3>2
  <2> QED BY <1>3, <2>1
<1>4. UNCHANGED chains => ChainsOK' BY <1>1
<1>5. UNCHANGED materialized => AllMadeOK' BY <1>1
<1>6. ASSUME NEW r \in Requests,
             Submit(r) \/ Refuse(r) \/ Select(r) \/ FailEarly(r) \/ FailLate(r)
             \/ RefuseLate(r) \/ Release(r)
      PROVE  Goal
  <2>1. RequestStep(r) BY <1>6 DEF RequestStep, Advance
  <2>2. UNCHANGED <<chains, materialized>>
    BY <1>6 DEF Submit, Refuse, Select, FailEarly, FailLate, RefuseLate, Release, sessionVars
  <2>3. ~ InFlight(r)'
    BY <1>6 DEF Submit, Refuse, Select, FailEarly, FailLate, RefuseLate, Release, Leave, Exit
  <2> QED BY <1>3, <1>4, <1>5, <2>1, <2>2, <2>3
<1>7. ASSUME NEW r \in Requests, PrepareNew(r) PROVE Goal
  <2>1. RequestStep(r) BY <1>7 DEF RequestStep, Advance
  <2>2. UNCHANGED <<chains, materialized>> BY <1>7 DEF PrepareNew, sessionVars
  <2>3. call[r] \in Calls /\ call'[r] = call[r] /\ work'[r].buffer = FullEncoding(call[r])
    BY <1>7 DEF PrepareNew
  <2>4. WorkOK(work'[r], call'[r]) BY <2>3, NewBuffer DEF WorkOK
  <2> QED BY <1>3, <1>4, <1>5, <2>1, <2>2, <2>4
<1>8. ASSUME NEW r \in Requests, PrepareNext(r) PROVE Goal
  <2> DEFINE c == work[r].chain
  <2>1. RequestStep(r) BY <1>8 DEF RequestStep, Advance
  <2>2. UNCHANGED <<chains, materialized, call>> BY <1>8 DEF PrepareNext
  <2>3. PICK n \in IncrementLengths(call[r], chains[c]) :
           /\ ~ Exhausted(Len(chains[c].buffer.ids) + n)
           /\ work' = [work EXCEPT ![r].buffer = IncrementalEncoding(call[r], chains[c], n)]
    BY <1>8 DEF PrepareNext
  <2>4. n \in Nat BY LengthsAssumption DEF IncrementLengths
  <2>5. call[r] \in Calls /\ c \in Candidates(call[r]) BY <1>8 DEF PrepareNext, CriticalInv
  <2>6. /\ chains[c] \in Chain /\ ChainOK(chains[c])
        /\ chains[c].tools = call[r].tools /\ PrefixMatches(chains[c].history, call[r].messages)
    BY <1>1, <2>5 DEF Candidates, SessionType
  <2>7. work'[r].buffer = IncrementalEncoding(call[r], chains[c], n) BY <2>3
  <2>8. WorkOK(work'[r], call'[r])
    BY <2>2, <2>3, <2>4, <2>5, <2>6, <2>7, NextBuffer DEF WorkOK, ChainOK
  <2> QED BY <1>3, <1>4, <1>5, <2>1, <2>2, <2>8
<1>9. ASSUME NEW r \in Requests, CloseExhausted(r) PROVE Goal
  <2> DEFINE c == work[r].chain
  <2>1. RequestStep(r) BY <1>9 DEF RequestStep, Advance
  <2>2. /\ chains' = [d \in DOMAIN chains \ {c} |-> chains[d]]
        /\ materialized' = materialized \cup {Materialize(c, orderSeq + 1)}
        /\ ~ InFlight(r)'
    BY <1>9 DEF CloseExhausted, Exit
  <2>3. c \in DOMAIN chains BY <1>9 DEF CloseExhausted, CriticalInv, Candidates
  <2>4. MadeOK(Materialize(c, orderSeq + 1))
    BY <1>1, <2>3, MaterializedBuffer DEF MadeOK, ChainOK
  <2>5. ChainsOK' /\ AllMadeOK' BY <1>1, <2>2, <2>4
  <2> QED BY <1>3, <2>1, <2>2, <2>5
<1>10. ASSUME NEW r \in Requests, BackendReturns(r) PROVE Goal
  <2> DEFINE b == work[r].buffer
  <2>1. RequestStep(r) BY <1>10 DEF RequestStep, Advance
  <2>2. UNCHANGED <<chains, materialized, call>> BY <1>10 DEF BackendReturns, sessionVars
  <2>3. PICK n \in ReplyLengths :
           /\ WithinBudget(r, n)
           /\ work' = [work EXCEPT ![r].buffer = Grown(b, b.text, Copies(r, n), call[r].logprobs)]
    BY <1>10 DEF BackendReturns
  <2>4. n \in Nat /\ b \in Buffer /\ call[r] \in Calls /\ WorkOK(work[r], call[r])
    BY <1>1, <1>10, LengthsAssumption DEF BackendReturns
  <2>5. work'[r].buffer = Grown(b, b.text, Copies(r, n), call[r].logprobs) BY <2>3
  <2>6. WorkOK(work'[r], call'[r])
    BY <2>2, <2>3, <2>4, <2>5, RepliedBuffer DEF WorkOK, WithinBudget
  <2> QED BY <1>3, <1>4, <1>5, <2>1, <2>2, <2>6
<1>11. ASSUME NEW r \in Requests, Reenter(r) PROVE Goal
  <2>1. RequestStep(r) BY <1>11 DEF RequestStep, Advance
  <2>2. UNCHANGED <<chains, materialized, call, work>> /\ InFlight(r)
    BY <1>11 DEF Reenter, sessionVars
  <2> QED BY <1>1, <1>3, <1>4, <1>5, <2>1, <2>2
<1>12. ASSUME NEW r \in Requests, Commit(r) PROVE Goal
  <2> DEFINE e == IF work[r].chain = NewChain THEN nextChain ELSE work[r].chain
  <2>1. RequestStep(r) BY <1>12 DEF RequestStep, Advance
  <2>2. UNCHANGED materialized /\ InFlight(r) /\ ~ InFlight(r)' BY <1>12 DEF Commit, Exit
  <2>3. PICK reply \in Replies :
           chains' = [d \in DOMAIN chains \cup {e} |->
                         IF d = e THEN Committed(r, reply) ELSE chains[d]]
    BY <1>12 DEF Commit
  <2>4. ChainOK(Committed(r, reply)) BY <1>1, <2>2, CommittedBuffer DEF ChainOK, WorkOK
  <2>5. ChainsOK' BY <1>1, <2>3, <2>4
  <2> QED BY <1>3, <1>5, <2>1, <2>2, <2>5
<1>13. CASE SetRewardInfo \/ UNCHANGED vars
  <2>1. UNCHANGED <<chains, materialized, pc, call, work>>
    BY <1>13 DEF SetRewardInfo, vars, sessionVars
  <2> QED BY <1>1, <1>4, <1>5, <2>1
<1>14. CASE Finalize
  <2>1. /\ UNCHANGED <<pc, call, work>> /\ DOMAIN chains' = {}
        /\ materialized' = AllMaterialized
    BY <1>14 DEF Finalize, NoChains
  <2>2. \A c \in DOMAIN chains : MadeOK(Materialize(c, chains[c].seq))
    BY <1>1, MaterializedBuffer DEF MadeOK, ChainOK
  <2>3. ChainsOK' /\ AllMadeOK' BY <1>1, <2>1, <2>2 DEF AllMaterialized
  <2> QED BY <1>1, <2>1, <2>3
<1>15. CASE Abort
  <2>1. UNCHANGED <<pc, call, work>> /\ DOMAIN chains' = {} /\ materialized' = {}
    BY <1>15 DEF Abort, NoChains
  <2> QED BY <1>1, <2>1
<1> QED
  BY <1>6, <1>7, <1>8, <1>9, <1>10, <1>11, <1>12, <1>13, <1>14, <1>15, <1>2
  DEF Next, Advance

-----------------------------------------------------------------------------
(* Theorems *)

\* A session starts with no chain, no reservation and no request in it.
LEMMA InitSafety == Init => TypeOK /\ SafetyInv
<1> SUFFICES ASSUME Init PROVE TypeOK /\ SafetyInv
  OBVIOUS
<1> USE DEF Init, NoChains, NoWork, InFlight
<1>1. TypeOK BY DEF TypeOK, SessionType, RequestType, Labels
<1>2. CriticalInv BY DEF CriticalInv
<1>3. ReservationInv BY DEF ReservationInv, Holder, Holding
<1>4. GrowthInv BY DEF GrowthInv
<1>5. BufferInv BY DEF BufferInv
<1> QED BY <1>1, <1>2, <1>3, <1>4, <1>5 DEF SafetyInv

\* Every step of the session keeps the inductive invariant.
LEMMA StepSafety == TypeOK /\ SafetyInv /\ [Next]_vars => (TypeOK /\ SafetyInv)'
BY TypeStep, CriticalStep, ReservationStep, GrowthStep, BufferStep DEF SafetyInv

\* The inductive invariant of a session holds at all times, whatever the
\* requests, their interleaving and their failures.
THEOREM Safety == Spec => [](TypeOK /\ SafetyInv)
BY InitSafety, StepSafety, PTL DEF Spec

\* Type correctness: buffers exist from the first critical section on, chain
\* identifiers are among those handed out.
THEOREM TypeCorrect == Spec => []TypeOK
BY Safety, PTL

\* No lost update: from the first critical section to the commit a request owns
\* the chain it extends, so the commit replaces nothing it has not seen.
THEOREM NoLostUpdate == Spec => []InFlightOwnsChain
<1>1. TypeOK /\ SafetyInv => InFlightOwnsChain
  <2> SUFFICES ASSUME TypeOK, SafetyInv, phase = "ACTIVE",
                      NEW r \in Requests, InFlight(r), work[r].chain # NewChain
               PROVE  /\ work[r].chain \in DOMAIN chains \cap reserved
                      /\ Extends(work[r].buffer.ids, chains[work[r].chain].buffer.ids)
                      /\ PrefixMatches(chains[work[r].chain].history, call[r].messages)
                      /\ \A q \in Requests \ {r} :
                            InFlight(q) => work[q].chain # work[r].chain
    BY DEF InFlightOwnsChain
  <2>1. Holder(r) BY DEF Holder, Holding
  <2>2. ASSUME NEW q \in Requests \ {r}, InFlight(q) PROVE work[q].chain # work[r].chain
    <3>1. CASE work[q].chain = NewChain BY <3>1
    <3>2. CASE work[q].chain # NewChain
      <4>1. Holder(q) BY <2>2, <3>2 DEF Holder, Holding
      <4> QED BY <2>1, <4>1 DEF SafetyInv, ReservationInv
    <3> QED BY <3>1, <3>2
  <2> QED BY <2>1, <2>2 DEF SafetyInv, ReservationInv, GrowthInv
<1> QED BY <1>1, Safety, PTL

\* No leaked reservation: what is reserved in an active session is exactly what a
\* request in flight, or about to release, was prepared from.
THEOREM NoLeakedReservation == Spec => []ReservationsAreHeld
<1>1. TypeOK /\ SafetyInv => ReservationsAreHeld
  <2> SUFFICES ASSUME TypeOK, SafetyInv, phase = "ACTIVE"
               PROVE  reserved = {work[r].chain : r \in {q \in Requests : Holding(q)}} \ {NewChain}
    BY DEF ReservationsAreHeld
  <2>1. ASSUME NEW c \in reserved
        PROVE  c \in {work[r].chain : r \in {q \in Requests : Holding(q)}} \ {NewChain}
    BY DEF SafetyInv, ReservationInv, Holder
  <2>2. ASSUME NEW r \in Requests, Holding(r), work[r].chain # NewChain
        PROVE  work[r].chain \in reserved
    BY <2>2 DEF SafetyInv, ReservationInv, Holder
  <2> QED BY <2>1, <2>2
<1> QED BY <1>1, Safety, PTL

\* What a chain would be trained on encodes the conversation that was had.
THEOREM TrainedAsSpoken == Spec => []BufferEncodesConversation
<1>1. SafetyInv => BufferEncodesConversation
  BY DEF SafetyInv, BufferInv, BufferEncodesConversation, Encodes
<1> QED BY <1>1, Safety, PTL

\* A trajectory has the log-probability of each of its tokens, or none at all.
THEOREM Aligned == Spec => []LogprobsAligned
<1>1. SafetyInv => LogprobsAligned BY DEF SafetyInv, BufferInv, LogprobsAligned
<1> QED BY <1>1, Safety, PTL

\* No chain outgrows the response budget.
THEOREM WithinResponseLength == Spec => []BudgetRespected
<1>1. SafetyInv => BudgetRespected
  BY DEF SafetyInv, BufferInv, BudgetRespected, Sound, WithinLength
<1> QED BY <1>1, Safety, PTL

\* A session that was finalized or aborted never changes again, whatever was in
\* flight: nobody is inside a critical section when it closes.
THEOREM Frozen == Spec => ClosedSessionIsFrozen
<1>1. TypeOK /\ SafetyInv /\ [Next]_vars =>
        [phase # "ACTIVE" => UNCHANGED <<phase, chains, materialized, rewardInfo, returned>>]_vars
  <2> SUFFICES ASSUME SafetyInv, Next, phase # "ACTIVE"
               PROVE  UNCHANGED <<phase, chains, materialized, rewardInfo, returned>>
    BY DEF vars, sessionVars
  <2>1. \A r \in Requests : pc[r] \notin {"encoding", "decoding"}
    BY DEF SafetyInv, CriticalInv
  <2>2. ASSUME NEW r \in Requests, RequestStep(r)
        PROVE  UNCHANGED <<phase, chains, materialized, rewardInfo, returned>>
    BY <2>1, <2>2
    DEF RequestStep, Advance, sessionVars, Submit, Refuse, Select, PrepareNew, PrepareNext,
        CloseExhausted, BackendReturns, Reenter, Commit, RefuseLate, Release, FailEarly, FailLate
  <2>3. ~ SetRewardInfo /\ ~ Finalize /\ ~ Abort BY DEF SetRewardInfo, Finalize, Abort
  <2> QED BY <2>2, <2>3 DEF Next, RequestStep
<1> QED BY <1>1, Safety, PTL DEF Spec, ClosedSessionIsFrozen

-----------------------------------------------------------------------------
(* The log: the inductive invariant *)

(* The response tokens a request in flight was prepared with.              *)
Before(r) == IF work[r].chain = NewChain THEN <<>> ELSE chains[work[r].chain].buffer.ids

(* new is old with context tokens added.                                   *)
AddsContext(old, new) ==
    Extends(new, old) /\ \A i \in Len(old) + 1 .. Len(new) : new[i] = Context

(* The working buffer is on its way to be one turn of the request.         *)
TurnInv ==
    phase = "ACTIVE" =>
        \A r \in Requests : InFlight(r) =>
            IF pc[r] = "generating"
            THEN AddsContext(Before(r), work[r].buffer.ids)
            ELSE Log!IsTurn(r, Before(r), work[r].buffer.ids)

(* Closed chains have old numbers, and nothing closed or open shares its   *)
(* place in the order; the latest place is taken.                          *)
OrderInv ==
    /\ IsFiniteSet(materialized)
    /\ \A m \in materialized : m.chain < nextChain /\ m.order <= orderSeq
    /\ \A c \in DOMAIN chains : chains[c].seq <= orderSeq
    /\ \A m, n \in materialized : m.order = n.order => m = n
    /\ \A c, d \in DOMAIN chains : chains[c].seq = chains[d].seq => c = d
    /\ \A m \in materialized, c \in DOMAIN chains : m.order # chains[c].seq
    /\ orderSeq > 0 /\ phase # "ABORTED" =>
          \/ \E m \in materialized : m.order = orderSeq
          \/ \E c \in DOMAIN chains : chains[c].seq = orderSeq

(* What was returned is what is there.                                     *)
ReturnedInv ==
    returned # None =>
        phase = "FINALIZED" /\ DOMAIN chains = {} /\ returned = InOrder(materialized)

LogInv == TurnInv /\ OrderInv /\ ReturnedInv

-----------------------------------------------------------------------------
(* The order *)

Upto(S, m) == {k \in S : k.order <= m.order}

\* Among trajectories with places of their own, the later one has more before it.
LEMMA RankGrows ==
    ASSUME NEW S, IsFiniteSet(S), \A m \in S : m.order \in Nat,
           NEW m \in S, NEW n \in S, m.order < n.order
    PROVE  Cardinality(Upto(S, m)) < Cardinality(Upto(S, n))
<1>1. Upto(S, m) \subseteq Upto(S, n) /\ n \in Upto(S, n) /\ n \notin Upto(S, m) BY DEF Upto
<1>2. Upto(S, n) \subseteq S BY DEF Upto
<1>3. IsFiniteSet(Upto(S, n)) BY <1>2, FS_Subset
<1>4. /\ IsFiniteSet(Upto(S, m)) /\ Cardinality(Upto(S, m)) <= Cardinality(Upto(S, n))
      /\ Cardinality(Upto(S, m)) # Cardinality(Upto(S, n))
  BY <1>1, <1>3, FS_Subset
<1>5. Cardinality(Upto(S, m)) \in Nat /\ Cardinality(Upto(S, n)) \in Nat
  BY <1>3, <1>4, FS_CardinalityType
<1> QED BY <1>4, <1>5

\* sorted() returns every trajectory once, in increasing order.
LEMMA InOrderIs ==
    ASSUME NEW S, IsFiniteSet(S), \A m \in S : m.order \in Nat,
           \A m, n \in S : m.order = n.order => m = n
    PROVE  /\ Cardinality(S) \in Nat /\ Len(InOrder(S)) = Cardinality(S)
           /\ \A i \in 1 .. Cardinality(S) : InOrder(S)[i] \in S
           /\ \A m \in S : \E i \in 1 .. Cardinality(S) : InOrder(S)[i] = m
           /\ \A i, j \in 1 .. Cardinality(S) :
                  j < i => InOrder(S)[j].order < InOrder(S)[i].order
<1> DEFINE N == Cardinality(S)
           Rank(m) == Cardinality(Upto(S, m))
           f == [m \in S |-> Rank(m)]
<1>1. N \in Nat BY FS_CardinalityType
<1>2. ASSUME NEW m \in S PROVE Rank(m) \in 1 .. N
  <2>1. Upto(S, m) \subseteq S /\ Upto(S, m) # {} BY DEF Upto
  <2>2. IsFiniteSet(Upto(S, m)) /\ Rank(m) <= N BY <2>1, FS_Subset
  <2>3. Rank(m) \in Nat /\ Rank(m) # 0 BY <2>1, <2>2, FS_CardinalityType, FS_EmptySet
  <2> QED BY <1>1, <2>2, <2>3
<1> HIDE DEF N, Rank
<1>3. \A m, n \in S : m.order < n.order => Rank(m) < Rank(n) BY RankGrows DEF Rank
<1>4. \A m, n \in S : m # n => m.order < n.order \/ n.order < m.order OBVIOUS
<1>5. \A m, n \in S : Rank(m) = Rank(n) => m = n BY <1>1, <1>2, <1>3, <1>4
<1>6. f \in Injection(S, 1 .. N) BY <1>2, <1>5 DEF Injection, IsInjective
<1>7. IsFiniteSet(1 .. N) /\ Cardinality(1 .. N) = N BY <1>1, FS_Interval
<1>8. f \in Surjection(S, 1 .. N)
  <2> HIDE DEF f
  <2> QED BY <1>6, <1>7, FS_Injection DEF N
<1>9. \A i \in 1 .. N : \E m \in S : Rank(m) = i BY <1>8 DEF Surjection
<1>10. InOrder(S) = [i \in 1 .. N |-> CHOOSE m \in S : Rank(m) = i] BY DEF InOrder, N, Rank, Upto
<1>11. \A i \in 1 .. N : InOrder(S)[i] \in S /\ Rank(InOrder(S)[i]) = i BY <1>9, <1>10
<1>12. Len(InOrder(S)) = N BY <1>1, <1>10
<1>13. ASSUME NEW m \in S PROVE \E i \in 1 .. N : InOrder(S)[i] = m
  BY <1>2, <1>5, <1>11
<1>14. ASSUME NEW i \in 1 .. N, NEW j \in 1 .. N, j < i
       PROVE  InOrder(S)[j].order < InOrder(S)[i].order
  BY <1>1, <1>3, <1>4, <1>11, <1>14
<1> QED BY <1>1, <1>11, <1>12, <1>13, <1>14 DEF N

\* What a materialized chain is.
LEMMA MaterializeIs ==
    ASSUME NEW c, NEW order
    PROVE  /\ Materialize(c, order).chain = c /\ Materialize(c, order).order = order
           /\ Materialize(c, order).ids = chains[c].buffer.ids
BY DEF Materialize

\* There are finitely many trajectories, the open chains' included.
LEMMA AllFinite ==
    ASSUME TypeOK, IsFiniteSet(materialized)
    PROVE  IsFiniteSet(AllMaterialized)
<1> DEFINE f == [c \in DOMAIN chains |-> Materialize(c, chains[c].seq)]
           T == {Materialize(c, chains[c].seq) : c \in DOMAIN chains}
<1>1. IsFiniteSet(DOMAIN chains)
  <2>1. DOMAIN chains \subseteq 1 .. (nextChain - 1) /\ nextChain \in Nat
    BY DEF TypeOK, SessionType
  <2>2. IsFiniteSet(1 .. (nextChain - 1)) BY <2>1, FS_Interval
  <2> QED BY <2>1, <2>2, FS_Subset
<1>2. f \in Surjection(DOMAIN chains, T) BY DEF Surjection
<1>3. IsFiniteSet(T)
  <2> HIDE DEF f, T
  <2> QED BY <1>1, <1>2, FS_Surjection
<1> QED BY <1>3, FS_Union DEF AllMaterialized

\* Every commit and every close takes the next place; finalize keeps all places.
LEMMA OrderStep ==
    TypeOK /\ CriticalInv /\ OrderInv /\ [Next]_vars => OrderInv'
<1> SUFFICES ASSUME TypeOK, CriticalInv, OrderInv, [Next]_vars PROVE OrderInv'
  OBVIOUS
<1>1. /\ orderSeq \in Nat /\ nextChain \in Nat
      /\ \A m \in materialized : m.order \in Nat /\ m.chain \in Nat
      /\ \A c \in DOMAIN chains : chains[c].seq \in Nat /\ c \in Nat /\ c < nextChain
  BY DEF TypeOK, SessionType, Trajectory, Chain
<1>2. CASE UNCHANGED <<materialized, chains, orderSeq, nextChain, phase>>
  BY <1>2 DEF OrderInv
<1>3. ASSUME NEW r \in Requests, CloseExhausted(r) PROVE OrderInv'
  <2> DEFINE c == work[r].chain
             t == Materialize(c, orderSeq + 1)
  <2>1. c \in DOMAIN chains BY <1>3 DEF CloseExhausted, CriticalInv, Candidates
  <2>2. /\ chains' = [d \in DOMAIN chains \ {c} |-> chains[d]]
        /\ materialized' = materialized \cup {t} /\ orderSeq' = orderSeq + 1
        /\ UNCHANGED <<phase, nextChain>>
    BY <1>3 DEF CloseExhausted
  <2>3. t.chain = c /\ t.order = orderSeq + 1 BY MaterializeIs
  <2> HIDE DEF c, t
  <2>4. IsFiniteSet(materialized') BY <2>2, FS_AddElement DEF OrderInv
  <2> QED BY <1>1, <2>1, <2>2, <2>3, <2>4 DEF OrderInv
<1>4. ASSUME NEW r \in Requests, Commit(r) PROVE OrderInv'
  <2> DEFINE c == IF work[r].chain = NewChain THEN nextChain ELSE work[r].chain
  <2>1. PICK reply \in Replies :
           chains' = [d \in DOMAIN chains \cup {c} |->
                        IF d = c THEN Committed(r, reply) ELSE chains[d]]
    BY <1>4 DEF Commit
  <2>2. /\ orderSeq' = orderSeq + 1 /\ nextChain' \in {nextChain, nextChain + 1}
        /\ UNCHANGED <<phase, materialized>>
    BY <1>4 DEF Commit
  <2>3. Committed(r, reply).seq = orderSeq + 1 BY DEF Committed
  <2> HIDE DEF c
  <2> QED BY <1>1, <2>1, <2>2, <2>3 DEF OrderInv
<1>5. CASE Finalize
  <2>1. /\ materialized' = AllMaterialized /\ DOMAIN chains' = {} /\ phase' = "FINALIZED"
        /\ phase = "ACTIVE" /\ UNCHANGED <<nextChain, orderSeq>>
    BY <1>5 DEF Finalize, NoChains
  <2>2. IsFiniteSet(AllMaterialized) BY AllFinite DEF OrderInv
  <2>3. \A m \in AllMaterialized :
           m \in materialized \/ \E c \in DOMAIN chains : m = Materialize(c, chains[c].seq)
    BY DEF AllMaterialized
  <2>4. \A c \in DOMAIN chains :
           /\ Materialize(c, chains[c].seq).chain = c
           /\ Materialize(c, chains[c].seq).order = chains[c].seq
           /\ Materialize(c, chains[c].seq) \in AllMaterialized
    BY MaterializeIs DEF AllMaterialized
  <2>5. \A m \in AllMaterialized : m.chain < nextChain /\ m.order <= orderSeq
    BY <1>1, <2>3, <2>4 DEF OrderInv
  <2>6. ASSUME NEW m \in AllMaterialized, NEW n \in AllMaterialized, m.order = n.order
        PROVE  m = n
    BY <2>3, <2>4, <2>6 DEF OrderInv
  <2>7. materialized \subseteq AllMaterialized BY DEF AllMaterialized
  <2>8. orderSeq > 0 => \E m \in AllMaterialized : m.order = orderSeq
    BY <2>1, <2>4, <2>7 DEF OrderInv
  <2> QED BY <2>1, <2>2, <2>5, <2>6, <2>8 DEF OrderInv
<1>6. CASE Abort
  <2>1. materialized' = {} /\ DOMAIN chains' = {} /\ phase' = "ABORTED"
    BY <1>6 DEF Abort, NoChains
  <2> QED BY <2>1, FS_EmptySet DEF OrderInv
<1> QED
  BY <1>2, <1>3, <1>4, <1>5, <1>6
  DEF Next, Advance, vars, sessionVars, Submit, Refuse, Select, PrepareNew, PrepareNext,
      BackendReturns, Reenter, RefuseLate, Release, FailEarly, FailLate, SetRewardInfo

\* What was returned stays what is there: a finalized session is frozen.
LEMMA ReturnedStep ==
    TypeOK /\ CriticalInv /\ OrderInv /\ ReturnedInv /\ [Next]_vars => ReturnedInv'
<1> SUFFICES ASSUME CriticalInv, ReturnedInv, [Next]_vars PROVE ReturnedInv'
  OBVIOUS
<1>1. CASE UNCHANGED <<returned, phase, materialized, chains>>
  BY <1>1 DEF ReturnedInv, InOrder
<1>2. ASSUME NEW r \in Requests, CloseExhausted(r) \/ Commit(r) PROVE ReturnedInv'
  <2>1. phase = "ACTIVE" /\ UNCHANGED returned
    BY <1>2 DEF CloseExhausted, Commit, CriticalInv
  <2> QED BY <2>1 DEF ReturnedInv
<1>3. CASE Finalize
  <2>1. phase' = "FINALIZED" /\ DOMAIN chains' = {} /\ returned' = InOrder(materialized')
    BY <1>3 DEF Finalize, NoChains
  <2> QED BY <2>1 DEF ReturnedInv, InOrder
<1>4. CASE Abort BY <1>4 DEF Abort, ReturnedInv
<1> QED
  BY <1>1, <1>2, <1>3, <1>4
  DEF Next, Advance, vars, sessionVars, Submit, Refuse, Select, PrepareNew, PrepareNext,
      BackendReturns, Reenter, RefuseLate, Release, FailEarly, FailLate, SetRewardInfo

-----------------------------------------------------------------------------
(* Turns *)

\* Nothing added is context added.
LEMMA ContextAdded ==
    ASSUME NEW s \in Seq(Tokens), NEW n \in Nat
    PROVE  AddsContext(s, s \o Copies(Context, n))
BY DEF AddsContext, Extends, Copies, Tokens

\* Context tokens and then a request's are a turn of it.
LEMMA TurnCompleted ==
    ASSUME NEW s \in Seq(Tokens), NEW t \in Seq(Tokens), AddsContext(s, t),
           NEW r \in Requests, NEW n \in Nat
    PROVE  Log!IsTurn(r, s, t \o Copies(r, n))
<1> DEFINE u == t \o Copies(r, n)
<1>1. Copies(r, n) \in Seq(Tokens) /\ Len(Copies(r, n)) = n BY CopiesType DEF Tokens
<1>2. /\ Len(u) = Len(t) + n
      /\ \A i \in 1 .. Len(t) : u[i] = t[i]
      /\ \A i \in Len(t) + 1 .. Len(u) : u[i] = r
  BY <1>1 DEF Copies
<1> HIDE DEF u
<1>3. Len(s) \in Nat /\ Len(t) \in Nat /\ Len(s) <= Len(t) BY DEF AddsContext, Extends
<1>4. \A i \in 1 .. Len(s) : u[i] = s[i] BY <1>2, <1>3 DEF AddsContext, Extends
<1>5. Len(t) \in Len(s) .. Len(u) BY <1>2, <1>3
<1>6. \A i \in Len(s) + 1 .. Len(u) : u[i] = IF i <= Len(t) THEN Context ELSE r
  BY <1>2, <1>3 DEF AddsContext
<1>7. Log!IsTurn(r, s, u) BY <1>2, <1>3, <1>4, <1>5, <1>6 DEF Log!IsTurn
<1> QED BY <1>7 DEF u

\* A working buffer becomes a turn under its request's hands only.
LEMMA TurnStep ==
    TypeOK /\ CriticalInv /\ ReservationInv /\ TurnInv /\ [Next]_vars => TurnInv'
<1> DEFINE Goal(q) == IF pc'[q] = "generating"
                      THEN AddsContext(Before(q)', work'[q].buffer.ids)
                      ELSE Log!IsTurn(q, Before(q)', work'[q].buffer.ids)
<1> SUFFICES ASSUME TypeOK, CriticalInv, ReservationInv, TurnInv, [Next]_vars,
                    phase' = "ACTIVE", NEW q \in Requests, InFlight(q)'
             PROVE  Goal(q)
  BY DEF TurnInv, AddsContext, Extends, Log!IsTurn
<1> USE DEF TypeOK, RequestType, Goto, InFlight
<1>1. ASSUME InFlight(q), phase = "ACTIVE", UNCHANGED <<pc[q], work[q]>>,
             Before(q)' = Before(q)
      PROVE  Goal(q)
  BY <1>1 DEF TurnInv
<1>2. ASSUME NEW r \in Requests \ {q}, RequestStep(r) PROVE Goal(q)
  <2>1. pc'[q] = pc[q] /\ work'[q] = work[q] BY <1>2, Locality
  <2>2. phase = "ACTIVE"
    BY <1>2 DEF RequestStep, Advance, sessionVars, Submit, Refuse, Select, PrepareNew,
                PrepareNext, CloseExhausted, BackendReturns, Reenter, Commit, RefuseLate,
                Release, FailEarly, FailLate
  <2>3. InFlight(q) BY <2>1
  <2>4. CASE work[q].chain = NewChain
    <3>1. Before(q)' = Before(q) BY <2>1, <2>4 DEF Before
    <3> QED BY <1>1, <2>1, <2>2, <2>3, <3>1
  <2>5. CASE work[q].chain # NewChain
    <3>1. Holder(q) BY <2>3, <2>5 DEF Holder, Holding
    <3>2. chains'[work[q].chain] = chains[work[q].chain] BY <1>2, <2>2, <3>1, ChainKept
    <3>3. Before(q)' = Before(q) BY <2>1, <3>2 DEF Before
    <3> QED BY <1>1, <2>1, <2>2, <2>3, <3>3
  <2> QED BY <2>4, <2>5
<1>3. CASE PrepareNew(q)
  <2>1. /\ pc'[q] = "generating" /\ work'[q].chain = NewChain
        /\ work'[q].buffer.ids = <<>>
    BY <1>3 DEF PrepareNew, FullEncoding
  <2>2. Before(q)' = <<>> BY <2>1 DEF Before
  <2> QED BY <2>1, <2>2 DEF AddsContext, Extends
<1>4. CASE PrepareNext(q)
  <2> DEFINE c == work[q].chain
  <2>1. PICK n \in IncrementLengths(call[q], chains[c]) :
           work' = [work EXCEPT ![q].buffer = IncrementalEncoding(call[q], chains[c], n)]
    BY <1>4 DEF PrepareNext
  <2>2. c \in Candidates(call[q]) /\ c # NewChain /\ UNCHANGED chains /\ pc'[q] = "generating"
    BY <1>4 DEF PrepareNext, CriticalInv
  <2>3. n \in Nat BY LengthsAssumption DEF IncrementLengths
  <2>4. chains[c].buffer.ids \in Seq(Tokens)
    BY <2>2 DEF Candidates, SessionType, Chain, Buffer
  <2>5. work'[q].buffer.ids = chains[c].buffer.ids \o Copies(Context, n) /\ work'[q].chain = c
    BY <2>1 DEF IncrementalEncoding, Grown
  <2>6. Before(q)' = chains[c].buffer.ids BY <2>2, <2>5 DEF Before
  <2> HIDE DEF c, TypeOK, RequestType
  <2>7. AddsContext(chains[c].buffer.ids, chains[c].buffer.ids \o Copies(Context, n))
    BY <2>3, <2>4, ContextAdded
  <2> QED BY <2>2, <2>5, <2>6, <2>7
<1>5. CASE BackendReturns(q)
  <2> DEFINE b == work[q].buffer
  <2>1. PICK n \in ReplyLengths :
           work' = [work EXCEPT ![q].buffer = Grown(b, b.text, Copies(q, n), call[q].logprobs)]
    BY <1>5 DEF BackendReturns
  <2>2. UNCHANGED <<chains, phase>> /\ pc[q] = "generating" /\ pc'[q] = "returning"
    BY <1>5 DEF BackendReturns, sessionVars
  <2>3. work'[q].buffer.ids = b.ids \o Copies(q, n) /\ work'[q].chain = work[q].chain
    BY <2>1 DEF Grown
  <2>4. Before(q)' = Before(q) BY <2>2, <2>3 DEF Before
  <2>5. n \in Nat /\ b.ids \in Seq(Tokens) BY <2>2, LengthsAssumption DEF Buffer
  <2>6. Before(q) \in Seq(Tokens)
    BY <2>2 DEF Before, ReservationInv, Holder, Holding, SessionType, Chain, Buffer
  <2>7. AddsContext(Before(q), b.ids) BY <2>2 DEF TurnInv
  <2> HIDE DEF b, TypeOK, RequestType
  <2>8. Log!IsTurn(q, Before(q), b.ids \o Copies(q, n)) BY <2>5, <2>6, <2>7, TurnCompleted
  <2> QED BY <2>2, <2>3, <2>4, <2>8
<1>6. CASE Reenter(q)
  <2>1. UNCHANGED <<work, chains, phase>> /\ pc[q] = "returning" /\ pc'[q] = "decoding"
    BY <1>6 DEF Reenter, sessionVars
  <2>2. Before(q)' = Before(q) BY <2>1 DEF Before
  <2> QED BY <2>1, <2>2 DEF TurnInv
<1>7. CASE Submit(q) \/ Refuse(q) \/ Select(q) \/ CloseExhausted(q) \/ Commit(q) \/ Release(q)
           \/ FailEarly(q) \/ FailLate(q) \/ RefuseLate(q)
  BY <1>7 DEF Submit, Refuse, Select, CloseExhausted, Commit, Release, FailEarly, FailLate,
              RefuseLate, Leave, Exit
<1>8. CASE SetRewardInfo \/ UNCHANGED vars
  <2>1. UNCHANGED <<pc, work, chains, phase>> BY <1>8 DEF SetRewardInfo, vars, sessionVars
  <2>2. Before(q)' = Before(q) BY <2>1 DEF Before
  <2> QED BY <1>1, <2>1, <2>2
<1>9. CASE Finalize \/ Abort BY <1>9 DEF Finalize, Abort
<1> QED
  BY <1>2, <1>3, <1>4, <1>5, <1>6, <1>7, <1>8, <1>9 DEF Next, Advance, RequestStep

-----------------------------------------------------------------------------
(* The refinement *)

\* A session starts as an empty log.
LEMMA LogStart == Init => LogInv /\ Log!LogInit
<1> SUFFICES ASSUME Init PROVE LogInv /\ Log!LogInit
  OBVIOUS
<1> USE DEF Init, NoChains
<1>1. TurnInv /\ ReturnedInv BY DEF TurnInv, ReturnedInv, InFlight
<1>2. OrderInv BY FS_EmptySet DEF OrderInv
<1>3. Log!LogInit BY DEF Log!LogInit
<1> QED BY <1>1, <1>2, <1>3 DEF LogInv

\* Every step of the session keeps what the refinement rests on.
LEMMA LogStep ==
    TypeOK /\ SafetyInv /\ LogInv /\ [Next]_vars => LogInv'
BY TurnStep, OrderStep, ReturnedStep DEF LogInv, SafetyInv

\* The commit of a request is its turn in the log.
LEMMA CommitIsTurn ==
    ASSUME TypeOK, SafetyInv, LogInv, NEW r \in Requests, Commit(r)
    PROVE  Log!Turn(r)
<1> DEFINE c == IF work[r].chain = NewChain THEN nextChain ELSE work[r].chain
           open == [d \in DOMAIN chains |-> chains[d].buffer.ids]
<1>1. PICK reply \in Replies :
         chains' = [d \in DOMAIN chains \cup {c} |->
                      IF d = c THEN Committed(r, reply) ELSE chains[d]]
  BY DEF Commit
<1>2. /\ pc[r] = "decoding" /\ phase = "ACTIVE"
      /\ pc' = [pc EXCEPT ![r] = "answered"]
      /\ UNCHANGED <<phase, materialized>>
      /\ work[r].chain # NewChain => work[r].chain \in DOMAIN chains
  BY DEF Commit, Exit, Goto, SafetyInv, CriticalInv
<1>3. Log!IsTurn(r, Before(r), work[r].buffer.ids)
  BY <1>2 DEF LogInv, TurnInv, InFlight
<1>4. Committed(r, reply).buffer.ids = work[r].buffer.ids
  BY <1>2 DEF Committed, TypeOK, RequestType, InFlight, Buffer
<1>5. {q \in Requests : pc'[q] = "answered"} = {q \in Requests : pc[q] = "answered"} \cup {r}
  BY <1>2 DEF TypeOK, RequestType
<1>6. /\ DOMAIN open' = DOMAIN open \cup {c} /\ open'[c] = work[r].buffer.ids
      /\ \A d \in DOMAIN open \ {c} : open'[d] = open[d]
  BY <1>1, <1>4
<1>7. IF c \in DOMAIN open THEN Before(r) = open[c]
      ELSE Before(r) = <<>> /\ \A m \in materialized : m.chain # c
  <2>1. nextChain \notin DOMAIN chains /\ nextChain \in Nat BY DEF TypeOK, SessionType
  <2>2. \A m \in materialized : m.chain \in Nat /\ m.chain < nextChain
    BY DEF LogInv, OrderInv, TypeOK, SessionType, Trajectory
  <2> QED BY <1>2, <2>1, <2>2 DEF Before
<1> QED BY <1>2, <1>3, <1>5, <1>6, <1>7 DEF Log!Turn

\* The close of an exhausted chain closes its conversation.
LEMMA CloseIsClose ==
    ASSUME TypeOK, SafetyInv, NEW r \in Requests, CloseExhausted(r)
    PROVE  \E c \in DOMAIN chains : Log!Close(c)
<1>1. PICK c \in DOMAIN chains : c = work[r].chain
  BY DEF CloseExhausted, SafetyInv, CriticalInv, Candidates
<1> DEFINE t == Materialize(c, orderSeq + 1)
<1>2. /\ phase = "ACTIVE" /\ UNCHANGED phase
      /\ chains' = [d \in DOMAIN chains \ {c} |-> chains[d]]
      /\ materialized' = materialized \cup {t}
      /\ pc' = [pc EXCEPT ![r] = "exhausted"] /\ pc[r] = "encoding"
  BY <1>1 DEF CloseExhausted, Exit, Goto, SafetyInv, CriticalInv
<1>3. t.chain = c /\ t.ids = chains[c].buffer.ids BY MaterializeIs
<1>4. {q \in Requests : pc'[q] = "answered"} = {q \in Requests : pc[q] = "answered"}
  BY <1>2 DEF TypeOK, RequestType
<1> HIDE DEF t
<1>5. Log!Close(c) BY <1>1, <1>2, <1>3, <1>4 DEF Log!Close
<1> QED BY <1>5

\* Finalize seals the log, abort discards it.
LEMMA EndIsEnd ==
    /\ Finalize => Log!Seal
    /\ Abort => Log!Discard
<1>1. ASSUME Finalize PROVE Log!Seal
  <2>1. /\ phase = "ACTIVE" /\ phase' = "FINALIZED" /\ chains' = NoChains /\ UNCHANGED pc
        /\ materialized' = AllMaterialized
    BY <1>1 DEF Finalize
  <2>2. {[chain |-> m.chain, ids |-> m.ids] : m \in AllMaterialized} =
            {[chain |-> m.chain, ids |-> m.ids] : m \in materialized} \cup
            {[chain |-> c, ids |-> chains[c].buffer.ids] : c \in DOMAIN chains}
    BY MaterializeIs DEF AllMaterialized
  <2> QED BY <2>1, <2>2 DEF Log!Seal, NoChains
<1>2. ASSUME Abort PROVE Log!Discard
  BY <1>2 DEF Abort, Log!Discard, NoChains
<1> QED BY <1>1, <1>2

\* Every step of the session is a step of the log or leaves it alone.
LEMMA StepIsLogged ==
    TypeOK /\ SafetyInv /\ LogInv /\ [Next]_vars => [Log!LogNext]_(Log!logVars)
<1> SUFFICES ASSUME TypeOK, SafetyInv, LogInv, [Next]_vars
             PROVE  Log!LogNext \/ UNCHANGED Log!logVars
  OBVIOUS
<1>1. ASSUME NEW r \in Requests, Commit(r) PROVE Log!LogNext
  BY <1>1, CommitIsTurn DEF Log!LogNext
<1>2. ASSUME NEW r \in Requests, CloseExhausted(r) PROVE Log!LogNext
  BY <1>2, CloseIsClose DEF Log!LogNext
<1>3. CASE Finalize \/ Abort BY <1>3, EndIsEnd DEF Log!LogNext
<1>4. ASSUME UNCHANGED <<phase, chains, materialized>>,
             {q \in Requests : pc'[q] = "answered"} = {q \in Requests : pc[q] = "answered"}
      PROVE  UNCHANGED Log!logVars
  BY <1>4 DEF Log!logVars
<1>5. ASSUME NEW r \in Requests,
             \/ Submit(r) \/ Refuse(r) \/ Select(r) \/ PrepareNew(r) \/ PrepareNext(r)
             \/ BackendReturns(r) \/ Reenter(r) \/ RefuseLate(r) \/ Release(r)
             \/ FailEarly(r) \/ FailLate(r)
      PROVE  UNCHANGED Log!logVars
  <2>1. UNCHANGED <<phase, chains, materialized>>
    BY <1>5 DEF sessionVars, Submit, Refuse, Select, PrepareNew, PrepareNext, BackendReturns,
                Reenter, RefuseLate, Release, FailEarly, FailLate
  <2>2. pc[r] # "answered" /\ \E label \in Labels \ {"answered"} : pc' = [pc EXCEPT ![r] = label]
    BY <1>5 DEF Submit, Refuse, Select, PrepareNew, PrepareNext, BackendReturns, Reenter,
                RefuseLate, Release, FailEarly, FailLate, Leave, Exit, Goto, Labels
  <2>3. {q \in Requests : pc'[q] = "answered"} = {q \in Requests : pc[q] = "answered"}
    BY <2>2 DEF TypeOK, RequestType
  <2> QED BY <1>4, <2>1, <2>3
<1>6. CASE SetRewardInfo \/ UNCHANGED vars
  BY <1>4, <1>6 DEF SetRewardInfo, vars, sessionVars
<1> QED BY <1>1, <1>2, <1>3, <1>5, <1>6 DEF Next, Advance

-----------------------------------------------------------------------------
(* Theorems *)

\* What the refinement and the order rest on holds at all times.
THEOREM Logged == Spec => []LogInv
BY LogStart, LogStep, Safety, PTL DEF Spec

\* The trajectory the framework scores, the last one finalize returned, is the one
\* the session committed or closed last; before it the others come in order.
THEOREM RewardTarget == Spec => []RewardTargetIsLatest
<1>1. TypeOK /\ LogInv => RewardTargetIsLatest
  <2> SUFFICES ASSUME TypeOK, LogInv, returned # None
               PROVE  /\ \A i \in 1..Len(returned) : \A j \in 1..(i - 1) :
                             returned[j].order < returned[i].order
                      /\ orderSeq > 0 =>
                            returned # <<>> /\ returned[Len(returned)].order = orderSeq
    BY DEF RewardTargetIsLatest
  <2> DEFINE N == Cardinality(materialized)
  <2>1. phase = "FINALIZED" /\ DOMAIN chains = {} /\ returned = InOrder(materialized)
    BY DEF LogInv, ReturnedInv
  <2>2. /\ IsFiniteSet(materialized) /\ orderSeq \in Nat
        /\ \A m \in materialized : m.order \in Nat /\ m.order <= orderSeq
        /\ \A m, n \in materialized : m.order = n.order => m = n
        /\ orderSeq > 0 => \E m \in materialized : m.order = orderSeq
    BY <2>1 DEF LogInv, OrderInv, TypeOK, SessionType, Trajectory
  <2>3. /\ N \in Nat /\ Len(returned) = N
        /\ \A i \in 1..N : returned[i] \in materialized
        /\ \A m \in materialized : \E i \in 1..N : returned[i] = m
        /\ \A i, j \in 1..N : j < i => returned[j].order < returned[i].order
    BY <2>1, <2>2, InOrderIs, SMTT(30)
  <2> HIDE DEF N
  <2>4. ASSUME orderSeq > 0
        PROVE  returned # <<>> /\ returned[Len(returned)].order = orderSeq
    <3>1. PICK i \in 1..N : returned[i].order = orderSeq BY <2>2, <2>3, <2>4
    <3>2. N \in 1..N /\ Len(returned) # 0 BY <2>3, <3>1
    <3>3. ~ (i < N)
      <4>1. SUFFICES ASSUME i < N PROVE FALSE
        OBVIOUS
      <4>2. returned[i].order < returned[N].order BY <2>3, <3>1, <3>2, <4>1
      <4> QED BY <2>2, <2>3, <3>1, <3>2, <4>2
    <3>4. i = N BY <2>3, <3>3
    <3> QED BY <2>3, <3>1, <3>2, <3>4
  <2>5. ASSUME NEW i \in 1..Len(returned), NEW j \in 1..(i - 1)
        PROVE  returned[j].order < returned[i].order
    BY <2>3
  <2> QED BY <2>4, <2>5
<1> QED BY <1>1, Logged, TypeCorrect, PTL

\* The session implements the log of conversations: a request that took the lock
\* twice, with others in between, has added one turn at one point in time.
THEOREM Implementation == Spec => ImplementsLog
<1>1. Init => Log!LogInit BY LogStart
<1> QED BY <1>1, StepIsLogged, Safety, Logged, PTL DEF Spec, ImplementsLog, Log!LogSpec
=============================================================================
