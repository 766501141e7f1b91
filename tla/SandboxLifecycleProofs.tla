------------------------ MODULE SandboxLifecycleProofs ------------------------
(***************************************************************************)
(* Theorems about SandboxLifecycle for every number of runs, attempts,     *)
(* permits and retries, with proofs checked by TLAPS.                      *)
(***************************************************************************)
EXTENDS SandboxLifecycle, FiniteSetTheorems, TLAPS

-----------------------------------------------------------------------------
(* The inductive invariant *)

Where == {"idle", "queued", "backoff", "working", "closing", "deleting"} \cup Starting \cup Over
Live == {"requested", "up", "alive"}

RunType ==
    /\ kind \in {"modal", "container", "vefaas"}
    /\ pc \in [Runs -> Where]
    /\ attempt \in [Runs -> Nat]
    /\ sandbox \in [Runs -> Attempts \cup {None}]
    /\ runtime \in [Runs -> BOOLEAN]
    /\ stopped \in [Runs -> BOOLEAN]
    /\ final \in [Runs -> BOOLEAN]
    /\ cancelled \subseteq Runs

CloudType ==
    /\ cloud \in [Attempts -> Live \cup {"none", "gone"}]
    /\ excused \subseteq Attempts

(* Where a run stands says what its deployment remembers.                  *)
Remembers(r) ==
    /\ attempt[r] <= MaxRetries[r]
    /\ pc[r] = "idle" <=> attempt[r] = 0
    /\ pc[r] = "backoff" => attempt[r] < MaxRetries[r] /\ (kind # "container" => ~ stopped[r])
    /\ pc[r] = "queued" => kind = "modal"
    /\ sandbox[r] \in {None, Id(r)}
    /\ pc[r] \in {"idle", "queued", "backoff"} => sandbox[r] = None /\ ~ runtime[r]
    /\ pc[r] = "creating" => ~ runtime[r] /\ (sandbox[r] = None <=> kind # "container")
    /\ pc[r] \in {"connecting", "deleting"} => ~ runtime[r] /\ sandbox[r] # None
    /\ pc[r] \in {"waiting", "session", "working", "closing"} => runtime[r]
    /\ runtime[r] => sandbox[r] # None
    /\ pc[r] \notin Over \cup {"backoff"} => ~ stopped[r]
    /\ pc[r] = "collected" => stopped[r]
    /\ kind = "vefaas" /\ pc[r] \in {"closing", "deleting"} => final[r]

(* No attempt is in the cloud before it was made; and somebody answers for *)
(* every sandbox that is there, for as long as the run is not over.        *)
Answered(r) ==
    \A id \in Of(r) :
        /\ id[2] > attempt[r] \/ (pc[r] = "queued" /\ id = Id(r)) => cloud[id] = "none"
        /\ cloud[id] \in Live /\ id \notin excused =>
              \/ pc[r] = "creating" /\ id = Id(r)
              \/ /\ pc[r] \notin Over /\ sandbox[r] # None
                 /\ IF kind = "container" THEN cloud[id] # "requested" ELSE id = sandbox[r]

(* The request that a working run has made was run once, while its server  *)
(* was alive.                                                              *)
Opened(r) == pc[r] = "working" => ran[sandbox[r]] = 1

RunInv == \A r \in Runs : Remembers(r) /\ Answered(r) /\ Opened(r)

PermitInv ==
    /\ permits = {r \in Runs : kind = "modal" /\ pc[r] \in Starting}
    /\ IsFiniteSet(permits) /\ Cardinality(permits) <= Cap

(* A server that has run its call remembers it until it is gone.           *)
RequestInv ==
    /\ call \in [Attempts -> [try : 0 .. Retries, answered : BOOLEAN] \cup {None}]
    /\ ran \in [Attempts -> {0, 1}]
    /\ \A m \in net : m.to \in Attempts /\ m.try \in 0 .. Retries /\ m.key = <<m.to>>
    /\ \A s \in Attempts :
          /\ <<s>> \in seen => ran[s] = 1
          /\ ran[s] = 1 => cloud[s] = "gone" \/ (cloud[s] = "alive" /\ <<s>> \in seen)
          /\ call[s] # None /\ call[s].answered => ran[s] = 1

SandboxInv == RunType /\ CloudType /\ RunInv /\ PermitInv /\ RequestInv

-----------------------------------------------------------------------------
(* Names and places *)

\* The sandboxes a run may ask for are its attempts.
LEMMA Names ==
    ASSUME NEW r \in Runs
    PROVE  /\ Of(r) = {<<r, n>> : n \in 1 .. MaxRetries[r]} /\ Of(r) \subseteq Attempts
           /\ MaxRetries[r] \in Nat \ {0} /\ None \notin Of(r)
           /\ attempt[r] \in 1 .. MaxRetries[r] => Id(r) \in Of(r)
<1>1. MaxRetries[r] \in Nat \ {0} BY RetriesAssumption
<1>2. Of(r) = {<<r, n>> : n \in 1 .. MaxRetries[r]} BY DEF Of, Attempts
<1>3. Of(r) \subseteq Attempts BY DEF Of
<1>4. None \notin Of(r) BY <1>1, <1>2, NoneAssumption
<1> QED BY <1>1, <1>2, <1>3, <1>4 DEF Id

\* Every sandbox is some run's.
LEMMA Owners ==
    /\ None \notin Attempts
    /\ \A id \in Attempts : id[1] \in Runs /\ id \in Of(id[1])
    /\ \A id \in Attempts : <<id>>[1] = id
<1>1. ASSUME NEW id \in Attempts PROVE id[1] \in Runs /\ id \in Of(id[1]) /\ id # None
  <2>1. PICK r \in Runs : id \in {r} \X (1 .. MaxRetries[r]) BY DEF Attempts
  <2>2. id[1] = r /\ id \in Of(r) BY <2>1 DEF Of
  <2> QED BY <2>2, Names
<1> QED BY <1>1

\* The sandbox a deployment remembers is its run's last.
LEMMA Remembered ==
    ASSUME RunType, NEW r \in Runs, Remembers(r)
    PROVE  /\ sandbox[r] # None => sandbox[r] = Id(r) /\ sandbox[r] \in Of(r)
           /\ pc[r] # "idle" => Id(r) \in Of(r)
BY Names DEF Remembers, RunType

\* A name that is deleted is of the run, and was there.
LEMMA DeletesOwn ==
    ASSUME RunType, NEW r \in Runs, Remembers(r), sandbox[r] # None
    PROVE  Deletes(r) \subseteq Of(r)
BY Remembered DEF Deletes

RunStep(r) == Step(r) \/ Cancel(r) \/ Collect(r) \/ StopCollected(r)

\* The requests of two runs and what they remember have nothing in common.
LEMMA Locality ==
    ASSUME RunType, NEW r \in Runs, RunStep(r), NEW q \in Runs \ {r}
    PROVE  /\ kind' = kind /\ pc'[q] = pc[q] /\ attempt'[q] = attempt[q]
           /\ sandbox'[q] = sandbox[q] /\ runtime'[q] = runtime[q]
           /\ stopped'[q] = stopped[q] /\ final'[q] = final[q]
<1> USE DEF RunType, Goto
<1>1. CASE Attempt(r) BY <1>1 DEF Attempt
<1>2. CASE GiveUp(r) BY <1>2 DEF GiveUp
<1>3. CASE Acquire(r) BY <1>3 DEF Acquire
<1>4. CASE Created(r) BY <1>4 DEF Created
<1>5. CASE Connect(r) BY <1>5 DEF Connect
<1>6. CASE Alive(r) BY <1>6 DEF Alive
<1>7. CASE Started(r) BY <1>7 DEF Started
<1>8. CASE Fail(r) BY <1>8 DEF Fail, Failing, StopOrRetry
<1>9. CASE Closed(r) BY <1>9 DEF Closed
<1>10. CASE Delete(r) BY <1>10 DEF Delete, Forget
<1>11. CASE DeleteFails(r) BY <1>11 DEF DeleteFails, Forget
<1>12. CASE RetryRequest(r) BY <1>12 DEF RetryRequest, runVars
<1>13. CASE Close(r) BY <1>13 DEF Close
<1>14. CASE Cancel(r) BY <1>14 DEF Cancel, CancelRun, CancelStop
<1>15. CASE Collect(r) BY <1>15 DEF Collect
<1>16. CASE StopCollected(r) BY <1>16 DEF StopCollected
<1> QED
  BY <1>1, <1>2, <1>3, <1>4, <1>5, <1>6, <1>7, <1>8, <1>9, <1>10, <1>11, <1>12, <1>13, <1>14,
     <1>15, <1>16
  DEF RunStep, Step














-----------------------------------------------------------------------------
(* Types and places *)

\* A flag set for one run.
LEMMA FlagType ==
    ASSUME NEW f \in [Runs -> BOOLEAN], NEW r \in Runs, NEW b \in BOOLEAN
    PROVE  [f EXCEPT ![r] = b] \in [Runs -> BOOLEAN]
OBVIOUS

\* A step of a run keeps the types, and leaves the run where its deployment remembers
\* what there is.
LEMMA OwnStep ==
    ASSUME RunType, CloudType, NEW r \in Runs, Remembers(r), RunStep(r)
    PROVE  RunType' /\ CloudType' /\ Remembers(r)'
<1> USE DEF RunType, CloudType, Remembers, Goto, Id, Where, Starting, Over, Live
<1>1. CASE Attempt(r)
  <2>1. pc[r] \in {"idle", "backoff"} /\ attempt' = [attempt EXCEPT ![r] = @ + 1]
    BY <1>1 DEF Attempt
  <2>2. /\ attempt[r] \in Nat /\ attempt[r] < MaxRetries[r] /\ attempt'[r] = attempt[r] + 1
        /\ MaxRetries[r] \in Nat \ {0} /\ attempt'[r] \in 1 .. MaxRetries[r]
    <3>1. MaxRetries[r] \in Nat \ {0} BY Names
    <3>2. attempt[r] \in Nat /\ attempt'[r] = attempt[r] + 1 BY <2>1
    <3>3. attempt[r] < MaxRetries[r] BY <2>1, <3>1, <3>2
    <3> QED BY <3>1, <3>2, <3>3
  <2>3. Id(r)' \in Attempts /\ Id(r)' # None
    <3>1. Id(r)' = <<r, attempt'[r]>> OBVIOUS
    <3>2. <<r, attempt'[r]>> \in Of(r) BY <2>2, Names
    <3> QED BY <3>1, <3>2, Names
  <2>4. ~ AlreadyStarted(r) /\ sandbox[r] = None /\ ~ runtime[r] BY <1>1 DEF Attempt, AlreadyStarted
  <2>5. pc' = [pc EXCEPT ![r] = IF kind = "modal" THEN "queued" ELSE "creating"]
    BY <1>1, <2>4 DEF Attempt
  <2>6. /\ stopped' = [stopped EXCEPT ![r] = kind # "container" /\ @]
        /\ sandbox' = IF kind = "container" THEN [sandbox EXCEPT ![r] = Id(r)'] ELSE sandbox
        /\ cloud' = IF kind = "modal" THEN cloud ELSE [cloud EXCEPT ![Id(r)'] = "requested"]
        /\ UNCHANGED <<kind, runtime, final, cancelled, excused>>
        /\ pc[r] \in {"idle", "backoff"}
    BY <1>1 DEF Attempt
  <2> HIDE DEF Id
  <2>7. RunType' /\ CloudType'
    <3>1. stopped' \in [Runs -> BOOLEAN]
      <4>1. (kind # "container" /\ stopped[r]) \in BOOLEAN OBVIOUS
      <4>2. stopped \in [Runs -> BOOLEAN] OBVIOUS
      <4> HIDE DEF RunType, Remembers
      <4> QED BY <2>6, <4>1, <4>2, FlagType, Zenon
    <3>2. sandbox' \in [Runs -> Attempts \cup {None}] BY <2>3, <2>6
    <3>3. cloud' \in [Attempts -> Live \cup {"none", "gone"}] BY <2>3, <2>6
    <3> QED BY <2>1, <2>5, <2>6, <3>1, <3>2, <3>3
  <2>8. ~ stopped'[r]
    <3>1. stopped'[r] = (kind # "container" /\ stopped[r]) BY <2>6
    <3>2. kind # "container" => ~ stopped[r] BY <2>6
    <3> QED BY <3>1, <3>2
  <2> QED BY <2>1, <2>2, <2>3, <2>4, <2>5, <2>6, <2>7, <2>8
<1>2. CASE GiveUp(r) BY <1>2 DEF GiveUp
<1>3. CASE Acquire(r) BY <1>3, Names, Remembered DEF Acquire
<1>4. CASE Created(r) BY <1>4, Names, Remembered DEF Created
<1>5. CASE Connect(r) BY <1>5 DEF Connect
<1>6. CASE Alive(r) BY <1>6 DEF Alive
<1>7. CASE Started(r) BY <1>7 DEF Started
<1>8. CASE Fail(r)
  <2>1. excused' \subseteq Attempts BY <1>8, Names, Remembered DEF Fail, Failing
  <2>2. MaxRetries[r] \in Nat \ {0} BY Names
  <2>3. /\ UNCHANGED <<kind, attempt, sandbox, runtime, stopped, cancelled, cloud>>
        /\ StopOrRetry(r)
        /\ pc[r] \in {"queued", "creating", "connecting", "waiting", "session"}
    BY <1>8 DEF Fail, Failing
  <2>4. CASE kind = "vefaas" /\ pc[r] = "creating"
    BY <2>1, <2>2, <2>3, <2>4 DEF StopOrRetry, After
  <2>5. CASE kind = "vefaas" /\ pc[r] # "creating"
    <3>1. /\ pc' = [pc EXCEPT ![r] = IF runtime[r] THEN "closing" ELSE "deleting"]
          /\ final' = [final EXCEPT ![r] = TRUE] /\ sandbox[r] # None
      BY <2>3, <2>5 DEF StopOrRetry, Stopping
    <3> QED BY <2>1, <2>3, <2>5, <3>1
  <2>6. CASE kind # "vefaas"
    BY <2>1, <2>2, <2>3, <2>6 DEF StopOrRetry, After, Stopping
  <2> HIDE DEF RunType, CloudType, Remembers
  <2> QED BY <2>4, <2>5, <2>6
<1>9. CASE Closed(r) BY <1>9 DEF Closed
<1>10. CASE Delete(r) BY <1>10 DEF Delete, Forget, After
<1>11. CASE DeleteFails(r)
  BY <1>11, Names, Remembered, DeletesOwn DEF DeleteFails, Forget, After
<1>12. CASE RetryRequest(r) BY <1>12 DEF RetryRequest, runVars
<1>13. CASE Close(r) BY <1>13 DEF Close, Stopping, After
<1>14. CASE Cancel(r)
  BY <1>14, Names, Remembered, DeletesOwn DEF Cancel, CancelRun, CancelStop, Stopping, After
<1>15. CASE Collect(r) BY <1>15 DEF Collect
<1>16. CASE StopCollected(r) BY <1>16 DEF StopCollected
<1> QED
  BY <1>1, <1>2, <1>3, <1>4, <1>5, <1>6, <1>7, <1>8, <1>9, <1>10, <1>11, <1>12, <1>13, <1>14,
     <1>15, <1>16
  DEF RunStep, Step

-----------------------------------------------------------------------------
(* Sandboxes *)

\* A step of a run touches its own sandboxes only, and excuses are for good.
LEMMA CloudLocality ==
    ASSUME RunType, CloudType, NEW r \in Runs, Remembers(r), RunStep(r)
    PROVE  /\ \A q \in Runs \ {r} : \A id \in Of(q) : cloud'[id] = cloud[id]
           /\ excused \subseteq excused'
<1>1. excused \subseteq excused'
  BY DEF RunStep, Step, Attempt, GiveUp, Acquire, Created, Connect, Alive, Started, Fail,
     Failing,
         Closed, Delete, DeleteFails, RetryRequest, Close, Cancel, CancelRun, CancelStop, Collect,
         StopCollected
<1>2. ASSUME NEW q \in Runs \ {r}, NEW id \in Of(q) PROVE cloud'[id] = cloud[id]
  <2>1. id \in Attempts /\ id[1] = q BY DEF Of
  <2>2. CASE UNCHANGED cloud BY <2>2
  <2>3. CASE Attempt(r)
    <3>1. id # Id(r)' BY <2>1 DEF Id
    <3> QED BY <2>1, <2>3, <3>1 DEF Attempt, CloudType
  <2>4. CASE Acquire(r) BY <2>1, <2>4 DEF Acquire, CloudType, Id
  <2>5. CASE Delete(r)
    <3>1. id \notin Deletes(r) BY <2>1, <2>5, DeletesOwn DEF Delete, Forget, Remembers, Of
    <3> QED BY <2>1, <2>5, <3>1 DEF Delete
  <2> QED
    BY <2>2, <2>3, <2>4, <2>5
    DEF RunStep, Step, GiveUp, Created, Connect, Alive, Started, Fail, Failing, Closed,
        DeleteFails, RetryRequest, Close, Cancel, Collect, StopCollected
<1> QED BY <1>1, <1>2

\* After a step of a run, somebody still answers for each of its sandboxes.
LEMMA AnsweredStep ==
    ASSUME RunType, CloudType, NEW r \in Runs, Remembers(r), Answered(r), RunStep(r)
    PROVE  Answered(r)'
<1> SUFFICES ASSUME NEW id \in Of(r)
             PROVE  /\ id[2] > attempt'[r] \/ (pc'[r] = "queued" /\ id = Id(r)')
                           => cloud'[id] = "none"
                    /\ cloud'[id] \in Live /\ id \notin excused' =>
                          \/ pc'[r] = "creating" /\ id = Id(r)'
                          \/ /\ pc'[r] \notin Over /\ sandbox'[r] # None
                             /\ IF kind' = "container" THEN cloud'[id] # "requested"
                                ELSE id = sandbox'[r]
  BY DEF Answered, Of
<1>0. /\ id \in Attempts /\ id = <<r, id[2]>> /\ id[2] \in 1 .. MaxRetries[r]
      /\ attempt[r] \in Nat /\ MaxRetries[r] \in Nat \ {0}
  BY Names DEF RunType
<1>a. /\ id[2] > attempt[r] \/ (pc[r] = "queued" /\ id = Id(r)) => cloud[id] = "none"
      /\ cloud[id] \in Live /\ id \notin excused =>
            \/ pc[r] = "creating" /\ id = Id(r)
            \/ /\ pc[r] \notin Over /\ sandbox[r] # None
               /\ IF kind = "container" THEN cloud[id] # "requested" ELSE id = sandbox[r]
  BY DEF Answered
<1> USE <1>0, <1>a DEF RunType, CloudType, Goto, Id, Where, Starting, Over, Live
<1>1. CASE Attempt(r) BY <1>1 DEF Attempt, AlreadyStarted, Remembers
<1>2. CASE GiveUp(r) BY <1>2 DEF GiveUp, Remembers
<1>3. CASE Acquire(r) BY <1>3 DEF Acquire
<1>4. CASE Created(r) BY <1>4, Names, Remembered, Owners DEF Created, Remembers
<1>5. CASE Connect(r) BY <1>5 DEF Connect
<1>6. CASE Alive(r) BY <1>6 DEF Alive
<1>7. CASE Started(r) BY <1>7 DEF Started
<1>8. CASE Fail(r) BY <1>8 DEF Fail, Failing, StopOrRetry, Stopping, After, Remembers
<1>9. CASE Closed(r) BY <1>9 DEF Closed
<1>10. CASE Delete(r) BY <1>10 DEF Delete, Forget, After, Deletes, Of, Remembers
<1>11. CASE DeleteFails(r) BY <1>11 DEF DeleteFails, Forget, After, Deletes, Of, Remembers
<1>12. CASE RetryRequest(r) BY <1>12 DEF RetryRequest, runVars
<1>13. CASE Close(r) BY <1>13 DEF Close, Stopping, After, Remembers
<1>14. CASE Cancel(r)
  BY <1>14 DEF Cancel, CancelRun, CancelStop, Stopping, After, Remembers, Deletes
<1>15. CASE Collect(r) BY <1>15 DEF Collect, Remembers
<1>16. CASE StopCollected(r) BY <1>16 DEF StopCollected, Remembers
<1> QED
  BY <1>1, <1>2, <1>3, <1>4, <1>5, <1>6, <1>7, <1>8, <1>9, <1>10, <1>11, <1>12, <1>13, <1>14,
     <1>15, <1>16
  DEF RunStep, Step

-----------------------------------------------------------------------------
(* Requests *)

\* What a client does to its call, while no sandbox that ran one changes.
LEMMA ClientStep ==
    ASSUME RequestInv,
           \A s \in Attempts : cloud'[s] = cloud[s] \/ cloud[s] \notin {"alive", "gone"},
           \/ UNCHANGED requests
           \/ \E s \in Attempts : \/ \E try \in 0 .. Retries : Try(s, try)
                                  \/ RequestRaises(s) \/ RequestReturns(s)
    PROVE  RequestInv' /\ ran' = ran
<1>1. \A s \in Attempts :
         ran[s] = 1 => cloud'[s] = "gone" \/ (cloud'[s] = "alive" /\ <<s>> \in seen)
  BY DEF RequestInv
<1>2. CASE UNCHANGED requests BY <1>1, <1>2 DEF RequestInv, requests
<1>3. ASSUME NEW s \in Attempts, NEW try \in 0 .. Retries, Try(s, try)
      PROVE  RequestInv' /\ ran' = ran
  <2>1. /\ call' = [call EXCEPT ![s] = [try |-> try, answered |-> FALSE]]
        /\ net' = net \cup {[to |-> s, try |-> try, key |-> <<s>>]}
        /\ UNCHANGED <<seen, ran>>
    BY <1>3 DEF Try, Message, Key
  <2>2. [try |-> try, answered |-> FALSE] \in [try : 0 .. Retries, answered : BOOLEAN] OBVIOUS
  <2>3. call' \in [Attempts -> [try : 0 .. Retries, answered : BOOLEAN] \cup {None}]
    BY <2>1, <2>2 DEF RequestInv
  <2>4. ASSUME NEW t \in Attempts, call'[t] # None, call'[t].answered PROVE ran[t] = 1
    BY <2>1, <2>4 DEF RequestInv
  <2>5. \A m \in net' : m.to \in Attempts /\ m.try \in 0 .. Retries /\ m.key = <<m.to>>
    BY <2>1 DEF RequestInv
  <2> QED BY <1>1, <2>1, <2>3, <2>4, <2>5 DEF RequestInv
<1>4. ASSUME NEW s \in Attempts, RequestRaises(s) \/ RequestReturns(s)
      PROVE  RequestInv' /\ ran' = ran
  <2>1. call' = [call EXCEPT ![s] = None] /\ UNCHANGED <<net, seen, ran>>
    BY <1>4 DEF RequestRaises, RequestReturns
  <2>2. call' \in [Attempts -> [try : 0 .. Retries, answered : BOOLEAN] \cup {None}]
    BY <2>1 DEF RequestInv
  <2>3. ASSUME NEW t \in Attempts, call'[t] # None, call'[t].answered PROVE ran[t] = 1
    BY <2>1, <2>3 DEF RequestInv
  <2> QED BY <1>1, <2>1, <2>2, <2>3 DEF RequestInv
<1> QED BY <1>2, <1>3, <1>4

\* Servers that go with their sandboxes take their memory with them.
LEMMA ServersGo ==
    ASSUME RequestInv, NEW gone, Unplug(gone),
           \A s \in Attempts : cloud'[s] = IF s \in gone THEN "gone" ELSE cloud[s]
    PROVE  RequestInv' /\ ran' = ran
<1>1. /\ net' \subseteq net /\ seen' = {key \in seen : key[1] \notin gone}
      /\ UNCHANGED <<call, ran>>
  BY DEF Unplug
<1>2. ASSUME NEW s \in Attempts
      PROVE  /\ <<s>> \in seen' => <<s>> \in seen
             /\ <<s>> \in seen /\ s \notin gone => <<s>> \in seen'
  BY <1>1, Owners
<1> QED BY <1>1, <1>2 DEF RequestInv

\* A server runs a key once.
LEMMA ServerStep ==
    ASSUME RequestInv, NEW m \in net, ServeMessage(m)
    PROVE  RequestInv' /\ \A s \in Attempts : ran[s] = 1 => ran'[s] = 1
<1> DEFINE s == m.to
<1>1. /\ s \in Attempts /\ m.key = <<s>> /\ cloud[s] = "alive" /\ UNCHANGED cloud
      /\ net' = net \ {m} /\ seen' = seen \cup {<<s>>}
  BY DEF ServeMessage, Serve, RequestInv
<1>2. <<s>> \notin seen => ran[s] = 0 BY <1>1 DEF RequestInv
<1>3. ran' = [ran EXCEPT ![s] = 1]
  <2>1. CASE <<s>> \in seen
    <3>1. ran' = ran /\ ran[s] = 1 BY <1>1, <2>1 DEF ServeMessage, Serve, RequestInv
    <3> QED BY <3>1 DEF RequestInv
  <2>2. CASE <<s>> \notin seen
    <3>1. ran' = [ran EXCEPT ![s] = ran[s] + 1] BY <1>1, <2>2 DEF ServeMessage, Serve
    <3>2. ran[s] + 1 = 1 BY <1>2, <2>2
    <3> QED BY <3>1, <3>2, Zenon
  <2> QED BY <2>1, <2>2
<1>4. ran' \in [Attempts -> {0, 1}] BY <1>3 DEF RequestInv
<1>5. /\ call' \in [Attempts -> [try : 0 .. Retries, answered : BOOLEAN] \cup {None}]
      /\ \A t \in Attempts \ {s} : call'[t] = call[t]
  <2>1. CASE call' = call BY <2>1 DEF RequestInv
  <2>2. CASE call[s] # None /\ call' = [call EXCEPT ![s].answered = TRUE]
    <3>1. call[s] \in [try : 0 .. Retries, answered : BOOLEAN] BY <1>1, <2>2 DEF RequestInv
    <3>2. [call[s] EXCEPT !.answered = TRUE] \in [try : 0 .. Retries, answered : BOOLEAN]
      BY <3>1
    <3> QED BY <1>1, <2>2, <3>2 DEF RequestInv
  <2> QED BY <2>1, <2>2 DEF ServeMessage, Serve, Awaited
<1>6. ASSUME NEW t \in Attempts, <<t>> \in seen' PROVE ran'[t] = 1
  <2>1. t = s \/ <<t>> \in seen BY <1>1, <1>6
  <2> QED BY <1>3, <2>1 DEF RequestInv
<1>7. ASSUME NEW t \in Attempts, ran'[t] = 1
      PROVE  cloud[t] = "gone" \/ (cloud[t] = "alive" /\ <<t>> \in seen')
  BY <1>1, <1>3, <1>7 DEF RequestInv
<1>8. ASSUME NEW t \in Attempts, call'[t] # None, call'[t].answered PROVE ran'[t] = 1
  BY <1>1, <1>3, <1>5, <1>8 DEF RequestInv
<1>9. \A t \in Attempts : ran[t] = 1 => ran'[t] = 1 BY <1>1, <1>3 DEF RequestInv
<1>10. \A n \in net' : n.to \in Attempts /\ n.try \in 0 .. Retries /\ n.key = <<n.to>>
  BY <1>1 DEF RequestInv
<1> QED BY <1>1, <1>4, <1>5, <1>6, <1>7, <1>8, <1>9, <1>10 DEF RequestInv

\* What a run's steps do to requests; its working run has had its session opened.
LEMMA RequestStep ==
    ASSUME RunType, CloudType, RequestInv, NEW r \in Runs, Remembers(r), Answered(r), RunStep(r)
    PROVE  RequestInv' /\ ran' = ran
<1> DEFINE Same == \A s \in Attempts : cloud'[s] = cloud[s] \/ cloud[s] \notin {"alive", "gone"}
<1>1. CASE Delete(r)
  <2>1. Deletes(r) \subseteq Of(r) BY <1>1, DeletesOwn DEF Delete, Forget, Remembers
  <2>2. \A s \in Attempts : cloud'[s] = IF s \in Deletes(r) THEN "gone" ELSE cloud[s]
    BY <1>1 DEF Delete
  <2> QED BY <1>1, <2>2, ServersGo DEF Delete
<1>2. CASE Attempt(r)
  <2>1. pc[r] \in {"idle", "backoff"} /\ attempt' = [attempt EXCEPT ![r] = @ + 1]
    BY <1>2 DEF Attempt
  <2>2. attempt[r] \in Nat /\ attempt[r] < MaxRetries[r] /\ attempt'[r] = attempt[r] + 1
    BY <2>1, Names DEF RunType, Remembers
  <2>3. Id(r)' = <<r, attempt[r] + 1>> /\ Id(r)' \in Of(r)
    <3>1. Id(r)' = <<r, attempt[r] + 1>> BY <2>2 DEF Id
    <3> QED BY <2>2, <3>1, Names
  <2>4. cloud[Id(r)'] = "none" BY <2>2, <2>3 DEF Answered
  <2>5. Same BY <1>2, <2>4 DEF Attempt, CloudType
  <2> QED BY <1>2, <2>5, ClientStep DEF Attempt
<1>3. CASE Acquire(r)
  <2>1. Id(r) \in Of(r) /\ cloud[Id(r)] = "none"
    BY <1>3, Remembered DEF Acquire, Answered
  <2>2. Same BY <1>3, <2>1 DEF Acquire, CloudType
  <2> QED BY <1>3, <2>2, ClientStep DEF Acquire
<1>4. CASE Connect(r) \/ Alive(r) \/ RetryRequest(r)
  <2>1. sandbox[r] \in Attempts
    BY <1>4, Names, Remembered DEF Connect, Alive, RetryRequest, Remembers
  <2>2. Same BY <1>4 DEF Connect, Alive, RetryRequest
  <2>3. UNCHANGED requests \/ \E try \in 0 .. Retries : Try(sandbox[r], try)
    <3>1. UNCHANGED requests \/ Post(sandbox[r]) \/ Retry(sandbox[r])
      BY <1>4 DEF Connect, Alive, RetryRequest
    <3>2. Post(sandbox[r]) => \E try \in 0 .. Retries : Try(sandbox[r], try)
      BY RetriesAssumption DEF Post
    <3>3. ASSUME Retry(sandbox[r]) PROVE \E try \in 0 .. Retries : Try(sandbox[r], try)
      <4>1. call[sandbox[r]].try \in 0 .. Retries BY <2>1, <3>3 DEF Retry, RequestInv
      <4>2. call[sandbox[r]].try + 1 \in 0 .. Retries BY <3>3, <4>1, RetriesAssumption DEF Retry
      <4> QED BY <3>3, <4>2 DEF Retry
    <3> QED BY <3>1, <3>2, <3>3
  <2> QED BY <2>1, <2>2, <2>3, ClientStep
<1>5. CASE Started(r)
  <2>1. sandbox[r] \in Attempts BY <1>5, Names, Remembered DEF Started, Remembers
  <2>2. Same BY <1>5 DEF Started
  <2> QED BY <1>5, <2>1, <2>2, ClientStep DEF Started
<1>6. CASE Fail(r) \/ Cancel(r)
  <2>1. Same BY <1>6 DEF Fail, Failing, Cancel
  <2>2. UNCHANGED requests \/ (sandbox[r] # None /\ RequestRaises(sandbox[r]))
    BY <1>6 DEF Fail, Failing, Cancel, Abandon
  <2>3. sandbox[r] # None => sandbox[r] \in Attempts BY Names, Remembered
  <2> QED BY <2>1, <2>2, <2>3, ClientStep
<1>7. CASE GiveUp(r) \/ Created(r) \/ Closed(r) \/ DeleteFails(r) \/ Close(r) \/ Collect(r)
           \/ StopCollected(r)
  <2>1. UNCHANGED <<cloud, requests>>
    BY <1>7 DEF GiveUp, Created, Closed, DeleteFails, Close, Collect, StopCollected
  <2> QED BY <2>1, ClientStep
<1> QED BY <1>1, <1>2, <1>3, <1>4, <1>5, <1>6, <1>7 DEF RunStep, Step

\* A run works only once its session is open.
LEMMA OpenedStep ==
    ASSUME RunType, RequestInv, NEW r \in Runs, Remembers(r), Opened(r), RunStep(r), ran' = ran
    PROVE  Opened(r)'
<1>1. CASE Started(r)
  <2>1. sandbox[r] \in Attempts /\ sandbox' = sandbox
    BY <1>1, Names, Remembered DEF Started, Remembers
  <2>2. ran[sandbox[r]] = 1 BY <1>1, <2>1 DEF Started, RequestReturns, RequestInv
  <2> QED BY <2>1, <2>2 DEF Opened
<1>2. CASE ~ Started(r)
  <2>1. pc'[r] # "working"
    BY <1>2
    DEF RunStep, Step, RunType, Remembers, Goto, Attempt, AlreadyStarted, GiveUp, Acquire,
        Created, Connect, Alive, Fail, Failing, StopOrRetry, Stopping, After, Closed, Delete,
        DeleteFails, Forget, RetryRequest, runVars, Close, Cancel, CancelRun, CancelStop,
        Collect, StopCollected
  <2> QED BY <2>1 DEF Opened
<1> QED BY <1>1, <1>2

-----------------------------------------------------------------------------
(* Permits *)

\* A permit is taken where there is one, and given back wherever `async with` is left.
LEMMA PermitStep ==
    ASSUME RunType, PermitInv, NEW r \in Runs, Remembers(r), RunStep(r)
    PROVE  PermitInv'
<1>1. \A q \in Runs \ {r} : kind' = kind /\ pc'[q] = pc[q] BY Locality
<1>2. r \in permits <=> kind = "modal" /\ pc[r] \in Starting BY DEF PermitInv
<1>3. permits' \subseteq Runs /\ permits' \ {r} = permits \ {r}
  BY DEF PermitInv, RunStep, Step, Attempt, GiveUp, Acquire, Created, Connect, Alive, Started,
         Fail, Failing, Closed, Delete, DeleteFails, Forget, RetryRequest, runVars, Close, Cancel,
         Collect, StopCollected
<1>4. kind' = kind /\ (r \in permits' <=> kind = "modal" /\ pc'[r] \in Starting)
  <2> USE <1>2 DEF RunType, Remembers, Starting, Over, Goto
  <2>1. CASE Attempt(r) BY <2>1 DEF Attempt, AlreadyStarted
  <2>2. CASE Acquire(r) BY <2>2 DEF Acquire
  <2>3. CASE Created(r) \/ Connect(r) \/ Alive(r) \/ RetryRequest(r)
    BY <2>3 DEF Created, Connect, Alive, RetryRequest, runVars
  <2>4. CASE Started(r) BY <2>4 DEF Started
  <2>5. CASE Fail(r) BY <2>5 DEF Fail, Failing, StopOrRetry, Stopping, After
  <2>6. CASE Cancel(r) BY <2>6 DEF Cancel, CancelRun, CancelStop, Stopping, After
  <2>7. CASE GiveUp(r) \/ Closed(r) \/ Delete(r) \/ DeleteFails(r) \/ Close(r) \/ Collect(r)
             \/ StopCollected(r)
    BY <2>7 DEF GiveUp, Closed, Delete, DeleteFails, Forget, After, Close, Stopping, Collect,
                StopCollected
  <2> QED BY <2>1, <2>2, <2>3, <2>4, <2>5, <2>6, <2>7 DEF RunStep, Step
<1>5. permits' = {q \in Runs : kind' = "modal" /\ pc'[q] \in Starting}
  BY <1>1, <1>3, <1>4 DEF PermitInv
<1>6. CASE permits' \subseteq permits
  <2>1. IsFiniteSet(permits') /\ Cardinality(permits') <= Cardinality(permits)
    BY <1>6, FS_Subset DEF PermitInv
  <2>2. Cardinality(permits) \in Nat /\ Cardinality(permits') \in Nat
    BY <2>1, FS_CardinalityType DEF PermitInv
  <2> QED BY <1>5, <2>1, <2>2, CapAssumption DEF PermitInv
<1>7. CASE Acquire(r)
  <2>1. permits' = permits \cup {r} /\ r \notin permits /\ Cardinality(permits) < Cap
    BY <1>2, <1>7 DEF Acquire, Starting
  <2>2. IsFiniteSet(permits') /\ Cardinality(permits') = Cardinality(permits) + 1
    BY <2>1, FS_AddElement DEF PermitInv
  <2>3. Cardinality(permits) \in Nat BY FS_CardinalityType DEF PermitInv
  <2> QED BY <1>5, <2>1, <2>2, <2>3, CapAssumption DEF PermitInv
<1>8. CASE ~ Acquire(r)
  <2>1. permits' \subseteq permits
    BY <1>8
    DEF RunStep, Step, Attempt, GiveUp, Created, Connect, Alive, Started, Fail, Failing, Closed,
        Delete, DeleteFails, Forget, RetryRequest, runVars, Close, Cancel, Collect, StopCollected
  <2> QED BY <1>6, <2>1
<1> QED BY <1>7, <1>8

-----------------------------------------------------------------------------
(* The invariant *)

\* What a run has is not touched when nothing of it, and of its sandboxes, changes.
LEMMA Untouched ==
    ASSUME NEW r \in Runs, Remembers(r), Answered(r), Opened(r),
           kind' = kind, pc'[r] = pc[r], attempt'[r] = attempt[r], sandbox'[r] = sandbox[r],
           runtime'[r] = runtime[r], stopped'[r] = stopped[r], final'[r] = final[r],
           \A id \in Of(r) : \/ cloud'[id] = cloud[id]
                             \/ cloud[id] \in Live /\ cloud'[id] \in {"up", "alive", "gone"},
           excused \subseteq excused',
           pc[r] = "working" => (ran[sandbox[r]] = 1 => ran'[sandbox[r]] = 1)
    PROVE  Remembers(r)' /\ Answered(r)' /\ Opened(r)'
<1>1. Id(r)' = Id(r) BY DEF Id
<1>2. Remembers(r)' BY <1>1 DEF Remembers
<1>3. Opened(r)' BY DEF Opened
<1>4. Of(r)' = Of(r) BY DEF Of
<1>5. Answered(r)'
  <2> SUFFICES ASSUME NEW id \in Of(r)
               PROVE  /\ id[2] > attempt'[r] \/ (pc'[r] = "queued" /\ id = Id(r)')
                             => cloud'[id] = "none"
                      /\ cloud'[id] \in Live /\ id \notin excused' =>
                            \/ pc'[r] = "creating" /\ id = Id(r)'
                            \/ /\ pc'[r] \notin Over /\ sandbox'[r] # None
                               /\ IF kind' = "container" THEN cloud'[id] # "requested"
                                  ELSE id = sandbox'[r]
    BY <1>4 DEF Answered
  <2> QED BY <1>1 DEF Answered, Live
<1> QED BY <1>2, <1>3, <1>5

\* The step of a run keeps everything.
LEMMA OneRunStep ==
    ASSUME SandboxInv, NEW r \in Runs, RunStep(r)
    PROVE  SandboxInv'
<1> USE DEF SandboxInv, RunInv
<1>1. RunType' /\ CloudType' /\ Remembers(r)' BY OwnStep
<1>2. Answered(r)' BY AnsweredStep
<1>3. RequestInv' /\ ran' = ran BY RequestStep
<1>4. Opened(r)' BY <1>3, OpenedStep
<1>5. PermitInv' BY PermitStep
<1>6. ASSUME NEW q \in Runs \ {r} PROVE Remembers(q)' /\ Answered(q)' /\ Opened(q)'
  <2>1. \A id \in Of(q) : cloud'[id] = cloud[id] BY CloudLocality
  <2>2. excused \subseteq excused' BY CloudLocality
  <2>3. /\ kind' = kind /\ pc'[q] = pc[q] /\ attempt'[q] = attempt[q]
        /\ sandbox'[q] = sandbox[q] /\ runtime'[q] = runtime[q]
        /\ stopped'[q] = stopped[q] /\ final'[q] = final[q]
    BY Locality
  <2> QED BY <1>3, <2>1, <2>2, <2>3, Untouched
<1> QED BY <1>1, <1>2, <1>3, <1>4, <1>5, <1>6

\* So do the provider, whatever it does and when, and the servers.
LEMMA ProviderStep ==
    ASSUME SandboxInv, Provider \/ \E m \in net : ServeMessage(m)
    PROVE  SandboxInv'
<1> USE DEF SandboxInv, RunInv
<1> DEFINE Moves == \A id \in Attempts :
                       \/ cloud'[id] = cloud[id]
                       \/ cloud[id] \in Live /\ cloud'[id] \in {"up", "alive", "gone"}
<1>1. UNCHANGED <<runVars, excused>> /\ Moves /\ CloudType'
      /\ RequestInv' /\ \A s \in Attempts : ran[s] = 1 => ran'[s] = 1
  <2>1. ASSUME NEW m \in net, ServeMessage(m)
        PROVE  UNCHANGED <<runVars, excused>> /\ Moves /\ CloudType'
               /\ RequestInv' /\ \A s \in Attempts : ran[s] = 1 => ran'[s] = 1
    BY <2>1, ServerStep DEF ServeMessage, CloudType
  <2>2. ASSUME NEW id \in Attempts, NEW from, NEW to, Provide(id, from, to),
               from \subseteq Live, to \in {"up", "alive", "gone"},
               to = "gone" \/ "alive" \notin from
        PROVE  UNCHANGED <<runVars, excused>> /\ Moves /\ CloudType'
               /\ RequestInv' /\ \A s \in Attempts : ran[s] = 1 => ran'[s] = 1
    <3>1. /\ cloud[id] \in from /\ cloud' = [cloud EXCEPT ![id] = to]
          /\ UNCHANGED <<runVars, excused>>
      BY <2>2 DEF Provide
    <3>2. Moves /\ CloudType' BY <2>2, <3>1 DEF CloudType, Live
    <3>3. CASE to = "gone"
      <4>1. Unplug({id}) BY <2>2, <3>3 DEF Provide
      <4>2. \A s \in Attempts : cloud'[s] = IF s \in {id} THEN "gone" ELSE cloud[s]
        BY <3>1, <3>3 DEF CloudType
      <4>3. RequestInv' /\ ran' = ran BY <4>1, <4>2, ServersGo
      <4> QED BY <3>1, <3>2, <4>3
    <3>4. CASE to # "gone"
      <4>1. UNCHANGED requests BY <2>2, <3>4 DEF Provide
      <4>2. \A s \in Attempts : cloud'[s] = cloud[s] \/ cloud[s] \notin {"alive", "gone"}
        BY <2>2, <3>1, <3>4 DEF CloudType, Live
      <4>3. RequestInv' /\ ran' = ran BY <4>1, <4>2, ClientStep
      <4> QED BY <3>1, <3>2, <4>3
    <3> QED BY <3>3, <3>4
  <2>3. ASSUME NEW id \in Attempts, Answer(id) \/ Boot(id) \/ Die(id)
        PROVE  \E from \in SUBSET Live, to \in {"up", "alive", "gone"} :
                  Provide(id, from, to) /\ (to = "gone" \/ "alive" \notin from)
    BY <2>3 DEF Answer, Materialise, Boot, Die, Live
  <2> QED BY <2>1, <2>2, <2>3 DEF Provider
<1>2. ASSUME NEW r \in Runs PROVE Remembers(r)' /\ Answered(r)' /\ Opened(r)'
  <2>1. \A id \in Of(r) : \/ cloud'[id] = cloud[id]
                          \/ cloud[id] \in Live /\ cloud'[id] \in {"up", "alive", "gone"}
    BY <1>1, Names
  <2>2. pc[r] = "working" => sandbox[r] \in Attempts BY Names, Remembered DEF Remembers
  <2> QED BY <1>1, <2>1, <2>2, Untouched DEF runVars
<1>3. RunType' /\ PermitInv' BY <1>1 DEF runVars, RunType, PermitInv
<1> QED BY <1>1, <1>2, <1>3

\* At first no run has begun.
LEMMA Start == Init => SandboxInv
<1> SUFFICES ASSUME Init PROVE SandboxInv
  OBVIOUS
<1> USE DEF Init, RequestInit
<1>1. RunType BY DEF RunType, Where
<1>2. CloudType BY DEF CloudType
<1>3. ASSUME NEW r \in Runs PROVE Remembers(r) /\ Answered(r) /\ Opened(r)
  BY <1>3, Names DEF Remembers, Answered, Opened, Live, Starting, Over
<1>4. PermitInv BY FS_EmptySet, CapAssumption DEF PermitInv, Starting
<1>5. RequestInv BY DEF RequestInv
<1> QED BY <1>1, <1>2, <1>3, <1>4, <1>5 DEF SandboxInv, RunInv

\* Every step keeps the invariant.
LEMMA SandboxStep == SandboxInv /\ [Next]_vars => SandboxInv'
<1> SUFFICES ASSUME SandboxInv, [Next]_vars PROVE SandboxInv'
  OBVIOUS
<1>1. CASE UNCHANGED vars
  BY <1>1
  DEF vars, runVars, requests, SandboxInv, RunType, CloudType, RunInv, Remembers, Answered,
      Opened, PermitInv, RequestInv, Id, Of
<1> QED BY <1>1, OneRunStep, ProviderStep DEF Next, RunStep

-----------------------------------------------------------------------------
(* Theorems *)

\* The inductive invariant holds at all times, whatever the provider answers, when a
\* run is cancelled and which step of starting and stopping fails.
THEOREM SandboxSafety == Spec => []SandboxInv
BY Start, SandboxStep, PTL DEF Spec

\* Type correctness: a permit is held by exactly the modal runs inside `async with`, and
\* there are never more of them than permits.
THEOREM TypeCorrect == Spec => []TypeOK
<1>1. SandboxInv => TypeOK
  <2> SUFFICES ASSUME SandboxInv PROVE TypeOK
    OBVIOUS
  <2> USE DEF SandboxInv, RunInv
  <2>1. RequestTypeOK
    <3>1. \A s \in Attempts : ran[s] \in 0 .. Retries + 1
      BY RetriesAssumption DEF RequestInv
    <3> QED BY <3>1 DEF RequestTypeOK, RequestInv
  <2>2. ASSUME NEW r \in Runs
        PROVE  /\ attempt[r] \in 0 .. MaxRetries[r] /\ sandbox[r] \in Of(r) \cup {None}
               /\ runtime[r] => sandbox[r] # None
               /\ pc[r] \in Where /\ stopped[r] \in BOOLEAN /\ final[r] \in BOOLEAN
    BY Names, Remembered DEF Remembers, RunType
  <2> QED BY <2>1, <2>2 DEF TypeOK, RunType, CloudType, PermitInv, Where, Live
<1> QED BY <1>1, SandboxSafety, PTL

\* No sandbox is left behind: when a run is over, those of all its attempts are gone,
\* but for the ones nobody could know of or whose own clean-up failed.
THEOREM NothingLeft == Spec => []NothingLeftBehind
<1>1. SandboxInv => NothingLeftBehind
  BY DEF SandboxInv, RunInv, RunType, Remembers, Answered, NothingLeftBehind, Live, Over
<1> QED BY <1>1, SandboxSafety, PTL

\* A run works in the sandbox of its last attempt, whose server has opened its session
\* once, and no stop of an earlier attempt is about to take it away.
THEOREM OwnSandbox == Spec => []WorksInItsOwnSandbox
<1>1. SandboxInv => WorksInItsOwnSandbox
  <2> SUFFICES ASSUME SandboxInv, NEW r \in Runs, pc[r] = "working"
               PROVE  sandbox[r] = Id(r) /\ runtime[r] /\ ran[Id(r)] = 1 /\ ~ stopped[r]
    BY DEF WorksInItsOwnSandbox
  <2>1. Remembers(r) /\ Opened(r) BY DEF SandboxInv, RunInv
  <2> QED BY <2>1 DEF Remembers, Opened, Over
<1> QED BY <1>1, SandboxSafety, PTL

\* The sandboxes of a modal worker that are still booting hold permits: a run without
\* one has nothing yet, or a sandbox that has answered.
THEOREM BootingWithinCap == Spec => []StartingWithinCap
<1>1. SandboxInv => StartingWithinCap
  <2> DEFINE Booting == {r \in Runs : /\ sandbox[r] # None /\ cloud[sandbox[r]] = "up"
                                      /\ pc[r] \notin {"closing", "deleting"} \cup Over}
  <2> SUFFICES ASSUME SandboxInv, kind = "modal" PROVE Cardinality(Booting) <= Cap
    BY DEF StartingWithinCap
  <2>1. ASSUME NEW r \in Booting PROVE r \in permits
    <3>1. Remembers(r) /\ Opened(r) /\ pc[r] \in Where BY DEF SandboxInv, RunInv, RunType
    <3>2. sandbox[r] \in Attempts BY <3>1, Names, Remembered DEF SandboxInv
    <3>3. pc[r] # "working"
      BY <3>1, <3>2 DEF Opened, SandboxInv, RequestInv
    <3>4. pc[r] \in Starting BY <3>1, <3>3 DEF Remembers, Where
    <3> QED BY <3>4 DEF SandboxInv, PermitInv
  <2> HIDE DEF Booting
  <2>2. IsFiniteSet(Booting) /\ Cardinality(Booting) <= Cardinality(permits)
    BY <2>1, FS_Subset DEF SandboxInv, PermitInv
  <2>3. Cardinality(Booting) \in Nat /\ Cardinality(permits) \in Nat
    BY <2>2, FS_CardinalityType DEF SandboxInv, PermitInv
  <2> QED BY <2>2, <2>3, CapAssumption DEF SandboxInv, PermitInv
<1> QED BY <1>1, SandboxSafety, PTL
===============================================================================
