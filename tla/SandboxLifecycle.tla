--------------------------- MODULE SandboxLifecycle ---------------------------
(***************************************************************************)
(* The sandbox of a run, from agent_loop.py's env.start to the env.close   *)
(* of its finally: start and stop of ModalDeployment, of LocalDeployment   *)
(* with an OCI container, and of VefaasDeployment, over a provider that    *)
(* creates a sandbox late or never, after its answer was lost, or lets it  *)
(* die.  The three differ in what is retried, what is awaited, what a      *)
(* failed attempt cleans up and which field remembers the sandbox; a       *)
(* worker uses one of them.  Any await may fail, time out or be cancelled. *)
(* create_session is a RemoteRequest; what a run then does with its sandbox*)
(* is left to AgentInteraction.                                            *)
(***************************************************************************)
EXTENDS Integers, FiniteSets

CONSTANTS
    Runs,
    MaxRetries,  \* each run's max_retries of start
    Cap,         \* permits of modal's STARTING semaphore
    Retries,     \* of a request
    MaxCancels,  \* bound on cancellations
    None

ASSUME RetriesAssumption == MaxRetries \in [Runs -> Nat \ {0}] /\ Retries \in Nat
ASSUME CancelsAssumption == MaxCancels \in Nat
ASSUME CapAssumption == Cap \in Nat \ {0}
ASSUME NoneAssumption == None \notin Runs \X Nat

VARIABLES
    kind,       \* the deployment: "modal", "container" or "vefaas"
    pc,         \* what the run awaits
    attempt,    \* the attempt of start
    sandbox,    \* _sandbox, _container_name or _sandbox_id
    runtime,    \* whether _runtime is set
    stopped,    \* _stopped
    final,      \* stop was called by env.close, not by start
    permits,    \* holders of a STARTING permit
    cancelled,  \* runs that were cancelled, once each
    cloud,      \* the provider: "none", "requested", "up", "alive" (its server answers), "gone"
    excused,    \* history: sandboxes whose creation was cut short, or whose clean-up failed
    call, net, seen, ran  \* RemoteRequest

runVars == <<kind, pc, attempt, sandbox, runtime, stopped, final, permits, cancelled>>
requests == <<call, net, seen, ran>>
vars == <<runVars, cloud, excused, requests>>

\* A sandbox is named by the attempt that asks for it.
Attempts == UNION {{r} \X (1 .. MaxRetries[r]) : r \in Runs}
Id(r) == <<r, attempt[r]>>
Of(r) == {id \in Attempts : id[1] = r}

INSTANCE RemoteRequest WITH Runtimes <- Attempts

Init ==
    /\ kind \in {"modal", "container", "vefaas"}
    /\ pc = [r \in Runs |-> "idle"]
    /\ attempt = [r \in Runs |-> 0]
    /\ sandbox = [r \in Runs |-> None]
    /\ runtime = [r \in Runs |-> FALSE]
    /\ stopped = [r \in Runs |-> FALSE]
    /\ final = [r \in Runs |-> FALSE]
    /\ permits = {} /\ cancelled = {}
    /\ cloud = [id \in Attempts |-> "none"]
    /\ excused = {}
    /\ RequestInit

-----------------------------------------------------------------------------
(* start *)

Goto(r, where) == pc' = [pc EXCEPT ![r] = where]

AlreadyStarted(r) == kind = "modal" /\ runtime[r] /\ sandbox[r] # None

\* Mutant: a failed attempt is not counted.
AttemptUncounted(r) ==
    /\ pc[r] \in {"idle", "backoff"}
    /\ attempt' = [attempt EXCEPT ![r] = 1]
    /\ stopped' = [stopped EXCEPT ![r] = kind # "container" /\ @]
    /\ sandbox' = IF kind = "container" THEN [sandbox EXCEPT ![r] = Id(r)'] ELSE sandbox
    /\ cloud' = IF kind = "modal" THEN cloud ELSE [cloud EXCEPT ![Id(r)'] = "requested"]
    /\ Goto(r, IF AlreadyStarted(r) THEN "working"
               ELSE IF kind = "modal" THEN "queued" ELSE "creating")
    /\ UNCHANGED <<kind, runtime, final, permits, cancelled, excused, requests>>

(* The next attempt.  A container has its name before it exists; modal's   *)
(* _start returns at once when it finds a sandbox and a runtime, and waits *)
(* for a permit otherwise.                                                 *)
Attempt(r) ==
    /\ pc[r] \in {"idle", "backoff"}
    /\ attempt' = [attempt EXCEPT ![r] = @ + 1]
    /\ stopped' = [stopped EXCEPT ![r] = kind # "container" /\ @]
    /\ sandbox' = IF kind = "container" THEN [sandbox EXCEPT ![r] = Id(r)'] ELSE sandbox
    /\ cloud' = IF kind = "modal" THEN cloud ELSE [cloud EXCEPT ![Id(r)'] = "requested"]
    /\ Goto(r, IF AlreadyStarted(r) THEN "working"
               ELSE IF kind = "modal" THEN "queued" ELSE "creating")
    /\ UNCHANGED <<kind, runtime, final, permits, cancelled, excused, requests>>

(* The wall budget of modal's start is spent: no further attempt.          *)
GiveUp(r) ==
    /\ kind = "modal" /\ pc[r] = "backoff"
    /\ Goto(r, "over")
    /\ UNCHANGED <<kind, attempt, sandbox, runtime, stopped, final, permits, cancelled, cloud,
                   excused, requests>>

Acquire(r) ==
    /\ pc[r] = "queued" /\ Cardinality(permits) < Cap
    /\ permits' = permits \cup {r}
    /\ cloud' = [cloud EXCEPT ![Id(r)] = "requested"]
    /\ Goto(r, "creating")
    /\ UNCHANGED <<kind, attempt, sandbox, runtime, stopped, final, cancelled, excused, requests>>

\* Mutant: the permit covers the creation only.
CreatedReleases(r) ==
    /\ pc[r] = "creating" /\ cloud[Id(r)] \in {"up", "alive"}
    /\ sandbox' = [sandbox EXCEPT ![r] = Id(r)]
    /\ permits' = permits \ {r}
    /\ Goto(r, "connecting")
    /\ UNCHANGED <<kind, attempt, runtime, stopped, final, cancelled, cloud, excused, requests>>

(* The provider's answer: the sandbox is known from here on.               *)
Created(r) ==
    /\ pc[r] = "creating" /\ cloud[Id(r)] \in {"up", "alive"}
    /\ sandbox' = [sandbox EXCEPT ![r] = Id(r)]
    /\ Goto(r, "connecting")
    /\ UNCHANGED <<kind, attempt, runtime, stopped, final, permits, cancelled, cloud, excused,
                   requests>>

(* Tunnels or address, then the client; veFaaS opens the session at once.  *)
Connect(r) ==
    /\ pc[r] = "connecting"
    /\ runtime' = [runtime EXCEPT ![r] = TRUE]
    /\ IF kind = "vefaas"
       THEN Goto(r, "session") /\ Post(sandbox[r])
       ELSE Goto(r, "waiting") /\ UNCHANGED requests
    /\ UNCHANGED <<kind, attempt, sandbox, stopped, final, permits, cancelled, cloud, excused>>

(* _wait_until_alive *)
Alive(r) ==
    /\ pc[r] = "waiting" /\ cloud[sandbox[r]] = "alive"
    /\ Goto(r, "session")
    /\ Post(sandbox[r])
    /\ UNCHANGED <<kind, attempt, sandbox, runtime, stopped, final, permits, cancelled, cloud,
                   excused>>

RetryRequest(r) ==
    /\ pc[r] = "session" /\ Retry(sandbox[r])
    /\ UNCHANGED <<runVars, cloud, excused>>

Started(r) ==
    /\ pc[r] = "session" /\ RequestReturns(sandbox[r])
    /\ permits' = permits \ {r}
    /\ Goto(r, "working")
    /\ UNCHANGED <<kind, attempt, sandbox, runtime, stopped, final, cancelled, cloud, excused>>

-----------------------------------------------------------------------------
(* Failures, and the stop that follows *)

(* Where a stop ends: env.close is the last thing a run does, and when     *)
(* start gives up, its env.close finds nothing left to stop.               *)
After(r, last) == IF ~ last /\ attempt[r] < MaxRetries[r] THEN "backoff" ELSE "over"

(* The first await of a stop.                                              *)
Stopping(r, last) ==
    IF ~ stopped[r] /\ runtime[r] THEN "closing"
    ELSE IF ~ stopped[r] /\ sandbox[r] # None THEN "deleting"
    ELSE After(r, last)

Abandon(r) ==
    IF sandbox[r] # None /\ call[sandbox[r]] # None
    THEN RequestRaises(sandbox[r]) ELSE UNCHANGED requests

(* The permit is released by the `async with` of _start.  veFaaS retries   *)
(* nothing but the creation, and cleans up after none of it.               *)
Failing(r) ==
    /\ pc[r] \in {"queued", "creating", "connecting", "waiting", "session"}
    /\ kind = "container" /\ pc[r] = "creating" => cloud[Id(r)] # "requested"
    /\ Abandon(r)
    /\ excused' = IF pc[r] = "creating" /\ kind # "container"
                  THEN excused \cup {Id(r)} ELSE excused
    /\ UNCHANGED <<kind, attempt, sandbox, runtime, stopped, cancelled, cloud>>

StopOrRetry(r) ==
    IF kind = "vefaas"
    THEN IF pc[r] = "creating"
         THEN Goto(r, After(r, FALSE)) /\ UNCHANGED final
         ELSE Goto(r, Stopping(r, TRUE)) /\ final' = [final EXCEPT ![r] = TRUE]
    ELSE Goto(r, Stopping(r, FALSE)) /\ UNCHANGED final

\* Mutant: a failed attempt keeps its permit.
FailKeepsPermit(r) == Failing(r) /\ StopOrRetry(r) /\ UNCHANGED permits

\* Mutant: a failed attempt is not stopped before the next one.
FailUnstopped(r) ==
    /\ Failing(r)
    /\ permits' = permits \ {r}
    /\ Goto(r, After(r, FALSE)) /\ UNCHANGED final

(* An exception or modal's wait_for before start returns.  A thread that   *)
(* runs the container engine cannot be interrupted, and ends first.        *)
Fail(r) ==
    /\ Failing(r)
    /\ permits' = permits \ {r}
    /\ StopOrRetry(r)

\* Mutant: an exception of runtime.close() ends the stop.
ClosedOrRaised(r) ==
    /\ pc[r] = "closing"
    /\ runtime' = [runtime EXCEPT ![r] = FALSE]
    /\ pc' \in {[pc EXCEPT ![r] = where] : where \in {"deleting", After(r, final[r])}}
    /\ UNCHANGED <<kind, attempt, sandbox, stopped, final, permits, cancelled, cloud, excused,
                   requests>>

(* runtime.close(); its exceptions are swallowed.                          *)
Closed(r) ==
    /\ pc[r] = "closing"
    /\ runtime' = [runtime EXCEPT ![r] = FALSE]
    /\ Goto(r, "deleting")
    /\ UNCHANGED <<kind, attempt, sandbox, stopped, final, permits, cancelled, cloud, excused,
                   requests>>

(* A container is removed by its name, which all attempts share.           *)
Deletes(r) ==
    IF kind = "container"
    THEN {id \in Of(r) : cloud[id] \in {"up", "alive"}}
    ELSE {sandbox[r]}

Forget(r) ==
    /\ pc[r] = "deleting"
    /\ sandbox' = [sandbox EXCEPT ![r] = None]
    /\ stopped' = [stopped EXCEPT ![r] = kind # "modal"]
    /\ Goto(r, After(r, final[r]))
    /\ UNCHANGED <<kind, attempt, runtime, final, permits, cancelled>>

Delete(r) ==
    /\ Forget(r)
    /\ cloud' = [id \in Attempts |-> IF id \in Deletes(r) THEN "gone" ELSE cloud[id]]
    /\ Unplug(Deletes(r))
    /\ UNCHANGED excused

(* Modal's terminate failed twice, or the others' once: forgotten all the  *)
(* same ("Sandbox may leak").                                              *)
DeleteFails(r) ==
    /\ Forget(r)
    /\ excused' = excused \cup Deletes(r)
    /\ UNCHANGED <<cloud, requests>>

-----------------------------------------------------------------------------
(* The run itself, its end, and its cancellation *)

(* agent_loop's finally: after its result, or an exception of any step.    *)
Close(r) ==
    /\ pc[r] = "working"
    /\ final' = [final EXCEPT ![r] = TRUE]
    /\ Goto(r, Stopping(r, TRUE))
    /\ UNCHANGED <<kind, attempt, sandbox, runtime, stopped, permits, cancelled, cloud, excused,
                   requests>>

(* CancelledError goes past every `except Exception`, to the finally of    *)
(* agent_loop; start's own stop is left where it stands.                   *)
CancelRun(r) ==
    /\ pc[r] \in {"queued", "creating", "connecting", "waiting", "session", "backoff", "working"}
    /\ kind = "vefaas" => pc[r] # "connecting"
    /\ Goto(r, Stopping(r, TRUE))
    /\ excused' = IF pc[r] = "creating" THEN excused \cup {Id(r)} ELSE excused
    /\ UNCHANGED sandbox

(* A stop that is cut short has forgotten the sandbox (the finally around  *)
(* the deletion), or is done once more by env.close, unless it was that.   *)
CancelStop(r) ==
    LET remembers == kind = "modal" \/ pc[r] = "closing"
        again == remembers /\ ~ final[r]
    IN  /\ pc[r] \in {"closing", "deleting"}
        /\ Goto(r, IF again THEN pc[r] ELSE "over")
        /\ excused' = IF again THEN excused ELSE excused \cup {sandbox[r]} \cup Deletes(r)
        /\ sandbox' = IF remembers THEN sandbox ELSE [sandbox EXCEPT ![r] = None]

Cancel(r) ==
    /\ r \notin cancelled /\ Cardinality(cancelled) < MaxCancels
    /\ cancelled' = cancelled \cup {r}
    /\ CancelRun(r) \/ CancelStop(r)
    /\ final' = [final EXCEPT ![r] = TRUE]
    /\ permits' = permits \ {r}
    /\ Abandon(r)
    /\ UNCHANGED <<kind, attempt, runtime, stopped, cloud>>

(* __del__ of a deployment that still has its sandbox: it schedules stop() *)
(* as a task, and marks itself as stopped before the task can run.         *)
Collect(r) ==
    /\ pc[r] = "over" /\ kind # "modal"
    /\ sandbox[r] # None /\ ~ stopped[r]
    /\ stopped' = [stopped EXCEPT ![r] = TRUE]
    /\ Goto(r, "collected")
    /\ UNCHANGED <<kind, attempt, sandbox, runtime, final, permits, cancelled, cloud, excused,
                   requests>>

(* The task: stop() of what __del__ has marked.                            *)
StopCollected(r) ==
    /\ pc[r] = "collected"
    /\ Goto(r, IF stopped[r] THEN "swept" ELSE Stopping(r, TRUE))
    /\ UNCHANGED <<kind, attempt, sandbox, runtime, stopped, final, permits, cancelled, cloud,
                   excused, requests>>

-----------------------------------------------------------------------------
(* The provider *)

Provide(id, from, to) ==
    /\ cloud[id] \in from
    /\ cloud' = [cloud EXCEPT ![id] = to]
    /\ IF to = "gone" THEN Unplug({id}) ELSE UNCHANGED requests
    /\ UNCHANGED <<runVars, excused>>

(* Also when nobody waits for it any more.  A container's name is unique.  *)
Materialise(id) ==
    /\ kind = "container" => \A other \in Of(id[1]) : cloud[other] \notin {"up", "alive"}
    /\ Provide(id, {"requested"}, "up")

Answer(id) == Materialise(id) \/ Provide(id, {"requested"}, "gone")

(* What becomes of a sandbox nobody remembers any more is not followed.    *)
Known(id) == \E r \in Runs : sandbox[r] = id \/ (pc[r] = "creating" /\ Id(r) = id)

Boot(id) == Known(id) /\ Provide(id, {"up"}, "alive")
Die(id) == Known(id) /\ Provide(id, {"up", "alive"}, "gone")

ServeMessage(m) ==
    /\ cloud[m.to] = "alive"
    /\ Serve(m)
    /\ UNCHANGED <<runVars, cloud, excused>>

-----------------------------------------------------------------------------
Step(r) ==
    \/ Attempt(r) \/ GiveUp(r) \/ Acquire(r) \/ Created(r) \/ Connect(r) \/ Alive(r)
    \/ Started(r) \/ Fail(r) \/ Closed(r) \/ Delete(r) \/ DeleteFails(r)
    \/ RetryRequest(r) \/ Close(r)

Provider == \E id \in Attempts : Answer(id) \/ Boot(id) \/ Die(id)

Next ==
    \/ \E r \in Runs : Step(r) \/ Cancel(r) \/ Collect(r) \/ StopCollected(r)
    \/ Provider
    \/ \E m \in net : ServeMessage(m)

Spec == Init /\ [][Next]_vars

(* A run that has begun goes on: each of its awaits returns, fails or times*)
(* out.  The container engine ends its command; a provider need not answer.*)
FairSpec ==
    /\ Spec
    /\ \A r \in Runs : WF_vars(attempt[r] > 0 /\ Step(r))
    /\ \A id \in Attempts : WF_vars(kind = "container" /\ Answer(id))

-----------------------------------------------------------------------------
(* Properties *)

Starting == {"creating", "connecting", "waiting", "session"}
Over == {"over", "collected", "swept"}

\* Type invariant; the permits are held by the modal runs inside `async with`, within the
\* cap, and by nobody else.
TypeOK ==
    /\ kind \in {"modal", "container", "vefaas"}
    /\ \A r \in Runs :
          /\ pc[r] \in {"idle", "queued", "backoff", "working", "closing", "deleting"}
                   \cup Starting \cup Over
          /\ attempt[r] \in 0 .. MaxRetries[r]
          /\ sandbox[r] \in Of(r) \cup {None}
          /\ runtime[r] => sandbox[r] # None
          /\ stopped[r] \in BOOLEAN /\ final[r] \in BOOLEAN
    /\ permits = {r \in Runs : kind = "modal" /\ pc[r] \in Starting}
    /\ Cardinality(permits) <= Cap
    /\ cancelled \subseteq Runs
    /\ \A id \in Attempts : cloud[id] \in {"none", "requested", "up", "alive", "gone"}
    /\ excused \subseteq Attempts
    /\ RequestTypeOK

\* When a run is over, all its sandboxes are gone, those of failed attempts too, unless the
\* provider's answer never came, its start was cancelled before that (a container's name is
\* known even so, but its engine may be at it still when the name is removed), deleting one
\* failed or the clean-up itself was cancelled.
NothingLeftBehind ==
    \A r \in Runs : pc[r] \in Over =>
        \A id \in Of(r) : cloud[id] \in {"requested", "up", "alive"} => id \in excused

\* A run works in the sandbox of its last attempt, whose server has opened one session for
\* it, however often the request was sent and read, and no stop of an earlier attempt has
\* taken the sandbox or the runtime from it.
WorksInItsOwnSandbox ==
    \A r \in Runs : pc[r] = "working" =>
        /\ sandbox[r] = Id(r) /\ runtime[r]
        /\ ran[Id(r)] = 1
        /\ ~ stopped[r]

\* A run that has begun ends, whatever its attempts, the provider and its requests do.
EveryRunEnds == \A r \in Runs : attempt[r] > 0 ~> pc[r] \in Over

\* At most Cap sandboxes of a modal worker are up and not alive yet (modal/deployment.py:27),
\* those aside that a stop is taking down, which have lost their permit before they are
\* terminated, and those nobody knows of, since the answer to their creation was lost.
StartingWithinCap ==
    kind = "modal" =>
        Cardinality({r \in Runs : /\ sandbox[r] # None /\ cloud[sandbox[r]] = "up"
                                  /\ pc[r] \notin {"closing", "deleting"} \cup Over}) <= Cap

\* Once the stop that __del__ schedules has run, the deployment has no sandbox left
\* (vefaas/deployment.py:228: "Ensuring vefaas deployment is stopped because object is
\* deleted").
CollectedIsStopped == \A r \in Runs : pc[r] = "swept" => sandbox[r] = None
===============================================================================
