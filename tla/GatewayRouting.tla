--------------------------- MODULE GatewayRouting ---------------------------
(***************************************************************************)
(* The sessions of a rollout batch across the pool of gateway actors:      *)
(* AgentFramework._run_session (framework/framework.py) drives one session *)
(* per rollout, GatewayManager (gateway/manager.py) places it on an actor  *)
(* and forwards its lifecycle calls, and each actor (gateway/gateway.py)   *)
(* keeps its sessions and serves the agents' requests.                     *)
(*                                                                         *)
(* A call to an actor is remote: it is under way on its own once made, is  *)
(* executed even when its caller was cancelled meanwhile, and raises when  *)
(* the actor is dead.  The manager and the rollouts run on one event loop: *)
(* what stands between two awaits is one action.  A session is seen from   *)
(* outside: its phase, and how many generations it answered; GatewaySession *)
(* is the detailed model of one.  Session identifiers are fresh UUIDs, so  *)
(* a rollout stands for its session too.                                   *)
(***************************************************************************)
EXTENDS Integers, FiniteSets

CONSTANTS
    Rollouts,     \* one per session of the batch
    GatewayCount, \* gateway_count
    Cap,          \* max_concurrent_sessions of the runner
    MaxTurns,     \* bound on the generations answered in one session
    MaxFaults,    \* bound on the rollouts cancelled and the actors that die
    None

ASSUME RolloutsAssumption == IsFiniteSet(Rollouts)
ASSUME GatewaysAssumption == GatewayCount \in Nat \ {0}
ASSUME CapAssumption == Cap \in Nat \ {0}
ASSUME BoundsAssumption == MaxTurns \in Nat /\ MaxFaults \in Nat

Gateways == 1..GatewayCount

ASSUME NoneAssumption ==
    /\ None \notin Gateways /\ None \notin {"ok", "error"}
    /\ None \notin [op : {"create", "finalize", "abort"}, on : Gateways]

VARIABLES
    stage,    \* where each rollout stands in _run_session
    result,   \* turns in the trajectories a rollout got, None before
    manager,  \* "up", "stopping" or "down": shutdown has cleared it
    route,    \* _session_to_gateway_index, None when absent
    load,     \* active_sessions_per_gateway
    call,     \* the remote call under way for a rollout, or None
    reply,    \* its outcome once executed: "ok", "error" or None
    alive,    \* whether an actor's process lives
    serving,  \* whether its HTTP server is started
    home,     \* the actor a session was created on
    listed,   \* whether it is in that actor's _sessions
    phase,    \* its phase
    answered, \* the generations it answered
    request   \* the agent's request: "idle", "posted" or "generating"

rolloutVars == <<stage, result>>
managerVars == <<manager, route, load>>
callVars == <<call, reply>>
actorVars == <<alive, serving, home, listed, phase, answered, request>>
vars == <<rolloutVars, managerVars, callVars, actorVars>>

Ended == {"returned", "raised", "cancelled"}
Stages == {"queued", "creating", "running", "finalizing", "aborting", "scoring"} \cup Ended

Init ==
    /\ stage = [s \in Rollouts |-> "queued"]
    /\ result = [s \in Rollouts |-> None]
    /\ manager = "up"
    /\ route = [s \in Rollouts |-> None]
    /\ load = [g \in Gateways |-> 0]
    /\ call = [s \in Rollouts |-> None]
    /\ reply = [s \in Rollouts |-> None]
    /\ alive = [g \in Gateways |-> TRUE]
    /\ serving = [g \in Gateways |-> TRUE]
    /\ home = [s \in Rollouts |-> None]
    /\ listed = [s \in Rollouts |-> FALSE]
    /\ phase = [s \in Rollouts |-> "ACTIVE"]
    /\ answered = [s \in Rollouts |-> 0]
    /\ request = [s \in Rollouts |-> "idle"]

(* The bound on faults, see MaxFaults.                                     *)
FaultsLeft ==
    Cardinality({s \in Rollouts : stage[s] = "cancelled"})
    + Cardinality({g \in Gateways : ~ alive[g]}) < MaxFaults

-----------------------------------------------------------------------------
(* The manager *)

Goto(s, label) == stage' = [stage EXCEPT ![s] = label]

(* gateway.<op>.remote(...), up to the await of its outcome.               *)
Remote(s, op, g) ==
    /\ call' = [call EXCEPT ![s] = [op |-> op, on |-> g]]
    /\ reply' = [reply EXCEPT ![s] = None]

Answered(s, op, outcome) ==
    call[s] # None /\ call[s].op = op /\ reply[s] = outcome

Consumed(s) ==
    /\ call' = [call EXCEPT ![s] = None]
    /\ reply' = [reply EXCEPT ![s] = None]

\* Mutant: only the sessions that were already created count.
LeastLoadedOfCreated ==
    LET created(g) == Cardinality({s \in Rollouts : route[s] = g /\ stage[s] # "creating"})
    IN  CHOOSE g \in Gateways : \A h \in Gateways :
            created(g) < created(h) \/ (created(g) = created(h) /\ g <= h)

(* _select_gateway_index: the first of those with the fewest sessions.     *)
LeastLoaded ==
    CHOOSE g \in Gateways : \A h \in Gateways :
        load[g] < load[h] \/ (load[g] = load[h] /\ g <= h)

(* The slot is reserved before the remote create is awaited.               *)
Reserve(s, g) ==
    /\ route' = [route EXCEPT ![s] = g]
    /\ load' = [load EXCEPT ![g] = @ + 1]

(* The route is dropped and the slot freed.  After a shutdown the list of  *)
(* counters is empty and indexing it raises, with nothing left to free.    *)
Unroute(s, g) ==
    IF manager = "down"
    THEN UNCHANGED <<route, load>>
    ELSE /\ route' = [route EXCEPT ![s] = None]
         /\ load' = [load EXCEPT ![g] = @ - 1]

(* shutdown: stop the HTTP servers of all actors, then forget everything.  *)
BeginShutdown ==
    /\ manager = "up"
    /\ manager' = "stopping"
    /\ UNCHANGED <<rolloutVars, route, load, callVars, actorVars>>

EndShutdown ==
    /\ manager = "stopping"
    /\ \A g \in Gateways : ~ serving[g]
    /\ manager' = "down"
    /\ route' = [s \in Rollouts |-> None]
    /\ load' = [g \in Gateways |-> 0]
    /\ UNCHANGED <<rolloutVars, callVars, actorVars>>

(* gather raises for a dead actor, and nothing is forgotten.               *)
FailShutdown ==
    /\ manager = "stopping"
    /\ \E g \in Gateways : ~ alive[g]
    /\ manager' = "up"
    /\ UNCHANGED <<rolloutVars, route, load, callVars, actorVars>>

-----------------------------------------------------------------------------
(* One rollout *)

\* Mutant: the permit is given back once the runner is done.
HoldingWhileRunning == {s \in Rollouts : stage[s] \in {"creating", "running"}}

(* The rollouts inside `async with runner_semaphore`.                      *)
Holding == {s \in Rollouts : stage[s] \notin {"queued"} \cup Ended}

(* The permit is taken and create_session called, up to its await.         *)
BeginCreate(s) ==
    /\ stage[s] = "queued" /\ Cardinality(Holding) < Cap
    /\ manager # "down"
    /\ Reserve(s, LeastLoaded)
    /\ Remote(s, "create", LeastLoaded)
    /\ Goto(s, "creating")
    /\ UNCHANGED <<result, manager, actorVars>>

(* No gateway actors configured.                                           *)
RejectCreate(s) ==
    /\ stage[s] = "queued" /\ Cardinality(Holding) < Cap
    /\ manager = "down"
    /\ Goto(s, "raised")
    /\ UNCHANGED <<result, managerVars, callVars, actorVars>>

\* Mutant: the outcome of the remote create is not looked at.
CreatedUnchecked(s) ==
    /\ stage[s] = "creating" /\ reply[s] # None
    /\ Goto(s, "running")
    /\ Consumed(s)
    /\ UNCHANGED <<result, managerVars, actorVars>>

(* The session's handle arrives and the runner starts.                     *)
Created(s) ==
    /\ stage[s] = "creating" /\ Answered(s, "create", "ok")
    /\ Goto(s, "running")
    /\ Consumed(s)
    /\ UNCHANGED <<result, managerVars, actorVars>>

\* Mutant: the route is dropped but the slot not freed.
CreateFailedKeepingSlot(s) ==
    /\ stage[s] = "creating" /\ Answered(s, "create", "error")
    /\ route' = [route EXCEPT ![s] = None]
    /\ Goto(s, "raised")
    /\ Consumed(s)
    /\ UNCHANGED <<result, manager, load, actorVars>>

(* The remote create raises: roll back.                                    *)
CreateFailed(s) ==
    /\ stage[s] = "creating" /\ Answered(s, "create", "error")
    /\ Unroute(s, call[s].on)
    /\ Goto(s, "raised")
    /\ Consumed(s)
    /\ UNCHANGED <<result, manager, actorVars>>

(* abort_session of the manager, as the exception handler calls it: a      *)
(* session without a route is a KeyError.                                  *)
BeginAbort(s) ==
    IF route[s] = None
    THEN Goto(s, "raised") /\ Consumed(s)
    ELSE Goto(s, "aborting") /\ Remote(s, "abort", route[s])

\* Mutant: a failing runner leaves its session as it is.
RunnerRaisesThrough(s) ==
    /\ stage[s] = "running"
    /\ Goto(s, "raised")
    /\ UNCHANGED <<result, managerVars, callVars, actorVars>>

RunnerRaises(s) ==
    /\ stage[s] = "running"
    /\ BeginAbort(s)
    /\ UNCHANGED <<result, managerVars, actorVars>>

(* The runner returns; its session is finalized, up to the await.  Without *)
(* a route that is a KeyError, and so is the abort that follows.           *)
RunnerReturns(s) ==
    /\ stage[s] = "running"
    /\ IF route[s] = None
       THEN Goto(s, "raised") /\ UNCHANGED callVars
       ELSE Goto(s, "finalizing") /\ Remote(s, "finalize", route[s])
    /\ UNCHANGED <<result, managerVars, actorVars>>

(* The trajectories arrive, and the slot is freed.  Should that raise, the *)
(* trajectories are lost.                                                  *)
Finalized(s) ==
    /\ stage[s] = "finalizing" /\ Answered(s, "finalize", "ok")
    /\ IF manager = "down"
       THEN Goto(s, "raised") /\ UNCHANGED result
       ELSE Goto(s, "scoring") /\ result' = [result EXCEPT ![s] = answered[s]]
    /\ Unroute(s, call[s].on)
    /\ Consumed(s)
    /\ UNCHANGED <<manager, actorVars>>

FinalizeFailed(s) ==
    /\ stage[s] = "finalizing" /\ Answered(s, "finalize", "error")
    /\ BeginAbort(s)
    /\ UNCHANGED <<result, managerVars, actorVars>>

(* The abort is done and the exception goes on to the batch.               *)
Aborted(s) ==
    /\ stage[s] = "aborting" /\ Answered(s, "abort", "ok")
    /\ Unroute(s, call[s].on)
    /\ Goto(s, "raised")
    /\ Consumed(s)
    /\ UNCHANGED <<result, manager, actorVars>>

(* The abort raises in turn: the route and the slot stay.                  *)
AbortFailed(s) ==
    /\ stage[s] = "aborting" /\ Answered(s, "abort", "error")
    /\ Goto(s, "raised")
    /\ Consumed(s)
    /\ UNCHANGED <<result, managerVars, actorVars>>

(* The reward worker answers or raises, after the session is gone.         *)
Scored(s) ==
    /\ stage[s] = "scoring"
    /\ Goto(s, "returned") \/ Goto(s, "raised")
    /\ UNCHANGED <<result, managerVars, callVars, actorVars>>

(* The rollout's task is cancelled at an await.  create_session rolls back *)
(* on any exception, and raises in turn once the counters are gone; the    *)
(* handler of _run_session catches no cancellation.  A remote call under   *)
(* way is executed all the same.                                           *)
Cancel(s) ==
    /\ stage[s] \notin Ended /\ FaultsLeft
    /\ IF stage[s] = "creating"
       THEN /\ Unroute(s, call[s].on)
            /\ Goto(s, IF manager = "down" THEN "raised" ELSE "cancelled")
       ELSE /\ UNCHANGED <<route, load>>
            /\ Goto(s, "cancelled")
    /\ UNCHANGED <<result, manager, callVars, actorVars>>

-----------------------------------------------------------------------------
(* The actors *)

Pending(s, op) == call[s] # None /\ call[s].op = op /\ reply[s] = None
Reply(s, outcome) == reply' = [reply EXCEPT ![s] = outcome]

(* create_session: it raises unless the server is started.                 *)
ActorCreates(s) ==
    LET g == call[s].on IN
    /\ Pending(s, "create") /\ alive[g]
    /\ IF serving[g]
       THEN /\ home' = [home EXCEPT ![s] = g]
            /\ listed' = [listed EXCEPT ![s] = TRUE]
            /\ Reply(s, "ok")
       ELSE /\ UNCHANGED <<home, listed>>
            /\ Reply(s, "error")
    /\ UNCHANGED <<rolloutVars, managerVars, call, alive, serving, phase, answered, request>>

(* finalize_session: an unknown session is a KeyError.                     *)
ActorFinalizes(s) ==
    /\ Pending(s, "finalize") /\ alive[call[s].on]
    /\ IF listed[s]
       THEN /\ phase' = [phase EXCEPT ![s] = "FINALIZED"]
            /\ listed' = [listed EXCEPT ![s] = FALSE]
            /\ Reply(s, "ok")
       ELSE /\ UNCHANGED <<phase, listed>>
            /\ Reply(s, "error")
    /\ UNCHANGED <<rolloutVars, managerVars, call, alive, serving, home, answered, request>>

(* abort_session: nothing to do for an unknown session.                    *)
ActorAborts(s) ==
    /\ Pending(s, "abort") /\ alive[call[s].on]
    /\ IF listed[s]
       THEN /\ phase' = [phase EXCEPT ![s] = "ABORTED"]
            /\ listed' = [listed EXCEPT ![s] = FALSE]
       ELSE UNCHANGED <<phase, listed>>
    /\ Reply(s, "ok")
    /\ UNCHANGED <<rolloutVars, managerVars, call, alive, serving, home, answered, request>>

(* A call to a dead actor raises.                                          *)
ActorUnreachable(s) ==
    /\ call[s] # None /\ reply[s] = None /\ ~ alive[call[s].on]
    /\ Reply(s, "error")
    /\ UNCHANGED <<rolloutVars, managerVars, call, actorVars>>

(* The actor's process dies, with its sessions and their requests.         *)
ActorDies(g) ==
    /\ alive[g] /\ FaultsLeft
    /\ alive' = [alive EXCEPT ![g] = FALSE]
    /\ listed' = [s \in Rollouts |-> listed[s] /\ home[s] # g]
    /\ request' = [s \in Rollouts |-> IF home[s] = g THEN "idle" ELSE request[s]]
    /\ UNCHANGED <<rolloutVars, managerVars, callVars, serving, home, phase, answered>>

(* shutdown of an actor: its server's task is cancelled.                   *)
ActorStops(g) ==
    /\ manager = "stopping" /\ alive[g] /\ serving[g]
    /\ serving' = [serving EXCEPT ![g] = FALSE]
    /\ request' = [s \in Rollouts |-> IF home[s] = g THEN "idle" ELSE request[s]]
    /\ UNCHANGED <<rolloutVars, managerVars, callVars, alive, home, listed, phase, answered>>

(* The agent posts a request.  It may outlive its rollout: a Ray task or a *)
(* process in a sandbox is not stopped when the rollout fails.             *)
Post(s) ==
    /\ stage[s] \notin {"queued", "creating"} /\ home[s] # None
    /\ alive[home[s]] /\ serving[home[s]]
    /\ request[s] = "idle" /\ answered[s] < MaxTurns
    /\ request' = [request EXCEPT ![s] = "posted"]
    /\ UNCHANGED <<rolloutVars, managerVars, callVars, alive, serving, home, listed, phase,
                   answered>>

(* The handler looks the session up (404), keeps it, and the generation    *)
(* runs; the session may be taken off the list meanwhile.                  *)
Handle(s) ==
    /\ request[s] = "posted"
    /\ request' = [request EXCEPT ![s] = IF listed[s] THEN "generating" ELSE "idle"]
    /\ UNCHANGED <<rolloutVars, managerVars, callVars, alive, serving, home, listed, phase,
                   answered>>

\* Mutant: the answer is taken whatever became of the session.
AnswerUnchecked(s) ==
    /\ request[s] = "generating"
    /\ request' = [request EXCEPT ![s] = "idle"]
    /\ answered' = [answered EXCEPT ![s] = @ + 1]
    /\ UNCHANGED <<rolloutVars, managerVars, callVars, alive, serving, home, listed, phase>>

(* The generation is committed and answered, or refused (409) on a session *)
(* closed meanwhile, or fails.                                             *)
Answer(s) ==
    /\ request[s] = "generating"
    /\ request' = [request EXCEPT ![s] = "idle"]
    /\ \/ phase[s] = "ACTIVE" /\ answered' = [answered EXCEPT ![s] = @ + 1]
       \/ UNCHANGED answered
    /\ UNCHANGED <<rolloutVars, managerVars, callVars, alive, serving, home, listed, phase>>

-----------------------------------------------------------------------------
Enter(s) == BeginCreate(s) \/ RejectCreate(s)

RunnerEnds(s) == RunnerReturns(s) \/ RunnerRaises(s)

Continue(s) ==
    \/ Created(s) \/ CreateFailed(s) \/ Finalized(s) \/ FinalizeFailed(s)
    \/ Aborted(s) \/ AbortFailed(s) \/ Scored(s)

ActorRuns(s) ==
    ActorCreates(s) \/ ActorFinalizes(s) \/ ActorAborts(s) \/ ActorUnreachable(s)

Next ==
    \/ \E s \in Rollouts :
          \/ Enter(s) \/ RunnerEnds(s) \/ Continue(s) \/ Cancel(s) \/ ActorRuns(s)
          \/ Post(s) \/ Handle(s) \/ Answer(s)
    \/ \E g \in Gateways : ActorDies(g) \/ ActorStops(g)
    \/ BeginShutdown \/ EndShutdown \/ FailShutdown

Spec == Init /\ [][Next]_vars

-----------------------------------------------------------------------------
(* Properties *)

\* Type invariant; a counter of sessions is never negative.
TypeOK ==
    /\ stage \in [Rollouts -> Stages]
    /\ result \in [Rollouts -> 0..MaxTurns \cup {None}]
    /\ manager \in {"up", "stopping", "down"}
    /\ route \in [Rollouts -> Gateways \cup {None}]
    /\ load \in [Gateways -> Nat]
    /\ call \in [Rollouts -> [op : {"create", "finalize", "abort"}, on : Gateways] \cup {None}]
    /\ reply \in [Rollouts -> {"ok", "error", None}]
    /\ alive \in [Gateways -> BOOLEAN] /\ serving \in [Gateways -> BOOLEAN]
    /\ home \in [Rollouts -> Gateways \cup {None}]
    /\ listed \in [Rollouts -> BOOLEAN]
    /\ phase \in [Rollouts -> {"ACTIVE", "FINALIZED", "ABORTED"}]
    /\ answered \in [Rollouts -> 0..MaxTurns]
    /\ request \in [Rollouts -> {"idle", "posted", "generating"}]

\* The load a placement is decided by is the number of routes, through every
\* rollback, failed finalization, cancellation and dead actor.
LoadCountsRoutes ==
    \A g \in Gateways : load[g] = Cardinality({s \in Rollouts : route[s] = g})

\* A burst of creations is spread evenly: while no session has ended, no actor has
\* two sessions more than another, however many creations are still awaited.
BurstIsSpread ==
    (\A s \in Rollouts : stage[s] \in {"queued", "creating", "running"}) =>
        \A g, h \in Gateways : load[g] <= load[h] + 1

\* While a runner runs, the session it was given is open on the actor its
\* lifecycle calls are routed to, unless that actor died or the pool was shut down.
RunnerHasItsSession ==
    \A s \in Rollouts :
        stage[s] = "running" /\ manager # "down" =>
            /\ home[s] # None
            /\ alive[home[s]] => listed[s] /\ phase[s] = "ACTIVE" /\ route[s] = home[s]

\* No session is left open: a rollout that returned or raised has left neither a
\* session on a live actor nor a route to one, whatever failed on the way.
\* Cancelled rollouts are excepted: they do leave both.  So is the time after the
\* manager's shutdown: it has forgotten the routes, and sends no abort on.
NoSessionLeftBehind ==
    manager # "down" =>
        \A s \in Rollouts :
            stage[s] \in {"returned", "raised"} =>
                /\ ~ listed[s]
                /\ route[s] # None => ~ alive[route[s]]

\* The semaphore bounds what it is there to bound: the sessions open on the
\* actors, from the first to the last moment an actor knows them.
OpenSessionsWithinCap ==
    Cardinality({s \in Rollouts : listed[s] /\ stage[s] # "cancelled"}) <= Cap

\* What an agent was answered is what is trained on: no answer is missing from the
\* trajectories its rollout got, not even one given while it was finalized.
AnsweredTurnsAreReturned ==
    \A s \in Rollouts : result[s] # None => result[s] = answered[s]
=============================================================================
