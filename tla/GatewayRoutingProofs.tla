------------------------ MODULE GatewayRoutingProofs ------------------------
(***************************************************************************)
(* Theorems about GatewayRouting for every number of rollouts, actors,     *)
(* permits and faults, with proofs checked by TLAPS.                       *)
(***************************************************************************)
EXTENDS GatewayRouting, FiniteSetTheorems, WellFoundedInduction, TLAPS

-----------------------------------------------------------------------------
(* Placement *)

\* A set of natural numbers has a least element.
LEMMA Least ==
    ASSUME NEW S, S \subseteq Nat, S # {}
    PROVE  \E m \in S : \A n \in S : m <= n
<1>1. PICK m \in S : \A n \in S : <<n, m>> \notin OpToRel(<, Nat)
  BY NatLessThanWellFounded, WFMin
<1>2. \A n \in S : ~ (n < m) BY <1>1 DEF OpToRel
<1> QED BY <1>2

\* _select_gateway_index finds an actor, and none has less load.
LEMMA LeastLoadedIs ==
    ASSUME load \in [Gateways -> Nat]
    PROVE  /\ LeastLoaded \in Gateways
           /\ \A h \in Gateways : load[LeastLoaded] <= load[h]
<1>1. 1 \in Gateways /\ Gateways \subseteq Nat BY GatewaysAssumption DEF Gateways
<1>2. PICK m \in {load[g] : g \in Gateways} : \A n \in {load[g] : g \in Gateways} : m <= n
  <2>1. {load[g] : g \in Gateways} \subseteq Nat OBVIOUS
  <2>2. {load[g] : g \in Gateways} # {} BY <1>1
  <2> HIDE <1>1
  <2> QED BY <2>1, <2>2, Least
<1>3. PICK g \in {h \in Gateways : load[h] = m} :
          \A h \in {i \in Gateways : load[i] = m} : g <= h
  <2>1. {h \in Gateways : load[h] = m} # {} BY <1>2
  <2>2. {h \in Gateways : load[h] = m} \subseteq Nat BY <1>1
  <2> QED BY <2>1, <2>2, Least
<1>4. \A h \in Gateways : load[g] < load[h] \/ (load[g] = load[h] /\ g <= h)
  <2> SUFFICES ASSUME NEW h \in Gateways
               PROVE  load[g] < load[h] \/ (load[g] = load[h] /\ g <= h)
    OBVIOUS
  <2>1. load[g] = m /\ m <= load[h] BY <1>2, <1>3
  <2>2. CASE load[h] = m BY <1>3, <2>1, <2>2
  <2>3. CASE load[h] # m BY <2>1, <2>3
  <2> QED BY <2>2, <2>3
<1>5. /\ LeastLoaded \in Gateways
      /\ \A h \in Gateways : load[LeastLoaded] < load[h]
                             \/ (load[LeastLoaded] = load[h] /\ LeastLoaded <= h)
  BY <1>3, <1>4 DEF LeastLoaded
<1> QED BY <1>5

-----------------------------------------------------------------------------
(* The inductive invariant *)

(* What stands where in _run_session, for one rollout: its remote call, its *)
(* route and its session.                                                  *)
AtHome(s) == home[s] # None /\ (alive[home[s]] => listed[s]) /\ phase[s] = "ACTIVE"

RoutedHome(s) == manager # "down" => route[s] = home[s]

Calling(s, op) == call[s] # None /\ call[s].op = op

QueuedInv(s) ==
    stage[s] = "queued" =>
        call[s] = None /\ route[s] = None /\ ~ listed[s] /\ phase[s] = "ACTIVE"

CreatingInv(s) ==
    stage[s] = "creating" =>
        /\ Calling(s, "create") /\ phase[s] = "ACTIVE"
        /\ manager # "down" => route[s] = call[s].on
        /\ reply[s] = "ok" => home[s] = call[s].on /\ AtHome(s)
        /\ reply[s] # "ok" => ~ listed[s]

RunningInv(s) ==
    stage[s] = "running" => call[s] = None /\ AtHome(s) /\ RoutedHome(s)

ClosingInv(s) ==
    stage[s] \in {"finalizing", "aborting"} =>
        /\ Calling(s, IF stage[s] = "finalizing" THEN "finalize" ELSE "abort")
        /\ call[s].on = home[s] /\ RoutedHome(s)
        /\ reply[s] = "ok" => ~ listed[s] /\ (stage[s] = "finalizing" => phase[s] # "ACTIVE")
        /\ stage[s] = "aborting" /\ reply[s] = "error" => ~ alive[home[s]]

OverInv(s) ==
    stage[s] \in {"scoring", "returned", "raised"} /\ manager # "down" =>
        call[s] = None /\ ~ listed[s] /\ (route[s] # None => ~ alive[route[s]])

SessionInv(s) ==
    /\ listed[s] => home[s] # None /\ alive[home[s]]
    /\ request[s] # "idle" => answered[s] < MaxTurns
    /\ result[s] # None => result[s] = answered[s] /\ phase[s] # "ACTIVE"

RolloutInv(s) ==
    /\ QueuedInv(s) /\ CreatingInv(s) /\ RunningInv(s) /\ ClosingInv(s) /\ OverInv(s)
    /\ SessionInv(s)

(* A pool that was shut down routes and serves nothing.                    *)
DownInv ==
    manager = "down" =>
        /\ \A s \in Rollouts : route[s] = None
        /\ \A g \in Gateways : ~ serving[g]

PermitsInv == Cardinality(Holding) <= Cap

RoutingInv ==
    /\ TypeOK /\ LoadCountsRoutes /\ DownInv /\ PermitsInv /\ OpenSessionsWithinCap
    /\ \A s \in Rollouts : RolloutInv(s)

-----------------------------------------------------------------------------
(* Steps of one rollout *)

RolloutStep(s) ==
    \/ Enter(s) \/ RunnerEnds(s) \/ Continue(s) \/ Cancel(s) \/ ActorRuns(s)
    \/ Post(s) \/ Handle(s) \/ Answer(s)

Same(q) ==
    /\ stage'[q] = stage[q] /\ result'[q] = result[q] /\ route'[q] = route[q]
    /\ call'[q] = call[q] /\ reply'[q] = reply[q]
    /\ home'[q] = home[q] /\ listed'[q] = listed[q] /\ phase'[q] = phase[q]
    /\ answered'[q] = answered[q] /\ request'[q] = request[q]

\* A step of one rollout leaves the others, and the actors' processes, alone.
LEMMA OthersSame ==
    ASSUME TypeOK, NEW s \in Rollouts, RolloutStep(s)
    PROVE  /\ \A q \in Rollouts : q # s => Same(q)
           /\ UNCHANGED <<manager, alive, serving>>
<1> SUFFICES ASSUME NEW q \in Rollouts
             PROVE  (q # s => Same(q)) /\ UNCHANGED <<manager, alive, serving>>
  OBVIOUS
<1> USE DEF TypeOK, Same, rolloutVars, managerVars, callVars, actorVars, Goto, Remote, Consumed,
            Reply
<1>1. CASE Enter(s) BY <1>1 DEF Enter, BeginCreate, RejectCreate, Reserve
<1>2. CASE RunnerEnds(s) BY <1>2 DEF RunnerEnds, RunnerReturns, RunnerRaises, BeginAbort
<1>3. CASE Created(s) \/ CreateFailed(s) \/ Finalized(s)
  BY <1>3 DEF Created, CreateFailed, Finalized, Unroute
<1>4. CASE FinalizeFailed(s) \/ Aborted(s) \/ AbortFailed(s) \/ Scored(s)
  BY <1>4 DEF FinalizeFailed, Aborted, AbortFailed, Scored, Unroute, BeginAbort
<1>5. CASE Cancel(s) BY <1>5 DEF Cancel, Unroute
<1>6. CASE ActorRuns(s)
  BY <1>6 DEF ActorRuns, ActorCreates, ActorFinalizes, ActorAborts, ActorUnreachable
<1>7. CASE Post(s) \/ Handle(s) \/ Answer(s) BY <1>7 DEF Post, Handle, Answer
<1> QED BY <1>1, <1>2, <1>3, <1>4, <1>5, <1>6, <1>7 DEF RolloutStep, Continue

\* What a rollout's invariant is about.
LEMMA SameKeeps ==
    ASSUME NEW q \in Rollouts, RolloutInv(q), Same(q), UNCHANGED <<manager, alive>>
    PROVE  RolloutInv(q)'
BY DEF RolloutInv, QueuedInv, CreatingInv, RunningInv, ClosingInv, OverInv, SessionInv,
       AtHome, RoutedHome, Calling, Same

\* The rollout that moves keeps its invariant.
LEMMA OwnStep ==
    ASSUME RoutingInv, NEW s \in Rollouts, RolloutStep(s)
    PROVE  RolloutInv(s)'
<1>1. TypeOK /\ RolloutInv(s) /\ (manager = "down" => route[s] = None)
  BY DEF RoutingInv, DownInv
<1>2. UNCHANGED <<manager, alive, serving>> BY <1>1, OthersSame
<1>3. /\ call[s] \in [op : {"create", "finalize", "abort"}, on : Gateways] \cup {None}
      /\ \A g \in Gateways : g # None
      /\ load \in [Gateways -> Nat]
  BY <1>1, NoneAssumption DEF TypeOK
<1>4. CASE BeginCreate(s)
  <2>1. LeastLoaded \in Gateways BY <1>3, LeastLoadedIs
  <2>2. /\ stage'[s] = "creating" /\ route'[s] = LeastLoaded
        /\ call'[s] = [op |-> "create", on |-> LeastLoaded] /\ reply'[s] = None
        /\ UNCHANGED <<result, home, listed, phase, answered, request>>
    BY <1>1, <1>4 DEF BeginCreate, Reserve, Remote, Goto, TypeOK, actorVars
  <2>3. call'[s] # None BY <2>1, <2>2, NoneAssumption
  <2>4. ~ listed[s] /\ phase[s] = "ACTIVE" BY <1>1, <1>4 DEF RolloutInv, QueuedInv, BeginCreate
  <2>5. reply'[s] # "ok" BY <2>2, NoneAssumption
  <2>6. CreatingInv(s)' BY <2>2, <2>3, <2>4, <2>5 DEF CreatingInv, Calling
  <2>7. SessionInv(s)' BY <1>1, <1>2, <2>2 DEF RolloutInv, SessionInv
  <2> QED BY <2>2, <2>6, <2>7 DEF RolloutInv, QueuedInv, RunningInv, ClosingInv, OverInv
<1>5. CASE RejectCreate(s)
  <2>1. /\ stage'[s] = "raised" /\ manager = "down"
        /\ UNCHANGED <<result, home, listed, phase, answered, request>>
    BY <1>1, <1>5 DEF RejectCreate, Goto, TypeOK, actorVars
  <2>2. SessionInv(s)' BY <1>1, <1>2, <2>1 DEF RolloutInv, SessionInv
  <2> QED BY <1>2, <2>1, <2>2
          DEF RolloutInv, QueuedInv, CreatingInv, RunningInv, ClosingInv, OverInv
<1>6. CASE Created(s)
  <2>1. /\ stage'[s] = "running" /\ call'[s] = None /\ reply[s] = "ok"
        /\ UNCHANGED <<result, route, home, listed, phase, answered, request>>
    BY <1>1, <1>6 DEF Created, Answered, Consumed, Goto, TypeOK, actorVars, managerVars
  <2>2. AtHome(s) /\ RoutedHome(s)
    BY <1>1, <1>6, <2>1 DEF RolloutInv, CreatingInv, Created, RoutedHome
  <2>3. AtHome(s)' /\ RoutedHome(s)' BY <1>2, <2>1, <2>2 DEF AtHome, RoutedHome
  <2>4. SessionInv(s)' BY <1>1, <1>2, <2>1 DEF RolloutInv, SessionInv
  <2> QED BY <2>1, <2>3, <2>4
          DEF RolloutInv, QueuedInv, CreatingInv, RunningInv, ClosingInv, OverInv
<1>7. CASE CreateFailed(s)
  <2>1. /\ stage'[s] = "raised" /\ call'[s] = None /\ reply[s] # "ok"
        /\ manager # "down" => route'[s] = None
        /\ UNCHANGED <<result, home, listed, phase, answered, request>>
    BY <1>1, <1>7 DEF CreateFailed, Answered, Consumed, Unroute, Goto, TypeOK, actorVars
  <2>2. ~ listed[s] BY <1>1, <1>7, <2>1 DEF RolloutInv, CreatingInv, CreateFailed
  <2>3. SessionInv(s)' BY <1>1, <1>2, <2>1 DEF RolloutInv, SessionInv
  <2> QED BY <1>2, <2>1, <2>2, <2>3
          DEF RolloutInv, QueuedInv, CreatingInv, RunningInv, ClosingInv, OverInv
<1>8. ASSUME BeginAbort(s), stage[s] = "running" \/ (stage[s] = "finalizing" /\ reply[s] = "error"),
             UNCHANGED <<result, managerVars, actorVars>>
      PROVE  RolloutInv(s)'
  <2>1. /\ UNCHANGED <<result, route, home, listed, phase, answered, request>>
        /\ home[s] # None /\ RoutedHome(s)
    <3>1. UNCHANGED <<result, route, home, listed, phase, answered, request>>
      BY <1>8 DEF managerVars, actorVars
    <3>2. CASE stage[s] = "running" BY <1>1, <3>1, <3>2 DEF RolloutInv, RunningInv, AtHome
    <3>3. CASE stage[s] = "finalizing"
      BY <1>1, <1>3, <3>1, <3>3 DEF RolloutInv, ClosingInv, Calling
    <3> QED BY <1>8, <3>1, <3>2, <3>3
  <2>2. SessionInv(s)' BY <1>1, <1>2, <2>1 DEF RolloutInv, SessionInv
  <2>3. CASE route[s] = None
    <3>1. stage'[s] = "raised" BY <1>1, <1>8, <2>3 DEF BeginAbort, Goto, TypeOK
    <3>2. manager = "down" BY <2>1, <2>3 DEF RoutedHome
    <3> QED BY <1>2, <2>2, <3>1, <3>2
            DEF RolloutInv, QueuedInv, CreatingInv, RunningInv, ClosingInv, OverInv
  <2>4. CASE route[s] # None
    <3>1. /\ stage'[s] = "aborting" /\ call'[s] = [op |-> "abort", on |-> route[s]]
          /\ reply'[s] = None
      BY <1>1, <1>8, <2>4 DEF BeginAbort, Remote, Goto, TypeOK
    <3>2. route[s] = home[s] /\ route[s] \in Gateways
      BY <1>1, <2>1, <2>4 DEF RoutedHome, TypeOK
    <3>3. call'[s] # None /\ reply'[s] # "ok" /\ reply'[s] # "error"
      BY <3>1, <3>2, NoneAssumption
    <3>4. ClosingInv(s)' BY <1>2, <2>1, <3>1, <3>2, <3>3 DEF ClosingInv, Calling, RoutedHome
    <3> QED BY <2>2, <3>1, <3>4
            DEF RolloutInv, QueuedInv, CreatingInv, RunningInv, OverInv
  <2> QED BY <2>3, <2>4
<1>9. CASE RunnerRaises(s) BY <1>8, <1>9 DEF RunnerRaises
<1>10. CASE FinalizeFailed(s) BY <1>8, <1>10 DEF FinalizeFailed, Answered
<1>11. CASE RunnerReturns(s)
  <2>1. /\ UNCHANGED <<result, route, home, listed, phase, answered, request>>
        /\ home[s] # None /\ RoutedHome(s)
    BY <1>1, <1>11 DEF RunnerReturns, managerVars, actorVars, RolloutInv, RunningInv, AtHome
  <2>2. SessionInv(s)' BY <1>1, <1>2, <2>1 DEF RolloutInv, SessionInv
  <2>3. CASE route[s] = None
    <3>1. stage'[s] = "raised" BY <1>1, <1>11, <2>3 DEF RunnerReturns, Goto, TypeOK
    <3>2. manager = "down" BY <2>1, <2>3 DEF RoutedHome
    <3> QED BY <1>2, <2>2, <3>1, <3>2
            DEF RolloutInv, QueuedInv, CreatingInv, RunningInv, ClosingInv, OverInv
  <2>4. CASE route[s] # None
    <3>1. /\ stage'[s] = "finalizing" /\ call'[s] = [op |-> "finalize", on |-> route[s]]
          /\ reply'[s] = None
      BY <1>1, <1>11, <2>4 DEF RunnerReturns, Remote, Goto, TypeOK
    <3>2. route[s] = home[s] /\ route[s] \in Gateways
      BY <1>1, <2>1, <2>4 DEF RoutedHome, TypeOK
    <3>3. call'[s] # None /\ reply'[s] # "ok" /\ reply'[s] # "error"
      BY <3>1, <3>2, NoneAssumption
    <3>4. ClosingInv(s)' BY <1>2, <2>1, <3>1, <3>2, <3>3 DEF ClosingInv, Calling, RoutedHome
    <3> QED BY <2>2, <3>1, <3>4
            DEF RolloutInv, QueuedInv, CreatingInv, RunningInv, OverInv
  <2> QED BY <2>3, <2>4
<1>12. CASE Finalized(s)
  <2>1. /\ stage'[s] \in {"raised", "scoring"} /\ call'[s] = None
        /\ manager # "down" => route'[s] = None
        /\ result'[s] \in {result[s], answered[s]}
        /\ UNCHANGED <<home, listed, phase, answered, request>>
    BY <1>1, <1>12 DEF Finalized, Consumed, Unroute, Goto, TypeOK, actorVars
  <2>2. ~ listed[s] /\ phase[s] # "ACTIVE"
    BY <1>1, <1>12 DEF RolloutInv, ClosingInv, Finalized, Answered
  <2>3. SessionInv(s)' BY <1>1, <1>2, <2>1, <2>2 DEF RolloutInv, SessionInv
  <2> QED BY <1>2, <2>1, <2>2, <2>3
          DEF RolloutInv, QueuedInv, CreatingInv, RunningInv, ClosingInv, OverInv
<1>13. CASE Aborted(s)
  <2>1. /\ stage'[s] = "raised" /\ call'[s] = None
        /\ manager # "down" => route'[s] = None
        /\ UNCHANGED <<result, home, listed, phase, answered, request>>
    BY <1>1, <1>13 DEF Aborted, Consumed, Unroute, Goto, TypeOK, actorVars
  <2>2. ~ listed[s] BY <1>1, <1>13 DEF RolloutInv, ClosingInv, Aborted, Answered
  <2>3. SessionInv(s)' BY <1>1, <1>2, <2>1 DEF RolloutInv, SessionInv
  <2> QED BY <1>2, <2>1, <2>2, <2>3
          DEF RolloutInv, QueuedInv, CreatingInv, RunningInv, ClosingInv, OverInv
<1>14. CASE AbortFailed(s)
  <2>1. /\ stage'[s] = "raised" /\ call'[s] = None
        /\ UNCHANGED <<result, route, home, listed, phase, answered, request>>
    BY <1>1, <1>14 DEF AbortFailed, Consumed, Goto, TypeOK, managerVars, actorVars
  <2>2. ~ alive[home[s]] /\ RoutedHome(s)
    BY <1>1, <1>14 DEF RolloutInv, ClosingInv, AbortFailed, Answered
  <2>3. ~ listed[s] BY <1>1, <2>2 DEF RolloutInv, SessionInv
  <2>4. SessionInv(s)' BY <1>1, <1>2, <2>1 DEF RolloutInv, SessionInv
  <2>5. OverInv(s)' BY <1>2, <2>1, <2>2, <2>3 DEF OverInv, RoutedHome
  <2> QED BY <2>1, <2>4, <2>5
          DEF RolloutInv, QueuedInv, CreatingInv, RunningInv, ClosingInv
<1>15. CASE Scored(s)
  <2>1. /\ stage[s] = "scoring" /\ stage'[s] \in {"returned", "raised"}
        /\ UNCHANGED <<result, call, route, home, listed, phase, answered, request>>
    BY <1>1, <1>15 DEF Scored, Goto, TypeOK, managerVars, callVars, actorVars
  <2>2. SessionInv(s)' BY <1>1, <1>2, <2>1 DEF RolloutInv, SessionInv
  <2>3. OverInv(s)' BY <1>1, <1>2, <2>1 DEF RolloutInv, OverInv
  <2> QED BY <2>1, <2>2, <2>3
          DEF RolloutInv, QueuedInv, CreatingInv, RunningInv, ClosingInv
<1>16. CASE Cancel(s)
  <2>1. /\ stage'[s] \in {"cancelled", "raised"} /\ (stage'[s] = "raised" => manager = "down")
        /\ UNCHANGED <<result, home, listed, phase, answered, request>>
    BY <1>1, <1>16 DEF Cancel, Goto, TypeOK, actorVars
  <2>2. SessionInv(s)' BY <1>1, <1>2, <2>1 DEF RolloutInv, SessionInv
  <2> QED BY <1>2, <2>1, <2>2
          DEF RolloutInv, QueuedInv, CreatingInv, RunningInv, ClosingInv, OverInv
<1>17. CASE ActorCreates(s)
  <2>1. /\ Calling(s, "create") /\ alive[call[s].on] /\ reply[s] = None
        /\ call[s].on # None
        /\ UNCHANGED <<stage, result, route, call, phase, answered, request>>
    BY <1>1, <1>3, <1>17
       DEF ActorCreates, Pending, Calling, rolloutVars, managerVars
  <2>2. \/ home'[s] = call[s].on /\ listed'[s] /\ reply'[s] = "ok"
        \/ UNCHANGED <<home, listed>> /\ reply'[s] = "error"
    BY <1>1, <1>17 DEF ActorCreates, Reply, TypeOK
  <2>3. stage[s] \notin {"queued", "running", "finalizing", "aborting"}
        /\ (stage[s] \in {"scoring", "returned", "raised"} => manager = "down")
    BY <1>1, <2>1 DEF RolloutInv, QueuedInv, RunningInv, ClosingInv, OverInv, Calling
  <2>4. SessionInv(s)' BY <1>1, <1>2, <2>1, <2>2 DEF RolloutInv, SessionInv
  <2>5. CreatingInv(s)'
    <3>1. reply[s] # "ok" BY <2>1, NoneAssumption
    <3> QED BY <1>1, <1>2, <2>1, <2>2, <3>1 DEF RolloutInv, CreatingInv, Calling, AtHome
  <2> QED BY <1>2, <2>1, <2>3, <2>4, <2>5
          DEF RolloutInv, QueuedInv, RunningInv, ClosingInv, OverInv
<1>18. CASE ActorFinalizes(s)
  <2>1. /\ Calling(s, "finalize")
        /\ UNCHANGED <<stage, result, route, call, home, answered, request>>
    BY <1>18 DEF ActorFinalizes, Pending, Calling, rolloutVars, managerVars
  <2>2. \/ phase'[s] = "FINALIZED" /\ ~ listed'[s] /\ reply'[s] = "ok"
        \/ UNCHANGED <<phase, listed>> /\ reply'[s] = "error"
    BY <1>1, <1>18 DEF ActorFinalizes, Reply, TypeOK
  <2>3. stage[s] \notin {"queued", "creating", "running", "aborting"}
        /\ (stage[s] \in {"scoring", "returned", "raised"} => manager = "down")
    BY <1>1, <2>1
       DEF RolloutInv, QueuedInv, CreatingInv, RunningInv, ClosingInv, OverInv, Calling
  <2>4. SessionInv(s)' BY <1>1, <1>2, <2>1, <2>2 DEF RolloutInv, SessionInv
  <2>5. ClosingInv(s)'
    BY <1>1, <1>2, <2>1, <2>2, <2>3 DEF RolloutInv, ClosingInv, Calling, RoutedHome
  <2> QED BY <1>2, <2>1, <2>3, <2>4, <2>5
          DEF RolloutInv, QueuedInv, CreatingInv, RunningInv, OverInv
<1>19. CASE ActorAborts(s)
  <2>1. /\ Calling(s, "abort") /\ reply'[s] = "ok" /\ reply[s] = None
        /\ UNCHANGED <<stage, result, route, call, home, answered, request>>
    BY <1>1, <1>19 DEF ActorAborts, Pending, Reply, Calling, rolloutVars, managerVars, TypeOK
  <2>2. \/ phase'[s] = "ABORTED" /\ ~ listed'[s]
        \/ UNCHANGED <<phase, listed>> /\ ~ listed[s]
    BY <1>1, <1>19 DEF ActorAborts, TypeOK
  <2>3. stage[s] \notin {"queued", "creating", "running", "finalizing"}
        /\ (stage[s] \in {"scoring", "returned", "raised"} => manager = "down")
    BY <1>1, <2>1
       DEF RolloutInv, QueuedInv, CreatingInv, RunningInv, ClosingInv, OverInv, Calling
  <2>4. SessionInv(s)' BY <1>1, <1>2, <2>1, <2>2 DEF RolloutInv, SessionInv
  <2>5. ClosingInv(s)'
    BY <1>1, <1>2, <2>1, <2>2, <2>3 DEF RolloutInv, ClosingInv, Calling, RoutedHome
  <2> QED BY <1>2, <2>1, <2>3, <2>4, <2>5
          DEF RolloutInv, QueuedInv, CreatingInv, RunningInv, OverInv
<1>20. CASE ActorUnreachable(s)
  <2>1. /\ call[s] # None /\ reply[s] = None /\ ~ alive[call[s].on] /\ reply'[s] = "error"
        /\ UNCHANGED <<stage, result, route, call, home, listed, phase, answered, request>>
    BY <1>1, <1>20 DEF ActorUnreachable, Reply, rolloutVars, managerVars, actorVars, TypeOK
  <2>2. SessionInv(s)' BY <1>1, <1>2, <2>1 DEF RolloutInv, SessionInv
  <2>3. CreatingInv(s)'
    <3>1. reply[s] # "ok" BY <2>1, NoneAssumption
    <3> QED BY <1>1, <1>2, <2>1, <3>1 DEF RolloutInv, CreatingInv, Calling
  <2>4. ClosingInv(s)'
    BY <1>1, <1>2, <2>1 DEF RolloutInv, ClosingInv, Calling, RoutedHome
  <2> QED BY <1>1, <1>2, <2>1, <2>2, <2>3, <2>4
          DEF RolloutInv, QueuedInv, RunningInv, OverInv, AtHome, RoutedHome
<1>21. ASSUME UNCHANGED <<stage, result, route, call, reply, home, listed, phase>>,
              request'[s] # "idle" => answered'[s] < MaxTurns,
              result[s] = None \/ phase[s] = "ACTIVE" \/ answered'[s] = answered[s]
       PROVE  RolloutInv(s)'
  <2>1. SessionInv(s)' BY <1>1, <1>2, <1>21 DEF RolloutInv, SessionInv
  <2> QED BY <1>1, <1>2, <1>21, <2>1
          DEF RolloutInv, QueuedInv, CreatingInv, RunningInv, ClosingInv, OverInv,
              AtHome, RoutedHome, Calling
<1>22. CASE Post(s)
  BY <1>1, <1>21, <1>22 DEF Post, rolloutVars, managerVars, callVars, TypeOK
<1>23. CASE Handle(s)
  BY <1>1, <1>21, <1>23
     DEF Handle, rolloutVars, managerVars, callVars, TypeOK, RolloutInv, SessionInv
<1>24. CASE Answer(s)
  <2>1. request'[s] = "idle" /\ (phase[s] = "ACTIVE" \/ answered'[s] = answered[s])
    BY <1>1, <1>24 DEF Answer, TypeOK
  <2> QED BY <1>21, <1>24, <2>1 DEF Answer, rolloutVars, managerVars, callVars
<1>25. Enter(s) => RolloutInv(s)' BY <1>4, <1>5 DEF Enter
<1>26. RunnerEnds(s) => RolloutInv(s)' BY <1>9, <1>11 DEF RunnerEnds
<1>27. Continue(s) => RolloutInv(s)'
  BY <1>6, <1>7, <1>10, <1>12, <1>13, <1>14, <1>15 DEF Continue
<1>28. ActorRuns(s) => RolloutInv(s)' BY <1>17, <1>18, <1>19, <1>20 DEF ActorRuns
<1> QED BY <1>16, <1>22, <1>23, <1>24, <1>25, <1>26, <1>27, <1>28 DEF RolloutStep

-----------------------------------------------------------------------------
(* Types, load and permits *)

\* All types but that of the load, which follows from what it counts.
TypesButLoad ==
    /\ stage \in [Rollouts -> Stages]
    /\ result \in [Rollouts -> 0..MaxTurns \cup {None}]
    /\ manager \in {"up", "stopping", "down"}
    /\ route \in [Rollouts -> Gateways \cup {None}]
    /\ call \in [Rollouts -> [op : {"create", "finalize", "abort"}, on : Gateways] \cup {None}]
    /\ reply \in [Rollouts -> {"ok", "error", None}]
    /\ alive \in [Gateways -> BOOLEAN] /\ serving \in [Gateways -> BOOLEAN]
    /\ home \in [Rollouts -> Gateways \cup {None}]
    /\ listed \in [Rollouts -> BOOLEAN]
    /\ phase \in [Rollouts -> {"ACTIVE", "FINALIZED", "ABORTED"}]
    /\ answered \in [Rollouts -> 0..MaxTurns]
    /\ request \in [Rollouts -> {"idle", "posted", "generating"}]

LEMMA TypesStep == ASSUME RoutingInv, Next PROVE TypesButLoad'
<1> TypeOK BY DEF RoutingInv
<1> USE DEF TypeOK, TypesButLoad, rolloutVars, managerVars, callVars, actorVars, Goto, Remote,
            Consumed, Reply, Stages, Ended
<1>1. ASSUME NEW s \in Rollouts, BeginAbort(s), UNCHANGED <<result, managerVars, actorVars>>
      PROVE  TypesButLoad'
  BY <1>1, SMTT(30) DEF BeginAbort
<1>2. ASSUME NEW s \in Rollouts, Enter(s) PROVE TypesButLoad'
  <2>1. CASE BeginCreate(s) BY <2>1, LeastLoadedIs DEF BeginCreate, Reserve
  <2>2. CASE RejectCreate(s) BY <2>2 DEF RejectCreate
  <2> QED BY <1>2, <2>1, <2>2 DEF Enter
<1>3. ASSUME NEW s \in Rollouts, RunnerEnds(s) PROVE TypesButLoad'
  <2>1. CASE RunnerRaises(s) BY <1>1, <2>1 DEF RunnerRaises
  <2>2. CASE RunnerReturns(s) BY <2>2 DEF RunnerReturns
  <2> QED BY <1>3, <2>1, <2>2 DEF RunnerEnds
<1>4. ASSUME NEW s \in Rollouts, Continue(s) PROVE TypesButLoad'
  <2>1. CASE Created(s) BY <2>1 DEF Created
  <2>2. CASE CreateFailed(s) BY <2>2 DEF CreateFailed, Unroute
  <2>3. CASE Finalized(s) BY <2>3 DEF Finalized, Unroute
  <2>4. CASE FinalizeFailed(s) BY <1>1, <2>4 DEF FinalizeFailed
  <2>5. CASE Aborted(s) BY <2>5 DEF Aborted, Unroute
  <2>6. CASE AbortFailed(s) BY <2>6 DEF AbortFailed
  <2>7. CASE Scored(s) BY <2>7 DEF Scored
  <2> QED BY <1>4, <2>1, <2>2, <2>3, <2>4, <2>5, <2>6, <2>7 DEF Continue
<1>5. ASSUME NEW s \in Rollouts, Cancel(s) PROVE TypesButLoad'
  BY <1>5 DEF Cancel, Unroute
<1>6. ASSUME NEW s \in Rollouts, ActorRuns(s) PROVE TypesButLoad'
  <2>1. CASE ActorCreates(s)
    <3>1. call[s].on \in Gateways BY <2>1 DEF ActorCreates, Pending
    <3> QED BY <2>1, <3>1 DEF ActorCreates
  <2>2. CASE ActorFinalizes(s) BY <2>2 DEF ActorFinalizes
  <2>3. CASE ActorAborts(s) BY <2>3 DEF ActorAborts
  <2>4. CASE ActorUnreachable(s) BY <2>4 DEF ActorUnreachable
  <2> QED BY <1>6, <2>1, <2>2, <2>3, <2>4 DEF ActorRuns
<1>7. ASSUME NEW s \in Rollouts, Post(s) \/ Handle(s) PROVE TypesButLoad'
  BY <1>7 DEF Post, Handle
<1>8. ASSUME NEW s \in Rollouts, Answer(s) PROVE TypesButLoad'
  <2>1. answered[s] \in 0..MaxTurns /\ answered[s] < MaxTurns
    BY <1>8 DEF Answer, RoutingInv, RolloutInv, SessionInv
  <2>2. answered[s] + 1 \in 0..MaxTurns BY <2>1, BoundsAssumption
  <2> QED BY <1>8, <2>2 DEF Answer
<1>9. ASSUME NEW g \in Gateways, ActorDies(g) PROVE TypesButLoad'
  <2>1. listed' \in [Rollouts -> BOOLEAN] BY <1>9 DEF ActorDies
  <2> QED BY <1>9, <2>1 DEF ActorDies
<1>10. ASSUME NEW g \in Gateways, ActorStops(g) PROVE TypesButLoad' BY <1>10 DEF ActorStops
<1>11. CASE BeginShutdown \/ EndShutdown \/ FailShutdown
  BY <1>11 DEF BeginShutdown, EndShutdown, FailShutdown
<1> QED BY <1>2, <1>3, <1>4, <1>5, <1>6, <1>7, <1>8, <1>9, <1>10, <1>11 DEF Next

Kept == UNCHANGED <<route, load>>

Reserves(s) == route[s] = None /\ manager # "down" /\ Reserve(s, LeastLoaded)

Early == {"queued", "creating", "running"}

Frees(s) ==
    /\ route[s] # None /\ manager # "down" /\ stage'[s] \notin Early
    /\ route' = [route EXCEPT ![s] = None]
    /\ load' = [load EXCEPT ![route[s]] = @ - 1]

Clears == route' = [s \in Rollouts |-> None] /\ load' = [g \in Gateways |-> 0]

\* The manager reserves a slot for a rollout that has none, frees the slot of a route,
\* or forgets everything.
LEMMA ManagerIs ==
    ASSUME RoutingInv, Next
    PROVE  \/ Kept \/ Clears
           \/ \E s \in Rollouts : Reserves(s) \/ Frees(s)
<1> TypeOK /\ \A s \in Rollouts : RolloutInv(s) BY DEF RoutingInv
<1> USE DEF managerVars
<1>1. ASSUME NEW s \in Rollouts, NEW l \in Stages \ Early, Goto(s, l), Unroute(s, call[s].on),
             Calling(s, "create") \/ Calling(s, "finalize") \/ Calling(s, "abort"),
             manager # "down" => route[s] = call[s].on
      PROVE  Kept \/ Frees(s)
  <2>1. CASE manager = "down" BY <1>1, <2>1 DEF Unroute, Kept
  <2>2. CASE manager # "down"
    <3>1. call[s].on \in Gateways BY <1>1 DEF TypeOK, Calling
    <3>2. stage'[s] = l BY <1>1 DEF Goto, TypeOK
    <3> QED BY <1>1, <2>2, <3>1, <3>2, NoneAssumption DEF Unroute, Frees
  <2> QED BY <2>1, <2>2
<1>2. ASSUME NEW s \in Rollouts, Enter(s) PROVE Kept \/ Reserves(s)
  <2>1. CASE BeginCreate(s)
    BY <2>1 DEF BeginCreate, Reserves, RolloutInv, QueuedInv
  <2> QED BY <1>2, <2>1 DEF Enter, RejectCreate, Kept
<1>3. ASSUME NEW s \in Rollouts, Continue(s) PROVE Kept \/ Frees(s)
  <2>1. CASE CreateFailed(s)
    <3>1. Calling(s, "create") /\ (manager # "down" => route[s] = call[s].on)
      BY <2>1 DEF CreateFailed, RolloutInv, CreatingInv
    <3>2. "raised" \in Stages \ Early BY DEF Stages, Ended, Early
    <3> QED BY <1>1, <2>1, <3>1, <3>2 DEF CreateFailed
  <2>2. CASE Finalized(s)
    <3>1. Calling(s, "finalize") /\ (manager # "down" => route[s] = call[s].on)
      BY <2>2 DEF Finalized, RolloutInv, ClosingInv, RoutedHome
    <3>2. "raised" \in Stages \ Early /\ "scoring" \in Stages \ Early
      BY DEF Stages, Ended, Early
    <3> QED BY <1>1, <2>2, <3>1, <3>2 DEF Finalized
  <2>3. CASE Aborted(s)
    <3>1. Calling(s, "abort") /\ (manager # "down" => route[s] = call[s].on)
      BY <2>3 DEF Aborted, RolloutInv, ClosingInv, RoutedHome
    <3>2. "raised" \in Stages \ Early BY DEF Stages, Ended, Early
    <3> QED BY <1>1, <2>3, <3>1, <3>2 DEF Aborted
  <2> QED BY <1>3, <2>1, <2>2, <2>3
          DEF Continue, Created, FinalizeFailed, AbortFailed, Scored, Kept
<1>4. ASSUME NEW s \in Rollouts, Cancel(s) PROVE Kept \/ Frees(s)
  <2>1. CASE stage[s] = "creating"
    <3>1. Calling(s, "create") /\ (manager # "down" => route[s] = call[s].on)
      BY <2>1 DEF RolloutInv, CreatingInv
    <3>2. "raised" \in Stages \ Early /\ "cancelled" \in Stages \ Early
      BY DEF Stages, Ended, Early
    <3> QED BY <1>1, <1>4, <2>1, <3>1, <3>2 DEF Cancel
  <2> QED BY <1>4, <2>1 DEF Cancel, Kept
<1>5. ASSUME NEW s \in Rollouts,
             RunnerEnds(s) \/ ActorRuns(s) \/ Post(s) \/ Handle(s) \/ Answer(s)
      PROVE  Kept
  BY <1>5 DEF RunnerEnds, RunnerReturns, RunnerRaises, ActorRuns, ActorCreates, ActorFinalizes,
              ActorAborts, ActorUnreachable, Post, Handle, Answer, Kept
<1>6. ASSUME NEW g \in Gateways, ActorDies(g) \/ ActorStops(g) PROVE Kept
  BY <1>6 DEF ActorDies, ActorStops, Kept
<1>7. CASE BeginShutdown \/ EndShutdown \/ FailShutdown
  BY <1>7 DEF BeginShutdown, EndShutdown, FailShutdown, Kept, Clears
<1> QED BY <1>2, <1>3, <1>4, <1>5, <1>6, <1>7 DEF Next

RoutedTo(g) == {s \in Rollouts : route[s] = g}

\* The counters follow the routes.
LEMMA LoadStep ==
    ASSUME RoutingInv, Next, TypesButLoad'
    PROVE  load' \in [Gateways -> Nat] /\ LoadCountsRoutes'
<1>1. TypeOK /\ LoadCountsRoutes BY DEF RoutingInv
<1>2. \A g \in Gateways : g # None BY NoneAssumption
<1>3. load' \in [Gateways -> Int]
      /\ \A g \in Gateways : load'[g] = Cardinality({s \in Rollouts : route'[s] = g})
  <2>1. CASE Kept BY <1>1, <2>1 DEF Kept, TypeOK, LoadCountsRoutes
  <2>2. CASE Clears
    <3>1. \A g \in Gateways : {s \in Rollouts : route'[s] = g} = {} BY <1>2, <2>2 DEF Clears
    <3> QED BY <2>2, <3>1, FS_EmptySet DEF Clears
  <2>3. ASSUME NEW s \in Rollouts, Reserves(s)
        PROVE  load' \in [Gateways -> Int]
               /\ \A g \in Gateways : load'[g] = Cardinality({q \in Rollouts : route'[q] = g})
    <3> DEFINE m == LeastLoaded
    <3>1. /\ m \in Gateways /\ route[s] = None
          /\ route' = [route EXCEPT ![s] = m] /\ load' = [load EXCEPT ![m] = @ + 1]
      BY <1>1, <2>3, LeastLoadedIs DEF Reserves, Reserve, TypeOK
    <3> HIDE DEF m
    <3>2. load' \in [Gateways -> Int] BY <1>1, <3>1 DEF TypeOK
    <3>3. ASSUME NEW g \in Gateways
          PROVE  load'[g] = Cardinality({q \in Rollouts : route'[q] = g})
      <4>1. IsFiniteSet(RoutedTo(g)) /\ load[g] = Cardinality(RoutedTo(g))
        BY <1>1, RolloutsAssumption, FS_Subset DEF RoutedTo, LoadCountsRoutes
      <4>2. CASE g = m
        <5>1. {q \in Rollouts : route'[q] = g} = RoutedTo(g) \cup {s}
          BY <1>1, <3>1, <4>2 DEF RoutedTo, TypeOK
        <5>2. s \notin RoutedTo(g) BY <1>2, <3>1 DEF RoutedTo
        <5>3. Cardinality(RoutedTo(g) \cup {s}) = Cardinality(RoutedTo(g)) + 1
          BY <4>1, <5>2, FS_AddElement
        <5>4. load'[g] = load[g] + 1 BY <1>1, <3>1, <4>2 DEF TypeOK
        <5> QED BY <4>1, <5>1, <5>3, <5>4
      <4>3. CASE g # m
        <5>1. {q \in Rollouts : route'[q] = g} = RoutedTo(g)
          BY <1>1, <1>2, <3>1, <4>3 DEF RoutedTo, TypeOK
        <5> QED BY <1>1, <3>1, <4>1, <4>3, <5>1 DEF TypeOK
      <4> QED BY <4>2, <4>3
    <3> QED BY <3>2, <3>3
  <2>4. ASSUME NEW s \in Rollouts, Frees(s)
        PROVE  load' \in [Gateways -> Int]
               /\ \A g \in Gateways : load'[g] = Cardinality({q \in Rollouts : route'[q] = g})
    <3>1. /\ route[s] \in Gateways
          /\ route' = [route EXCEPT ![s] = None] /\ load' = [load EXCEPT ![route[s]] = @ - 1]
      BY <1>1, <2>4 DEF Frees, TypeOK
    <3>2. load' \in [Gateways -> Int] BY <1>1, <3>1 DEF TypeOK
    <3>3. ASSUME NEW g \in Gateways
          PROVE  load'[g] = Cardinality({q \in Rollouts : route'[q] = g})
      <4>1. IsFiniteSet(RoutedTo(g)) /\ load[g] = Cardinality(RoutedTo(g))
        BY <1>1, RolloutsAssumption, FS_Subset DEF RoutedTo, LoadCountsRoutes
      <4>2. CASE g = route[s]
        <5>1. {q \in Rollouts : route'[q] = g} = RoutedTo(g) \ {s}
          BY <1>1, <1>2, <3>1, <4>2 DEF RoutedTo, TypeOK
        <5>2. s \in RoutedTo(g) BY <4>2 DEF RoutedTo
        <5>3. Cardinality(RoutedTo(g) \ {s}) = Cardinality(RoutedTo(g)) - 1
          BY <4>1, <5>2, FS_RemoveElement
        <5>4. load'[g] = load[g] - 1 BY <1>1, <3>1, <4>2 DEF TypeOK
        <5> QED BY <4>1, <5>1, <5>3, <5>4
      <4>3. CASE g # route[s]
        <5>1. {q \in Rollouts : route'[q] = g} = RoutedTo(g)
          BY <1>1, <1>2, <3>1, <4>3 DEF RoutedTo, TypeOK
        <5> QED BY <1>1, <3>1, <4>1, <4>3, <5>1 DEF TypeOK
      <4> QED BY <4>2, <4>3
    <3> QED BY <3>2, <3>3
  <2> QED BY <2>1, <2>2, <2>3, <2>4, ManagerIs
<1>4. \A g \in Gateways : load'[g] \in Nat
  <2>1. \A g \in Gateways : IsFiniteSet({s \in Rollouts : route'[s] = g})
    BY RolloutsAssumption, FS_Subset
  <2> QED BY <1>3, <2>1, FS_CardinalityType
<1> QED BY <1>3, <1>4 DEF LoadCountsRoutes

\* How a rollout's stage moves: no rollout comes back from an end, none becomes young
\* again, and one that leaves the queue for long finds a permit.
Moves(s, l) ==
    /\ stage[s] \notin Ended /\ stage' = [stage EXCEPT ![s] = l] /\ l # "queued"
    /\ l \in Early => stage[s] \in Early
    /\ stage[s] = "queued" /\ l \notin Ended => Cardinality(Holding) < Cap /\ manager # "down"

LEMMA StageIs ==
    ASSUME RoutingInv, Next
    PROVE  stage' = stage \/ \E s \in Rollouts, l \in Stages : Moves(s, l)
<1> USE DEF Goto, rolloutVars, Early, Ended, Moves, Stages
<1>1. ASSUME NEW s \in Rollouts, Enter(s) PROVE \E l \in Stages : Moves(s, l)
  BY <1>1 DEF Enter, BeginCreate, RejectCreate
<1>2. ASSUME NEW s \in Rollouts, RunnerEnds(s) PROVE \E l \in Stages : Moves(s, l)
  BY <1>2 DEF RunnerEnds, RunnerReturns, RunnerRaises, BeginAbort
<1>3. ASSUME NEW s \in Rollouts, Continue(s) PROVE \E l \in Stages : Moves(s, l)
  BY <1>3 DEF Continue, Created, CreateFailed, Finalized, FinalizeFailed, Aborted, AbortFailed,
              Scored, BeginAbort
<1>4. ASSUME NEW s \in Rollouts, Cancel(s) PROVE \E l \in Stages : Moves(s, l)
  BY <1>4 DEF Cancel
<1>5. ASSUME NEW s \in Rollouts, ActorRuns(s) \/ Post(s) \/ Handle(s) \/ Answer(s)
      PROVE  stage' = stage
  BY <1>5 DEF ActorRuns, ActorCreates, ActorFinalizes, ActorAborts, ActorUnreachable, Post,
              Handle, Answer
<1>6. ASSUME NEW g \in Gateways, ActorDies(g) \/ ActorStops(g) PROVE stage' = stage
  BY <1>6 DEF ActorDies, ActorStops
<1>7. CASE BeginShutdown \/ EndShutdown \/ FailShutdown
  BY <1>7 DEF BeginShutdown, EndShutdown, FailShutdown
<1> QED BY <1>1, <1>2, <1>3, <1>4, <1>5, <1>6, <1>7 DEF Next

\* What the semaphore counts.
LEMMA PermitsStep == ASSUME RoutingInv, Next PROVE PermitsInv'
<1>1. TypeOK /\ PermitsInv BY DEF RoutingInv
<1>2. IsFiniteSet(Holding) BY RolloutsAssumption, FS_Subset DEF Holding
<1>3. CASE stage' = stage BY <1>1, <1>3 DEF PermitsInv, Holding
<1>4. ASSUME NEW s \in Rollouts, NEW l \in Stages, Moves(s, l) PROVE PermitsInv'
  <2>1. CASE stage[s] = "queued" /\ l \notin Ended
    <3>1. Holding' \subseteq Holding \cup {s} BY <1>1, <1>4 DEF Moves, Holding, TypeOK
    <3>2. Cardinality(Holding) < Cap BY <1>4, <2>1 DEF Moves
    <3>3. IsFiniteSet(Holding \cup {s}) /\ Cardinality(Holding \cup {s}) <= Cardinality(Holding) + 1
      <4>1. Cardinality(Holding) \in Nat BY <1>2, FS_CardinalityType
      <4>2. /\ IsFiniteSet(Holding \cup {s})
            /\ \/ Cardinality(Holding \cup {s}) = Cardinality(Holding)
               \/ Cardinality(Holding \cup {s}) = Cardinality(Holding) + 1
        BY <1>2, FS_AddElement
      <4> QED BY <4>1, <4>2
    <3>4. Cardinality(Holding') <= Cardinality(Holding \cup {s}) BY <3>1, <3>3, FS_Subset
    <3>5. Cardinality(Holding) \in Nat /\ Cardinality(Holding \cup {s}) \in Nat
          /\ Cardinality(Holding') \in Nat
      BY <1>2, <3>1, <3>3, FS_CardinalityType, FS_Subset
    <3> QED BY <3>2, <3>3, <3>4, <3>5, CapAssumption DEF PermitsInv
  <2>2. CASE ~ (stage[s] = "queued" /\ l \notin Ended)
    <3>1. Holding' \subseteq Holding BY <1>1, <1>4, <2>2 DEF Moves, Holding, TypeOK
    <3>2. Cardinality(Holding') <= Cardinality(Holding) BY <1>2, <3>1, FS_Subset
    <3>3. Cardinality(Holding) \in Nat /\ Cardinality(Holding') \in Nat
      BY <1>2, <3>1, FS_CardinalityType, FS_Subset
    <3> QED BY <1>1, <3>2, <3>3, CapAssumption DEF PermitsInv
  <2> QED BY <2>1, <2>2
<1> QED BY <1>3, <1>4, StageIs

\* A pool that is down stays down, without servers, and takes no session.
LEMMA DownStep ==
    ASSUME RoutingInv, Next
    PROVE  /\ DownInv'
           /\ manager = "down" => manager' = "down" /\ \A s \in Rollouts : listed'[s] => listed[s]
<1> TypeOK /\ DownInv BY DEF RoutingInv
<1>1. manager = "down" => Kept \/ Clears BY ManagerIs DEF Reserves, Frees
<1>2. ASSUME manager = "down", NEW s \in Rollouts, RolloutStep(s)
      PROVE  \A q \in Rollouts : listed'[q] => listed[q]
  <2>1. \A q \in Rollouts : q # s => listed'[q] = listed[q] BY <1>2, OthersSame DEF Same
  <2>2. CASE ActorCreates(s)
    <3>1. ~ serving[call[s].on]
      <4>1. call[s].on \in Gateways BY <2>2 DEF ActorCreates, Pending, TypeOK
      <4> QED BY <1>2, <4>1 DEF DownInv
    <3> QED BY <2>2, <3>1 DEF ActorCreates
  <2>3. CASE ActorFinalizes(s) \/ ActorAborts(s)
    <3>1. listed' = listed \/ listed' = [listed EXCEPT ![s] = FALSE]
      BY <2>3 DEF ActorFinalizes, ActorAborts
    <3> QED BY <3>1 DEF TypeOK
  <2>4. CASE ~ (ActorCreates(s) \/ ActorFinalizes(s) \/ ActorAborts(s))
    <3>1. listed' = listed
      BY <1>2, <2>4 DEF RolloutStep, Enter, BeginCreate, RejectCreate, RunnerEnds, RunnerReturns,
           RunnerRaises, Continue, Created, CreateFailed, Finalized, FinalizeFailed, Aborted,
           AbortFailed, Scored, Cancel, ActorRuns, ActorUnreachable, Post, Handle, Answer,
           actorVars
    <3> QED BY <3>1
  <2> QED BY <2>2, <2>3, <2>4
<1>3. ASSUME NEW s \in Rollouts, RolloutStep(s)
      PROVE  /\ DownInv'
             /\ manager = "down" => manager' = "down" /\ \A q \in Rollouts : listed'[q] => listed[q]
  <2>1. UNCHANGED <<manager, serving>> BY <1>3, OthersSame
  <2> QED BY <1>1, <1>2, <1>3, <2>1 DEF DownInv, Kept, Clears
<1>4. ASSUME NEW g \in Gateways, ActorDies(g) \/ ActorStops(g)
      PROVE  /\ DownInv'
             /\ manager = "down" => manager' = "down" /\ \A q \in Rollouts : listed'[q] => listed[q]
  <2>1. UNCHANGED <<manager, route>> BY <1>4 DEF ActorDies, ActorStops, managerVars
  <2>2. manager = "down" => serving' = serving BY <1>4 DEF ActorDies, ActorStops
  <2>3. \A q \in Rollouts : listed'[q] => listed[q] BY <1>4 DEF ActorDies, ActorStops
  <2> QED BY <2>1, <2>2, <2>3 DEF DownInv
<1>5. CASE BeginShutdown \/ EndShutdown \/ FailShutdown
  BY <1>5 DEF BeginShutdown, EndShutdown, FailShutdown, actorVars, DownInv
<1> QED BY <1>3, <1>4, <1>5 DEF Next, RolloutStep

Open == {s \in Rollouts : listed[s] /\ stage[s] # "cancelled"}

\* An open session has a permit, unless the pool is down, and then none is added.
LEMMA OpenStep ==
    ASSUME RoutingInv, Next, TypesButLoad', DownInv', PermitsInv',
           \A s \in Rollouts : RolloutInv(s)'
    PROVE  OpenSessionsWithinCap'
<1>1. TypeOK /\ OpenSessionsWithinCap BY DEF RoutingInv
<1>2. IsFiniteSet(Open) /\ IsFiniteSet(Holding')
  BY RolloutsAssumption, FS_Subset DEF Open, Holding
<1>3. CASE manager' # "down"
  <2>1. Open' \subseteq Holding'
    <3> SUFFICES ASSUME NEW s \in Rollouts, listed'[s], stage'[s] # "cancelled"
                 PROVE  stage'[s] \notin {"queued"} \cup Ended
      BY DEF Open, Holding
    <3>1. RolloutInv(s)' OBVIOUS
    <3> QED BY <1>3, <3>1 DEF RolloutInv, QueuedInv, OverInv, Ended
  <2>2. /\ Cardinality(Open') <= Cardinality(Holding')
        /\ Cardinality(Open') \in Nat /\ Cardinality(Holding') \in Nat
    BY <1>2, <2>1, FS_Subset, FS_CardinalityType
  <2> QED BY <2>2, CapAssumption DEF PermitsInv, OpenSessionsWithinCap, Open
<1>4. CASE manager' = "down"
  <2>1. \A s \in Rollouts : listed'[s] => listed[s]
    <3>1. CASE manager = "down" BY <3>1, DownStep
    <3>2. CASE manager # "down"
      <4>1. EndShutdown
        <5>1. ASSUME NEW s \in Rollouts, RolloutStep(s) PROVE FALSE
          BY <1>1, <1>4, <3>2, <5>1, OthersSame
        <5>2. ASSUME NEW g \in Gateways, ActorDies(g) \/ ActorStops(g) PROVE FALSE
          BY <1>4, <3>2, <5>2 DEF ActorDies, ActorStops, managerVars
        <5> QED BY <1>4, <5>1, <5>2 DEF Next, RolloutStep, BeginShutdown, FailShutdown
      <4> QED BY <4>1 DEF EndShutdown, actorVars
    <3> QED BY <3>1, <3>2
  <2>2. \A s \in Rollouts : stage[s] = "cancelled" => stage'[s] = "cancelled"
    BY <1>1, StageIs DEF Moves, Ended, TypeOK
  <2>3. Open' \subseteq Open BY <2>1, <2>2 DEF Open
  <2>4. /\ Cardinality(Open') <= Cardinality(Open)
        /\ Cardinality(Open') \in Nat /\ Cardinality(Open) \in Nat
    BY <1>2, <2>3, FS_Subset, FS_CardinalityType
  <2> QED BY <1>1, <2>4, CapAssumption DEF OpenSessionsWithinCap, Open
<1> QED BY <1>3, <1>4

\* The death or the stop of an actor, and shutdown, for every rollout.
LEMMA ActorStep ==
    ASSUME RoutingInv, NEW g \in Gateways, ActorDies(g) \/ ActorStops(g), NEW s \in Rollouts
    PROVE  RolloutInv(s)'
<1>1. TypeOK /\ RolloutInv(s) BY DEF RoutingInv
<1>2. /\ UNCHANGED <<stage, result, manager, route, call, reply, home, phase, answered>>
      /\ \A h \in Gateways : alive'[h] => alive[h]
      /\ request'[s] \in {"idle", request[s]}
  BY <1>1 DEF ActorDies, ActorStops, rolloutVars, managerVars, callVars, TypeOK
<1>3. /\ listed'[s] => listed[s] /\ alive'[home[s]]
      /\ home[s] # None /\ alive'[home[s]] => listed'[s] = listed[s]
  <2>1. CASE ActorDies(g)
    <3>1. listed'[s] = (listed[s] /\ home[s] # g) BY <2>1 DEF ActorDies
    <3>2. \A h \in Gateways : alive'[h] = (alive[h] /\ h # g) BY <1>1, <2>1 DEF ActorDies, TypeOK
    <3> QED BY <1>1, <3>1, <3>2 DEF RolloutInv, SessionInv, TypeOK
  <2>2. CASE ActorStops(g)
    <3>1. UNCHANGED <<alive, listed>> BY <2>2 DEF ActorStops
    <3> QED BY <1>1, <3>1 DEF RolloutInv, SessionInv
  <2> QED BY <2>1, <2>2
<1>4. AtHome(s) => AtHome(s)' BY <1>1, <1>2, <1>3 DEF AtHome, TypeOK
<1>5. SessionInv(s)' BY <1>1, <1>2, <1>3 DEF RolloutInv, SessionInv
<1>6. QueuedInv(s)' /\ RunningInv(s)'
  BY <1>1, <1>2, <1>3, <1>4 DEF RolloutInv, QueuedInv, RunningInv, RoutedHome
<1>7. CreatingInv(s)' BY <1>1, <1>2, <1>3, <1>4 DEF RolloutInv, CreatingInv, Calling
<1>8. ClosingInv(s)'
  <2>1. stage[s] \in {"finalizing", "aborting"} => home[s] \in Gateways
    BY <1>1 DEF RolloutInv, ClosingInv, Calling, TypeOK
  <2> QED BY <1>1, <1>2, <1>3, <2>1 DEF RolloutInv, ClosingInv, Calling, RoutedHome
<1>9. OverInv(s)'
  <2>1. route[s] # None => route[s] \in Gateways BY <1>1 DEF TypeOK
  <2> QED BY <1>1, <1>2, <1>3, <2>1 DEF RolloutInv, OverInv
<1> QED BY <1>5, <1>6, <1>7, <1>8, <1>9 DEF RolloutInv

LEMMA ShutdownStep ==
    ASSUME RoutingInv, BeginShutdown \/ EndShutdown \/ FailShutdown, NEW s \in Rollouts
    PROVE  RolloutInv(s)'
<1>1. RolloutInv(s) BY DEF RoutingInv
<1>2. UNCHANGED <<stage, result, call, reply, alive, home, listed, phase, answered, request>>
  BY DEF BeginShutdown, EndShutdown, FailShutdown, rolloutVars, callVars, actorVars
<1>3. SessionInv(s)' BY <1>1, <1>2 DEF RolloutInv, SessionInv
<1>4. CASE BeginShutdown \/ FailShutdown
  <2>1. route' = route /\ manager # "down" BY <1>4 DEF BeginShutdown, FailShutdown
  <2> QED BY <1>1, <1>2, <1>3, <2>1
          DEF RolloutInv, QueuedInv, CreatingInv, RunningInv, ClosingInv, OverInv,
              AtHome, RoutedHome, Calling
<1>5. CASE EndShutdown
  <2>1. route'[s] = None /\ manager' = "down" BY <1>5 DEF EndShutdown
  <2> QED BY <1>1, <1>2, <1>3, <2>1
          DEF RolloutInv, QueuedInv, CreatingInv, RunningInv, ClosingInv, OverInv,
              AtHome, RoutedHome, Calling
<1> QED BY <1>4, <1>5

LEMMA RoutingInit == Init => RoutingInv
<1> SUFFICES ASSUME Init PROVE RoutingInv OBVIOUS
<1>1. 0 \in 0..MaxTurns BY BoundsAssumption
<1>2. TypeOK BY <1>1 DEF Init, TypeOK, Stages
<1>3. LoadCountsRoutes
  <2>1. \A g \in Gateways : {s \in Rollouts : route[s] = g} = {} BY NoneAssumption DEF Init
  <2> QED BY <2>1, FS_EmptySet DEF Init, LoadCountsRoutes
<1>4. PermitsInv /\ OpenSessionsWithinCap
  <2>1. Holding = {} BY DEF Init, Holding
  <2>2. {s \in Rollouts : listed[s] /\ stage[s] # "cancelled"} = {} BY DEF Init
  <2> QED BY <2>1, <2>2, FS_EmptySet, CapAssumption DEF PermitsInv, OpenSessionsWithinCap
<1>5. DownInv BY DEF Init, DownInv
<1>6. ASSUME NEW s \in Rollouts PROVE RolloutInv(s)
  BY DEF Init, RolloutInv, QueuedInv, CreatingInv, RunningInv, ClosingInv, OverInv, SessionInv
<1> QED BY <1>2, <1>3, <1>4, <1>5, <1>6 DEF RoutingInv

LEMMA RoutingStep == RoutingInv /\ [Next]_vars => RoutingInv'
<1> SUFFICES ASSUME RoutingInv, [Next]_vars PROVE RoutingInv' OBVIOUS
<1>1. CASE Next
  <2>1. TypesButLoad' BY <1>1, TypesStep
  <2>2. load' \in [Gateways -> Nat] /\ LoadCountsRoutes' BY <1>1, <2>1, LoadStep
  <2>3. TypeOK' BY <2>1, <2>2 DEF TypesButLoad, TypeOK
  <2>4. DownInv' /\ PermitsInv' BY <1>1, DownStep, PermitsStep
  <2>5. ASSUME NEW s \in Rollouts PROVE RolloutInv(s)'
    <3>1. ASSUME NEW q \in Rollouts, RolloutStep(q) PROVE RolloutInv(s)'
      <4>1. CASE q = s BY <3>1, <4>1, OwnStep
      <4>2. CASE q # s BY <3>1, <4>2, OthersSame, SameKeeps DEF RoutingInv
      <4> QED BY <4>1, <4>2
    <3> QED BY <1>1, <3>1, ActorStep, ShutdownStep DEF Next, RolloutStep
  <2>6. OpenSessionsWithinCap' BY <1>1, <2>1, <2>4, <2>5, OpenStep
  <2> QED BY <2>2, <2>3, <2>4, <2>5, <2>6 DEF RoutingInv
<1>2. CASE UNCHANGED vars
  BY <1>2 DEF vars, rolloutVars, managerVars, callVars, actorVars, RoutingInv, TypeOK,
              LoadCountsRoutes, DownInv, PermitsInv, Holding, OpenSessionsWithinCap, RolloutInv,
              QueuedInv, CreatingInv, RunningInv, ClosingInv, OverInv, SessionInv, AtHome,
              RoutedHome, Calling
<1> QED BY <1>1, <1>2

-----------------------------------------------------------------------------
(* Placement stays even *)

LEMMA BurstStep ==
    ASSUME RoutingInv, BurstIsSpread, Next, load' \in [Gateways -> Nat]
    PROVE  BurstIsSpread'
<1>1. TypeOK BY DEF RoutingInv
<1>2. SUFFICES ASSUME \A s \in Rollouts : stage'[s] \in Early,
                      NEW g \in Gateways, NEW h \in Gateways
               PROVE  load'[g] <= load'[h] + 1
  BY DEF BurstIsSpread, Early
<1>3. \A s \in Rollouts : stage[s] \in Early BY <1>1, <1>2, StageIs DEF Moves, TypeOK
<1>4. load[g] \in Nat /\ load[h] \in Nat /\ load[g] <= load[h] + 1
  BY <1>1, <1>3 DEF BurstIsSpread, Early, TypeOK
<1>5. CASE Kept BY <1>4, <1>5 DEF Kept
<1>6. CASE Clears BY <1>6 DEF Clears
<1>7. ASSUME NEW s \in Rollouts, Reserves(s) PROVE load'[g] <= load'[h] + 1
  <2> DEFINE m == LeastLoaded
  <2>1. m \in Gateways /\ load[m] <= load[h] /\ load' = [load EXCEPT ![m] = @ + 1]
    BY <1>1, <1>7, LeastLoadedIs DEF Reserves, Reserve, TypeOK
  <2> HIDE DEF m
  <2>2. /\ load[m] \in Nat
        /\ load'[g] = IF g = m THEN load[m] + 1 ELSE load[g]
        /\ load'[h] = IF h = m THEN load[m] + 1 ELSE load[h]
    BY <1>1, <2>1 DEF TypeOK
  <2> QED BY <1>4, <2>1, <2>2
<1>8. ASSUME NEW s \in Rollouts, Frees(s) PROVE FALSE BY <1>2, <1>8 DEF Frees
<1> QED BY <1>5, <1>6, <1>7, <1>8, ManagerIs

-----------------------------------------------------------------------------
(* Theorems *)

\* The inductive invariant: for every rollout, where it stands in _run_session tells its
\* call, its route and its session.
THEOREM Safety == Spec => []RoutingInv
BY RoutingInit, RoutingStep, PTL DEF Spec

\* The variables keep their types; in particular no counter gets negative.
THEOREM TypeCorrect == Spec => []TypeOK
<1>1. RoutingInv => TypeOK BY DEF RoutingInv
<1> QED BY <1>1, Safety, PTL

\* active_sessions_per_gateway is the number of routes to each actor, through every
\* rollback, failure, cancellation and death (manager.py).
THEOREM LoadIsExact == Spec => []LoadCountsRoutes
<1>1. RoutingInv => LoadCountsRoutes BY DEF RoutingInv
<1> QED BY <1>1, Safety, PTL

\* A burst of creations is placed evenly by _select_gateway_index, because the slot is
\* reserved before the remote create is awaited.
THEOREM EvenPlacement == Spec => []BurstIsSpread
<1>1. Init => BurstIsSpread BY DEF Init, BurstIsSpread
<1>2. RoutingInv /\ RoutingInv' /\ BurstIsSpread /\ [Next]_vars => BurstIsSpread'
  <2> SUFFICES ASSUME RoutingInv, RoutingInv', BurstIsSpread, [Next]_vars
               PROVE  BurstIsSpread'
    OBVIOUS
  <2>1. CASE Next BY <2>1, BurstStep DEF RoutingInv, TypeOK
  <2>2. CASE UNCHANGED vars
    BY <2>2 DEF vars, rolloutVars, managerVars, BurstIsSpread
  <2> QED BY <2>1, <2>2
<1> QED BY <1>1, <1>2, Safety, PTL DEF Spec

\* A running runner's session is open on the actor its calls are routed to.
THEOREM OwnSession == Spec => []RunnerHasItsSession
<1>1. RoutingInv => RunnerHasItsSession
  BY DEF RoutingInv, RunnerHasItsSession, RolloutInv, RunningInv, AtHome, RoutedHome
<1> QED BY <1>1, Safety, PTL

\* A rollout that returned or raised leaves neither a session nor a live route.
THEOREM CleanedUp == Spec => []NoSessionLeftBehind
<1>1. RoutingInv => NoSessionLeftBehind
  BY DEF RoutingInv, NoSessionLeftBehind, RolloutInv, OverInv
<1> QED BY <1>1, Safety, PTL

\* Sessions open on the actors never outnumber the runner's permits.
THEOREM WithinCap == Spec => []OpenSessionsWithinCap
<1>1. RoutingInv => OpenSessionsWithinCap BY DEF RoutingInv
<1> QED BY <1>1, Safety, PTL

\* A rollout's trajectories hold every answer its agent got.
THEOREM NothingUntrained == Spec => []AnsweredTurnsAreReturned
<1>1. RoutingInv => AnsweredTurnsAreReturned
  BY DEF RoutingInv, AnsweredTurnsAreReturned, RolloutInv, SessionInv
<1> QED BY <1>1, Safety, PTL
=============================================================================
