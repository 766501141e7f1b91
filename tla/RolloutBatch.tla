---------------------------- MODULE RolloutBatch ----------------------------
(***************************************************************************)
(* One batch of rollouts: generate_sequences of the agent framework        *)
(* (framework/framework.py) runs rollout.n sessions for every prompt under *)
(* the runners' semaphores, writes the trajectories of the successful ones *)
(* to the TransferQueue, and tags the prompt's uid when it is through with *)
(* it.  The trainer, which submitted the batch without waiting for it,     *)
(* polls the queue into a replica and samples the batch once no uid of it  *)
(* is pending there: that is at once, unless it was submitted by someone   *)
(* who enters the uids in the replica.  AgentLoopManagerTQ, verl's own     *)
(* manager, does; AgentFrameworkRolloutAdapter, which takes its place,     *)
(* does not.                                                               *)
(*                                                                         *)
(* How a session runs is GatewayRouting's matter: here it ends with an     *)
(* exception, with a control-flow exception (CancelledError), or with some *)
(* number of trajectories.  All coroutines share one event loop, and what  *)
(* a coroutine does between two awaits touches only its own locals, so a   *)
(* step of the loop over the outcomes is an action.  The queue and the     *)
(* trainer are external: a put stores all of its keys or fails, having     *)
(* stored all or nothing, and a poll is a snapshot.                        *)
(***************************************************************************)
EXTENDS Integers, FiniteSets, FiniteSetsExt

CONSTANTS
    Prompts,         \* the uids of the batch
    N,               \* rollout.n, sessions per prompt
    Runners,         \* the agent runners configured
    AgentNames,      \* what the prompts may name: a runner each, None when it is unknown
    Cap,             \* max_concurrent_sessions of each runner, 0 for no limit
    Lengths,         \* how many trajectories a session may return
    MaxCancelled,    \* bound on the sessions that end by a control-flow exception
    MaxPutFaults,    \* bound on the puts that fail
    None

ASSUME PromptsAssumption == IsFiniteSet(Prompts)
ASSUME SessionsAssumption == N \in Nat \ {0}
ASSUME AgentNamesAssumption == AgentNames \subseteq [Prompts -> Runners \cup {None}]
ASSUME CapAssumption == Cap \in [Runners -> Nat]
ASSUME LengthsAssumption == Lengths \subseteq Nat
ASSUME NoneAssumption == None \notin {"running", "finished", "failure"}

Sessions == 0 .. N - 1

VARIABLES
    session,    \* each session: "waiting", "running", or how it ended
    output,     \* the trajectories it returned
    prompt,     \* each prompt: "open", or how its task ended
    cursor,     \* the next outcome its loop looks at
    counts,     \* its success_sessions, failed_sessions and success_outputs
    queue,      \* keys of the trajectories in the TransferQueue
    tag,        \* status of each uid in the TransferQueue, None before
    agent_name, \* the runner each prompt names
    batch,      \* "running", "returned", "all_failed" or "propagated"
    stats,      \* the totals of the batch
    faults,     \* puts that failed
    marked,     \* whether the uids were entered in the trainer's replica
    seen,       \* the replica: trajectories, and the statuses of uids, None of unknown ones
    trainer,    \* "sampling", "sampled", or "raised" by the sampling
    sample      \* the keys it sampled, none before

sessionVars == <<session, output>>
promptVars == <<prompt, cursor, counts>>
batchVars == <<agent_name, batch, stats>>
queueVars == <<queue, tag, faults>>
trainerVars == <<marked, seen, trainer, sample>>
vars == <<sessionVars, promptVars, batchVars, queueVars, trainerVars>>

Zero == [success |-> 0, failed |-> 0, outputs |-> 0]

(* What the replica says of the uids when they are submitted: they are     *)
(* pending, or it does not know them.                                      *)
Submitted == [p \in Prompts |-> IF marked THEN "running" ELSE None]

Init ==
    /\ session = [p \in Prompts |-> [i \in Sessions |-> "waiting"]]
    /\ output = [p \in Prompts |-> [i \in Sessions |-> 0]]
    /\ prompt = [p \in Prompts |-> "open"]
    /\ cursor = [p \in Prompts |-> 0]
    /\ counts = [p \in Prompts |-> Zero]
    /\ queue = {}
    /\ tag = [p \in Prompts |-> None]
    /\ agent_name \in AgentNames
    /\ batch = "running"
    /\ stats = [success |-> 0, failed |-> 0, outputs |-> 0, failed_uids |-> 0]
    /\ faults = 0
    /\ marked \in BOOLEAN
    /\ seen = [keys |-> {}, status |-> Submitted]
    /\ trainer = "sampling" /\ sample = {}

-----------------------------------------------------------------------------
(* Sessions *)

Goto(p, i, state) == session' = [session EXCEPT ![p][i] = state]

Over == {"returned", "raised", "cancelled"}

All == Prompts \X Sessions

\* Mutant: the permit is only given back by a runner that returns.
HeldUntilReturn(r) ==
    {ps \in All : agent_name[ps[1]] = r
                  /\ session[ps[1]][ps[2]] \in {"running", "raised", "cancelled"}}

(* The permits taken from a runner's semaphore.                            *)
Holding(r) == {ps \in All : agent_name[ps[1]] = r /\ session[ps[1]][ps[2]] = "running"}

(* A permit is acquired, if the runner has a limit.                        *)
Start(p, i) ==
    /\ session[p][i] = "waiting"
    /\ agent_name[p] # None
    /\ LET cap == Cap[agent_name[p]]
       IN  cap > 0 => Cardinality(Holding(agent_name[p])) < cap
    /\ Goto(p, i, "running")
    /\ UNCHANGED <<output, promptVars, batchVars, queueVars, trainerVars>>

(* Unknown agent runner.                                                   *)
Reject(p, i) ==
    /\ session[p][i] = "waiting"
    /\ agent_name[p] = None
    /\ Goto(p, i, "raised")
    /\ UNCHANGED <<output, promptVars, batchVars, queueVars, trainerVars>>

Cancelled == {ps \in All : session[ps[1]][ps[2]] = "cancelled"}

(* _run_session returns its trajectories, or raises.                       *)
End(p, i) ==
    /\ session[p][i] = "running"
    /\ \/ /\ \E k \in Lengths : output' = [output EXCEPT ![p][i] = k]
          /\ Goto(p, i, "returned")
       \/ Goto(p, i, "raised") /\ UNCHANGED output
       \/ /\ Cardinality(Cancelled) < MaxCancelled
          /\ Goto(p, i, "cancelled")
          /\ UNCHANGED output
    /\ UNCHANGED <<promptVars, batchVars, queueVars, trainerVars>>

-----------------------------------------------------------------------------
(* The task of one prompt *)

(* gather has every session's outcome.                                     *)
Gathered(p) == prompt[p] = "open" /\ \A i \in Sessions : session[p][i] \in Over

Looking(p) == Gathered(p) /\ cursor[p] \in Sessions

Outcome(p) == session[p][cursor[p]]
Outputs(p) == output[p][cursor[p]]

Failed(p) == Outcome(p) = "raised" \/ (Outcome(p) = "returned" /\ Outputs(p) = 0)

Count(p, success, failed, outputs) ==
    counts' = [counts EXCEPT ![p] = [success |-> @.success + success,
                                     failed |-> @.failed + failed,
                                     outputs |-> @.outputs + outputs]]

Forward(p) == cursor' = [cursor EXCEPT ![p] = @ + 1]

EndPrompt(p, how) == prompt' = [prompt EXCEPT ![p] = how]

\* Mutant: only an exception counts as a failed session.
SkipCountingEmpty(p) ==
    /\ Looking(p) /\ Failed(p)
    /\ IF Outcome(p) = "raised" THEN Count(p, 0, 1, 0) ELSE Count(p, 1, 0, 0)
    /\ Forward(p)
    /\ UNCHANGED <<sessionVars, prompt, batchVars, queueVars, trainerVars>>

\* Mutant: the first failed session fails the prompt.
SkipRaising(p) ==
    /\ Looking(p) /\ Failed(p)
    /\ EndPrompt(p, "raised")
    /\ UNCHANGED <<sessionVars, cursor, counts, batchVars, queueVars, trainerVars>>

(* An exception or an empty list of trajectories is a failed session.      *)
SkipFailed(p) ==
    /\ Looking(p) /\ Failed(p)
    /\ Count(p, 0, 1, 0)
    /\ Forward(p)
    /\ UNCHANGED <<sessionVars, prompt, batchVars, queueVars, trainerVars>>

(* A control-flow exception ends the prompt's task.                        *)
Propagate(p) ==
    /\ Looking(p) /\ Outcome(p) = "cancelled"
    /\ EndPrompt(p, "cancelled")
    /\ UNCHANGED <<sessionVars, cursor, counts, batchVars, queueVars, trainerVars>>

(* uid_session_index.                                                      *)
Keys(p, i, k) == {<<p, i, j>> : j \in 0 .. k - 1}

ToWrite(p) == Looking(p) /\ Outcome(p) = "returned" /\ Outputs(p) > 0

(* The trajectories of a session go to the queue in one batch put.         *)
WriteSession(p) ==
    /\ ToWrite(p)
    /\ queue' = queue \cup Keys(p, cursor[p], Outputs(p))
    /\ Count(p, 1, 0, Outputs(p))
    /\ Forward(p)
    /\ UNCHANGED <<sessionVars, prompt, batchVars, tag, faults, trainerVars>>

Fault == faults < MaxPutFaults /\ faults' = faults + 1

\* Mutant: a prompt's uid is tagged however its task ends.
WriteFailsTagged(p) ==
    /\ ToWrite(p)
    /\ Fault
    /\ tag' = [tag EXCEPT ![p] = "failure"]
    /\ EndPrompt(p, "raised")
    /\ UNCHANGED <<sessionVars, cursor, counts, batchVars, queue, trainerVars>>

(* The put raises, and with it the prompt's task.                          *)
WriteFails(p) ==
    /\ ToWrite(p)
    /\ Fault
    /\ \/ UNCHANGED queue
       \/ queue' = queue \cup Keys(p, cursor[p], Outputs(p))
    /\ EndPrompt(p, "raised")
    /\ UNCHANGED <<sessionVars, cursor, counts, batchVars, tag, trainerVars>>

Status(p) == IF counts[p].success > 0 THEN "finished" ELSE "failure"

\* Mutant: the loop ends one outcome early.
ToTagEarly(p) == Gathered(p) /\ cursor[p] = N - 1

ToTag(p) == Gathered(p) /\ cursor[p] = N

(* The uid is tagged, and the prompt's counts returned.                    *)
PutStatus(p) ==
    /\ ToTag(p)
    /\ tag' = [tag EXCEPT ![p] = Status(p)]
    /\ EndPrompt(p, "returned")
    /\ UNCHANGED <<sessionVars, cursor, counts, batchVars, queue, faults, trainerVars>>

PutStatusFails(p) ==
    /\ ToTag(p)
    /\ Fault
    /\ UNCHANGED tag \/ tag' = [tag EXCEPT ![p] = Status(p)]
    /\ EndPrompt(p, "raised")
    /\ UNCHANGED <<sessionVars, cursor, counts, batchVars, queue, trainerVars>>

-----------------------------------------------------------------------------
(* The batch *)

\* Mutant: a prompt that raised counts as one failed session.
ContributionOfOne(p) ==
    IF prompt[p] = "raised"
    THEN [success |-> 0, failed |-> 1, outputs |-> 0, failed_uids |-> 1]
    ELSE [success |-> counts[p].success, failed |-> counts[p].failed,
          outputs |-> counts[p].outputs,
          failed_uids |-> IF counts[p].success > 0 THEN 0 ELSE 1]

(* What a prompt's outcome adds to the totals.                             *)
Contribution(p) ==
    IF prompt[p] = "raised"
    THEN [success |-> 0, failed |-> N, outputs |-> 0, failed_uids |-> 1]
    ELSE [success |-> counts[p].success, failed |-> counts[p].failed,
          outputs |-> counts[p].outputs,
          failed_uids |-> IF counts[p].success > 0 THEN 0 ELSE 1]

Totals ==
    [success |-> MapThenSumSet(LAMBDA p : Contribution(p).success, Prompts),
     failed |-> MapThenSumSet(LAMBDA p : Contribution(p).failed, Prompts),
     outputs |-> MapThenSumSet(LAMBDA p : Contribution(p).outputs, Prompts),
     failed_uids |-> MapThenSumSet(LAMBDA p : Contribution(p).failed_uids, Prompts)]

(* gather has every prompt's outcome: a control-flow exception goes on; if *)
(* nothing was put out, "All rollouts failed".                             *)
EndBatch ==
    /\ batch = "running"
    /\ \A p \in Prompts : prompt[p] # "open"
    /\ IF \E p \in Prompts : prompt[p] = "cancelled"
       THEN batch' = "propagated" /\ UNCHANGED stats
       ELSE /\ stats' = Totals
            /\ batch' = IF Totals.outputs = 0 THEN "all_failed" ELSE "returned"
    /\ UNCHANGED <<sessionVars, promptVars, agent_name, queueVars, trainerVars>>

-----------------------------------------------------------------------------
(* The trainer *)

(* The replica takes over what the queue lists, as long as there is a      *)
(* trainer; what the trainer does after sampling is left out.              *)
Poll ==
    /\ trainer # "raised"
    /\ seen' = [keys |-> queue,
                status |-> [p \in Prompts |->
                               IF tag[p] = None THEN seen.status[p] ELSE tag[p]]]
    /\ UNCHANGED <<sessionVars, promptVars, batchVars, queueVars, marked, trainer, sample>>

(* The step of an entry is looked up before its status, and the framework's*)
(* tags of uids have none: it is there when the uid was marked.            *)
StepKnown == \A p \in Prompts : seen.status[p] # None => marked

Sample ==
    /\ trainer = "sampling" /\ StepKnown
    /\ \A p \in Prompts : seen.status[p] # "running"
    /\ trainer' = "sampled"
    /\ sample' = seen.keys
    /\ UNCHANGED <<sessionVars, promptVars, batchVars, queueVars, marked, seen>>

(* KeyError.                                                               *)
SampleRaises ==
    /\ trainer = "sampling" /\ ~ StepKnown
    /\ trainer' = "raised"
    /\ UNCHANGED <<sessionVars, promptVars, batchVars, queueVars, marked, seen, sample>>

-----------------------------------------------------------------------------
RunSession(p, i) == Start(p, i) \/ Reject(p, i) \/ End(p, i)

Collect(p) ==
    \/ SkipFailed(p) \/ Propagate(p) \/ WriteSession(p) \/ WriteFails(p)
    \/ PutStatus(p) \/ PutStatusFails(p)

Next ==
    \/ \E p \in Prompts, i \in Sessions : RunSession(p, i)
    \/ \E p \in Prompts : Collect(p)
    \/ EndBatch \/ Poll \/ Sample \/ SampleRaises

Spec == Init /\ [][Next]_vars

(* The event loop runs every task that can run, semaphores wake waiters in *)
(* turn, runners end (their own timeouts see to it), puts are answered,    *)
(* and the trainer keeps polling and sampling.                             *)
FairSpec ==
    /\ Spec
    /\ \A p \in Prompts, i \in Sessions : WF_vars(RunSession(p, i))
    /\ \A p \in Prompts : WF_vars(Collect(p))
    /\ WF_vars(EndBatch) /\ WF_vars(Poll) /\ WF_vars(Sample)

-----------------------------------------------------------------------------
(* Properties *)

AllKeys == Prompts \X Sessions \X Nat

SessionType ==
    /\ session \in [Prompts -> [Sessions -> {"waiting", "running"} \cup Over]]
    /\ output \in [Prompts -> [Sessions -> Nat]]

PromptType ==
    /\ prompt \in [Prompts -> {"open", "returned", "raised", "cancelled"}]
    /\ cursor \in [Prompts -> 0 .. N]
    /\ counts \in [Prompts -> [success : Nat, failed : Nat, outputs : Nat]]

BatchType ==
    /\ agent_name \in AgentNames
    /\ batch \in {"running", "returned", "all_failed", "propagated"}
    /\ stats \in [success : Nat, failed : Nat, outputs : Nat, failed_uids : Nat]

QueueType ==
    /\ queue \subseteq AllKeys
    /\ tag \in [Prompts -> {"finished", "failure", None}]
    /\ faults \in Nat

TrainerType ==
    /\ marked \in BOOLEAN
    /\ seen \in [keys : SUBSET AllKeys,
                 status : [Prompts -> {"running", "finished", "failure", None}]]
    /\ trainer \in {"sampling", "sampled", "raised"}
    /\ sample \subseteq AllKeys

\* Type invariant.
TypeOK == SessionType /\ PromptType /\ BatchType /\ QueueType /\ TrainerType

SuccessfulKeys(p) ==
    UNION {Keys(p, i, output[p][i]) : i \in Sessions}

Tagged == {"finished", "failure"}

\* Part of GroupsAreWhole: the replica has all trajectories of a uid whose tag it has.
TaggedIsWhole ==
    \A p \in Prompts : seen.status[p] \in Tagged =>
        {key \in seen.keys : key[1] = p} = SuccessfulKeys(p)

\* Part of GroupsAreWhole: what is sampled is all of them, when the uids were marked.
MarkedSampleIsWhole ==
    marked /\ trainer = "sampled" => sample = UNION {SuccessfulKeys(p) : p \in Prompts}

\* The trainer gets whole groups although it polls while they are written: when its replica
\* has the tag of a uid, it has every trajectory of every session of it that succeeded, and
\* no other; and so has its sample, of a batch whose uids were marked as pending (without,
\* it may be empty, or anything that has been written by then).
GroupsAreWhole == TaggedIsWhole /\ MarkedSampleIsWhole

\* A uid is tagged "finished" when trajectories of it are in the queue and "failure"
\* when there is none, whatever mix of exceptions and empty sessions it had.
StatusTellsOutputs ==
    \A p \in Prompts : tag[p] # None =>
        (tag[p] = "finished" <=> \E key \in queue : key[1] = p)

\* Once the batch has ended its statistics add up to all sessions and all prompts:
\* every session counts once, and the outputs are what the queue got, but for what
\* prompts that raised had written before.
StatsAccountForEverySession ==
    batch \in {"returned", "all_failed"} =>
        /\ stats.success + stats.failed = Cardinality(All)
        /\ stats.outputs = Cardinality({key \in queue : prompt[key[1]] = "returned"})
        /\ stats.failed_uids =
               Cardinality({p \in Prompts : prompt[p] = "raised" \/ tag[p] = "failure"})

\* The batch implements the store of groups: although trajectories are put session by
\* session, puts fail and the trainer polls meanwhile, a group is published at once or
\* never, whole and with the status it has, stays as it was published, and is read so.
Store == INSTANCE GroupStore WITH
             over <- [p \in Prompts |-> {i \in Sessions : session[p][i] \in Over}],
             status <- [p \in Prompts |-> IF tag[p] = None THEN "running" ELSE tag[p]],
             group <- [p \in Prompts |->
                          IF tag[p] = None THEN {} ELSE {key \in queue : key[1] = p}],
             replica <-
                 [p \in Prompts |->
                     IF seen.status[p] \in Tagged
                     THEN [status |-> seen.status[p],
                           group |-> {key \in seen.keys : key[1] = p}]
                     ELSE [status |-> "running", group |-> {}]]
ImplementsGroups == Store!StoreSpec

\* Every batch ends: no combination of limits, unknown runners and failures leaves
\* generate_sequences waiting.
EveryBatchEnds == <>(batch # "running")

\* Failures of runners are isolated: whatever sessions raise or come back empty, every uid
\* gets its tag, and the trainer the batch when it waits for it, as long as no put fails and
\* no task is cancelled.
RunnerFailuresAreIsolated ==
    <>(\/ (\A p \in Prompts : tag[p] # None) /\ (marked => trainer = "sampled")
       \/ faults > 0 \/ Cancelled # {})

\* A trainer that has marked the uids gets every batch, also when a prompt's task fails:
\* "Prompt tasks are isolated so one prompt failure does not drop the whole batch"
\* (framework.py:334).
EveryBatchIsSampled == marked => <>(trainer = "sampled")
=============================================================================
