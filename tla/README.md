# Verification of uni_agent

uni_agent runs language-model agents in sandboxes and turns what they did into training
data. This directory holds TLA+ models of its concurrent core, the TLC runs that check them
and the theorems TLAPS proves about them. Paths are relative to the repository (`src/`
here): `session.py:213` is `uni_agent/gateway/session/session.py`, line 213.

Contents: [1 Inventory](#1-inventory) · [2 Plan](#2-plan) · [3 The modules and the code](#3-the-modules-and-the-code) ·
[4 The runs](#4-the-runs) · [5 Fairness](#5-fairness) · [6 The proofs](#6-the-proofs) ·
[7 Findings](#7-findings) · [8 What is not modelled](#8-what-is-not-modelled) · [9 Running it](#9-running-it)

## 1 Inventory

A batch flows as follows. The trainer hands prompts to the **agent framework**. For every
prompt the framework runs `rollout.n` sessions, each under its runner's semaphore. A session
is created on one of several **gateway actors** through the **gateway manager**; the agent,
anywhere, talks to the actor over HTTP as to an OpenAI or Anthropic server; the **gateway
session** keeps, token for token, what was said. When the runner is done the session is
finalized into trajectories, which are scored and put into the TransferQueue, where the
trainer's replay buffer polls for them. The agent itself is the **interaction**: it queries
the model, parses tool calls, runs them in the shell of a **deployment** (on the host, in a
container, at Modal or veFaaS), and commits the results.

| Component | State | Operations | Hard behaviours | What makes it correct |
|---|---|---|---|---|
| Gateway session (`gateway/session/session.py`) | phase, active and materialized chains, reserved chain ids, counters, reward info, an asyncio lock | `run_generation`, `set_reward_info`, `finalize`, `abort` | requests interleave while the lock is released for the backend; cancellation at any await; close under requests in flight | no lost update, no leaked reservation, tokens encode the conversation, aligned log-probabilities, budget, a closed session is frozen |
| Message codec (`gateway/session/codec.py`) | none kept between calls | `encode_full`, `encode_incremental`, `decode_response`, canonicalization | the echo of a reply differs from the reply | modelled by what it contributes to the session |
| Gateway actor (`gateway/gateway.py`) | sessions by id, HTTP server task | create, finalize, abort, request handlers, start, shutdown | a handler keeps a session taken off the list; the process dies | answered turns are in the trajectories |
| Gateway manager (`gateway/manager.py`) | route of each session, load of each actor | `create_session`, `finalize_session`, `abort_session`, `shutdown` | bursts of creations awaited at once; rollback; calls executed after their caller is gone | the load counts the routes, placement is even, nothing is left open |
| Agent framework (`framework/framework.py`) | semaphores of the runners, counts of a batch | `generate_sequences`, one task per prompt, one per session | exceptions, empty results and cancellations in any mix; puts that fail | a group is never read in part, tags and statistics tell what was written, failures are isolated |
| Agent interaction (`interaction/*.py`, `agent_loop.py`) | messages, rollout cache, timeout budget, trajectory of exit reasons | `run`, `step`, `run_action` | a shell that hangs, cannot be interrupted or dies between two calls | every call answered, cache equals history, nothing runs after giving up |
| Host deployment (`deployment/host/deployment.py`) | shells by name, I/O lock, `_dead` | create, run in, close a session | late output and a late marker after a timeout; an interrupt that meets another command; a command that reads stdin, ends bash or leaves it tracing | a command's output is its own; a wedged shell is given up; every caller gets an answer |
| Modal deployment (`deployment/modal/deployment.py`) | sandbox, client, starting semaphore, wall budget | start with retries, stop | an attempt failing at any await, before or after its sandbox exists; cancellation of start and stop | no sandbox left behind, a retry starts afresh, starting sandboxes within the cap |
| Local, attached, veFaaS deployments | container or instance, `_stopped` flag | start, stop, destructor | stop in the middle of start; start after stop; a destructor that schedules a stop | what was started is stopped |
| Remote runtime (`deployment/remote_runtime.py`) | HTTP session | requests with retries and an idempotency key | an answer lost after execution, a message read after its retry | a request runs once |
| Shared encoder, retrieval server (`tools/search/localwiki/`) | queues of requests, batches, a call put back | `/retrieve`, the batching worker, `encode`, the batching loop | requests joined and cut twice; one failure for many callers; callers that leave | every request ends, with the documents of its own queries |
| Dashboard (`dashboard/server.py`) | file offsets, runs, deque of events | scan, snapshot, event stream | files growing under the scan; cursors read outside the lock | every event once, none missed |
| Lark chat (`app/lark_chat/`) | a transcript file per chat, the history in memory | one message after the other: load, compact, run a turn, save | a broken turn is saved; compaction at the limit; the process stops while it runs or writes | the history stays one the API accepts, and is the recent part of what was said |
| Adapters, tool parser, tools, skills, rewards, logging | none of interest | translation, parsing, scripts | - | pure or sequential |
| verl trainer (`verl/`, vendored) | replay buffer | poll, sample | polls while the batch is written | only the other end of `RolloutBatch` |

The hazards, each at its line with the properties that watch it, are listed in
`PROJECT.json`. One that no property watches says why in its note.

## 2 Plan

Most important behaviour first. Stages 1 to 8 are done, the last is not.

| Stage | Module | Composes / implements | Runs | Theorems |
|---|---|---|---|---|
| 1 done | `ConversationLog` (abstract), `GatewaySession` | `GatewaySession` implements `ConversationLog` | `session_safety`, `session_liveness` | all its invariants, and the refinement (section 6) |
| 2 done | `GatewayRouting` | rollouts, manager and actors together; a session seen from outside | `routing_safety` | all its invariants (section 6) |
| 3 done | `GroupStore` (abstract), `RolloutBatch` | framework, TransferQueue and trainer; a session seen by its end; `RolloutBatch` implements `GroupStore` | `batch`, `batch_dropped` | all its invariants, and the refinement (section 6) |
| 4 done | `AgentInteraction` | model, step loop and shell | `interaction`, `interaction_dangling` | all its invariants (section 6) |
| 5 done | `HostShell` | the shell `AgentInteraction` takes as external: markers, timeouts, drain, interrupt | `host_shell` | all its invariants (section 6) |
| 6 done | `RemoteRequest`, `SandboxLifecycle` | `SandboxLifecycle` composes runs, three deployments, their provider and the `RemoteRequest` that opens a session | `sandbox`, `sandbox_collected` | all its invariants (section 6) |
| 7 done | `SearchService` | worker processes and encoder actors of the local wiki search | `search` | all its invariants (section 6) |
| 8 done | `ChatHistory` | turns of `AgentInteraction`, seen by their messages, over transcripts | `chat` | all its invariants (section 6) |
| 9 | dashboard cursors | - | - | - |

Later modules keep the form of the first: parameters as CONSTANTS with named assumptions,
one action per operation or stretch between two awaits, invariants as named conjuncts, no
recursive operator, so that each can be proved about.

An abstract specification still worth stating: for stage 5 an atomic command log.

## 3 The modules and the code

All of the Python modelled here runs on asyncio: **what stands between two awaits is one
action**, and an await is a label of a program counter. Exceptions and cancellation are
actions of their own at each await. An operator commented `Mutant:` stands before the
definition it is a faulty variant of, and is used by no specification; `PROJECT.json` pairs
them with the property that notices the fault.

### GatewaySession (with ConversationLog)

`Requests` are the calls of `run_generation`. `pc` follows one through it:

| `pc` | where | actions leaving it |
|---|---|---|
| `idle` | before the call | `Submit` |
| `entering` | waits for the lock, `session.py:194` | `Refuse` (409), `Select`, `FailEarly` |
| `encoding` | holds the lock, awaits the codec, 340-365 | `PrepareNew`, `PrepareNext`, `CloseExhausted`, `FailEarly` |
| `generating` | lock released, awaits the backend, 217-242 | `BackendReturns`, `FailLate` |
| `returning` | waits for the lock again, 244 | `Reenter`, `RefuseLate` (409), `FailLate` |
| `decoding` | holds the lock, awaits `decode_response` | `Commit`, `FailLate` |
| `releasing` | in the `finally`, waits for the lock, shielded, 269-271 | `Release` |

`chains`, `materialized`, `reserved`, `nextChain`, `orderSeq`, `phase`, `rewardInfo` are the
fields of the same meaning in `GatewaySession`; `lock` is the holder of `request_lock`
across an await (sections that do not await are single actions guarded by a free lock);
`work` is `EncodedData`. `SetRewardInfo`, `Finalize` and `Abort` are the other methods.

Abstractions. A response token is the request that generated it, or `Context`, which stands
for the ids and the mask together; log-probabilities carry the same labels, so that a
misplaced one shows. A prefix hash is its preimage, the canonical forms of the messages.
The prompt is not counted, since the budget is on response tokens. `text` is a history
variable: which messages the ids encode.

`ConversationLog` says what all this is for: conversations that grow at their end, by whole
turns, one per answered request, each conversation kept whole until the log is sealed or
discarded. It has no lock, reservation or request in flight. The refinement mapping
(`ImplementsLog`) reads the open conversations off the chains' ids and the closed ones off
the materialized chains; selection, encoding, generation, failures and releases stutter.

### GatewayRouting

`Rollouts` are the sessions of a batch; `stage` is the await a rollout stands at in
`_run_session` (`framework.py:492-566`): `queued` for its permit, `creating`, `running`,
`finalizing`, `aborting`, `scoring`, or how it ended. `route` and `load` are the manager's
two tables. A call to an actor is remote: `call` is what was sent, `reply` its outcome;
the actor executes it (`ActorCreates`, `ActorFinalizes`, `ActorAborts`) whether or not the
caller still waits, and `ActorUnreachable` answers for one that died. The actor keeps
`listed` and `phase` of each session, and the agent's HTTP request goes from `posted` to
`generating` to an answer, holding on to its session across the generation as the handlers
do. `Cancel` cancels a rollout at any await; `ActorDies` kills a process; `BeginShutdown`,
`ActorStops`, `EndShutdown`, `FailShutdown` are the manager's shutdown. `GatewaySession` is
the detail behind `phase` and `answered`: an answer is only counted on an `ACTIVE` session,
which is what `ClosedSessionIsFrozen` and `ImplementsLog` establish there.

### RolloutBatch (with GroupStore)

`session` and `output` are the tasks of one prompt's sessions; `prompt`, `cursor` and
`counts` are the task of the prompt as it walks through the gathered outcomes
(`framework.py:403-449`); `batch` and `stats` are `_run_batch_to_tq` and
`generate_sequences`; `queue` and `tag` are the TransferQueue; `marked`, `seen`, `trainer` and
`sample` are the trainer's replica (`main_ppo_sync.py:210-295`). `agent_name` says which runner
each prompt names; TLC tries several choices in one run. `SkipFailed`, `Propagate`, `WriteSession`
(or `WriteFails`) are the branches of the loop over outcomes, `PutStatus` (or
`PutStatusFails`) the tag after it, `EndBatch` the accounting.

Two kinds of trainers are modelled, since what the code promises differs. `marked` says
whether the uids of the batch are in the replica, as pending, when the batch is submitted.
AgentLoopManagerTQ, verl's own manager, enters them (`main_ppo_sync.py:483-487`). The
submitter of this repository, `AgentFrameworkRolloutAdapter` (`framework/entry.py:140-146`),
which takes that manager's place, enters nothing: unless the training recipe, which is outside
this repository, does, the trainer starts unmarked. `step` samples right after it has submitted
(`main_ppo_sync.py:1706-1710`), so an unmarked replica has nothing to wait for and `Sample` may
take an empty batch, or whatever trajectories were written by then. And since the tags of
uids carry no `global_steps` (`framework.py:437-440`), looking at such a tag in an unmarked
replica is a KeyError (`SampleRaises`, `main_ppo_sync.py:284`); in a marked one the step is
there from the marking. This is a hazard of the list and no finding: nothing in the repository
says that the batch sampled is the batch submitted. What holds of both trainers is that a
group whose tag has come is whole; that the *sample* is the batch, and is ever taken, is stated of
marked uids only.

Of the TransferQueue it is assumed that a put stores all of its keys, or raises having stored
all or none, and that a poll is a snapshot.

`GroupStore` says what the trainer is promised: sessions end once, with some trajectories; a
prompt's group, the trajectories of all its sessions, is published at once, with a status
that says if it has any; and the trainer reads what is published, as often as it likes. It
has no queue that is written piece by piece and no task that fails. The
refinement mapping (`ImplementsGroups`) reads a group off the queue once its uid is tagged,
and takes it as empty before, and off the replica likewise; a poll is a read. Puts, their
failures, sampling and statistics stutter, a prompt that gave up is never published, and nothing
is written behind a tag. None of it depends on `marked`. That a group *is*
published is a matter of liveness, and false when a put fails (section 7).

### AgentInteraction

`step` and `run` of `interaction.py`, with `run_action` of `env.py` inlined: `pc` is
`query`, `acting`, `interrupting` and `probing` (the two awaits after a timeout), `commit`
and `ended`. `messages` is the history as roles, steps and call numbers; `cache` is what the
rollout cache of `model.py` encodes, as a sequence of responses and groups of tool messages;
`results`, `finish`, `dead`, `budget` are the locals and fields of the same meaning;
`trajectory` lists exit reasons. Three modes: training (calls parsed out of the text, cache
kept), evaluation over an API (structured calls, no cache), chat (structured, and a response
without calls ends the turn). Model and shell are external and may do anything a caller can
observe; a shell that is gone only raises.

### HostShell

A call of `run_in_session` is `waiting` for `_io_lock`, `reading` up to its marker,
`draining` after its timeout, or `done`. What passes through the pipes are items: a command
and an echo on `stdin`; lines, text without a newline, and lines that hold a marker on `stdout`, each with
the call it is of. A line that holds a marker is `marker` when an exit code follows it and
`garbled` when something else does. `ReadMarker`, `ReadGarbled`, `ReadLine`, `ReadLong` and
`ReadEof` are `_read_until_marker`'s loop over the first line of `stdout`: any line that holds
the marker ends the reading (`deployment.py:133`), and `int` of what follows it may raise (135); `TimeOut` and `DrainTimesOut`
are the two expiries of `asyncio.timeout`; `Refuse` and `WriteBreaks` are what a dead bash
does to a call. `process` tells an exited bash from a reaped one, since the code looks at
`returncode` only. bash and its commands are external: a command may take bash's input, end
bash, ignore SIGINT or hang, and bash may exit leaving the command with the pipe. `struck`,
`wrote` and `taken` are history variables.

A marker may appear more than once, or not at all. Commands run verbatim in the one shell,
with stderr merged into stdout (`deployment.py:91`, `tools_manager.py:93`). After `set -x` the
trace of the echo, `+ echo __UNIAGENT_x__0`, holds the marker and the exit code: the reading
ends there, with the right code, and the marker itself is left to be the first line of the next
call. After `set -v`, or under a DEBUG trap, bash prints the echo as it was written, with
`"$__ua_ec"` after the marker, which is no number. After `exec >file` there is no marker
at all. `Echoed` is what bash may print for an echo: each of the three lines, or not, in that
order; what it traces of the line that saves the exit code is a line of the command. And a command
that has read an echo from stdin (`taken`) may print it as it stands (`cat`: garbled) or run
it (a nested shell: a marker), which are among the `JobLines`.

Not modelled: what a command's background jobs print later, and a command that takes from
stdin the line that saves its exit code but not the echo after it (the code reported would be
that of an earlier command).

### SandboxLifecycle (with RemoteRequest)

A run of the agent loop from `env.start` to the `env.close` of its `finally`
(`agent_loop.py:99-135`), over one of three deployments, `kind`. They share the actions and
differ in their guards:

| | `modal` | `container` (LocalDeployment, OCI) | `vefaas` |
|---|---|---|---|
| what is retried | the whole attempt, while the wall budget lasts | the whole attempt | the creation alone |
| after a failed attempt | `stop()` | `stop()` | nothing; `env.close` stops |
| what remembers the sandbox | `_sandbox`, once created | the name, before it is created | `_sandbox_id`, once created |
| stop's flag | none | `_stopped`, cleared by `start` | `_stopped` |
| `__del__` | none | schedules `stop()` | schedules `stop()` |

`pc` is the await: `queued` for a permit, `creating`, `connecting`, `waiting` for the server,
`session` (the request that opens the session), `working`, `closing` the client, `deleting`
the sandbox, `backoff`, `over`, and `collected` between a destructor and the task it
scheduled. `Fail` is any exception or timeout of an await of `start`; `Cancel` is
`CancelledError` at any await, which no `except Exception` of start catches. `env.start`
passes five retries; here `MaxRetries` is a constant per run. `cloud` is the provider: it
creates a sandbox when it likes, also after its caller has gone, and sandboxes die.
`excused` is a history variable: the sandboxes whose creation was cut short, or whose deletion
failed or was itself cancelled. Most of these the code cannot remove, since their identity
never reached it. A container is different: its name is known before it exists, and the stop
after a cancelled start does remove that name; it is excused because the thread that runs
the engine goes on, and may create it after that.

`RemoteRequest` is `_request`: one key for all tries, a retry when the connection breaks,
any other exception raised. The server runs a key once (external, as the comment on the
header says). It is instantiated with one client per sandbox.

### SearchService

The worker processes of `retrieval_server.py` and the encoder actors they share. `inbox`,
`batch`, `todo` and `found` are `batching_worker` and the loop of `_batch_search` over chunks;
`queue`, `pending`, `joined` and `closed` are the actor's `_batching_loop` with
its deque of calls put back. A query's embedding stands for the query, so that a slice cut
at a wrong offset shows as somebody else's query. What FAISS ranks for a query is a fixed
list of passages with urls; the widening to twice `topk`, the removal of duplicate urls and
the two cuts are the code's (`Distinct` is a recursive function
over the ranks, so that it can be proved about). Raising and dying are actions; a caller may leave.

### ChatHistory

`handle_one_message` over one transcript `file` per chat. `Receive` loads, compacts and
appends the message; `Respond`, `Answer`, `QueryRaises` and `CallRaises` are
`AgentInteraction` in chat mode, reduced to the messages it appends; `EndTurn` begins the
writing of the temporary file and `Save` replaces the transcript; `Crash` is the end of the
process, which `except Exception` does not see, so that nothing of the turn is saved.
`Compact` is `compact_history`: the greedy walk from the newest chunk back is the least user
message from which the rest fits, or the newest one. `Only` (the comprehensions that pick
some messages of a history) and `Cost` are recursive functions, so that they can be proved
about. `said` (everything that was ever saved) and `broken` are history variables.

A turn is broken in two ways, and `RequestsAreAccepted` is about all others. A call that
raises leaves calls without answers (section 7). And a response without `tool_calls` whose
*text* holds tool-call markup is parsed all the same (`interaction.py:172`): its answers, or the
format error, are tool messages that answer no call of the assistant message. Both are
saved, and an API that checks the linkage refuses the chat until compaction drops the turn.

## 4 The runs

| Run | Instance | What it shows |
|---|---|---|
| `session_safety` | 4 requests, 4 kinds of calls, budget 4, generations of 1 or 2 tokens; symmetric requests | `InFlightOwnsChain`, `ReservationsAreHeld`, `BufferEncodesConversation`, `LogprobsAligned`, `BudgetRespected`, `RewardTargetIsLatest`, `ClosedSessionIsFrozen`; and `ImplementsLog`, the refinement |
| `session_liveness` | 3 requests, 2 kinds of calls, budget 3; no symmetry | `EveryRequestEnds` |
| `routing_safety` | 3 rollouts, 2 permits, 2 actors, 1 answered turn per session, 2 faults; symmetric rollouts | `LoadCountsRoutes`, `BurstIsSpread`, `RunnerHasItsSession`, `NoSessionLeftBehind`, `OpenSessionsWithinCap`, `AnsweredTurnsAreReturned` |
| `batch` | 2 prompts of 2 sessions, under one permit, or the second without a limit or with an unknown runner; uids marked or not; 0 or 2 trajectories a session, 1 cancelled session, 2 failing puts | `GroupsAreWhole`, `StatusTellsOutputs`, `StatsAccountForEverySession`, `EveryBatchEnds`, `RunnerFailuresAreIsolated`; and `ImplementsGroups`, the refinement |
| `batch_dropped` (violation) | 2 prompts of 2 sessions, one capped, one not; nothing cancelled, 1 failing put | `EveryBatchIsSampled` is false, section 7 |
| `interaction` | 3 turns of up to 2 calls, budget 1, 5 probes, all three modes | `HistoryIsComplete`, `CacheFollowsMessages`, `FinishedMeansFinished`, `NothingRunsAfterGivingUp`, `RunEnds` |
| `interaction_dangling` (violation) | the same | `HistoryIsCompleteOnFailure` is false, section 7 |
| `host_shell` | 2 calls, up to 2 lines printed in all, 1 cancelled call | `NoCrossTalk`: a call starts on a stream with no more on it than a second marker, or is refused, and returns its own output; `EveryCallEnds` |
| `sandbox` | 2 modal runs under 1 permit, of 2 attempts and of 1; or 1 run of 2 attempts with a container or veFaaS; 1 retry of a request, 1 cancellation | `NothingLeftBehind`, `WorksInItsOwnSandbox`, `StartingWithinCap`, `EveryRunEnds` |
| `sandbox_collected` (violation) | the same | `CollectedIsStopped` is false, section 7 |
| `chat` | 1 chat, 4 messages, turns of up to 2 responses with up to 2 calls; answers weigh 2, the system's message 1 or 9, others 1; limits of 8 and 5 tokens | `RequestsAreAccepted`, `HistoryIsRecent` |
| `search` | 3 requests of 1 or 2 queries, 2 workers, 2 actors, batches of 2 requests, chunks and encoder batches of 2 queries | `AnswersAreOwn`, `EveryRequestEnds` |

Why the bounds are enough for what they are to show:

- *Session.* The four calls reach every branch of `_select_chain` and of the preparation: a
  first prompt, a continuation whose echo matches only after canonicalization, one that adds
  no message, one under other tools; with and without log-probabilities. Four requests
  allow two on one chain and two on another, one reserving while one commits, one failing
  and one released. A budget of 4 with turns of up to 3 tokens is exhausted before, by and
  after the context tokens. The proofs of section 6 need none of these bounds.
- *Routing.* Three rollouts under two permits on two actors: one must queue, and placement
  has a tie and a difference to decide. Two faults let an actor die under a rollout that is
  cancelled, or both actors die. `MaxTurns` bounds answered generations; one is enough for
  an answer to race finalization.
- *Batch.* Two sessions make every mix of outcomes in either order; a permit of 1 makes them
  wait; 0 or 2 trajectories tell an empty session from one with several keys. One prompt may be
through while the other is written, which is all a poll can tell apart; two failing puts may
hit a session of each, or a session and the other's tag.
- *Interaction.* Two calls in a response have a first and a remaining one; a budget of 1
  survives one timeout and is spent by the second, in the same step or another; three turns
  are a first, a middle and a last. `Probes` is the code's own 5 (`env.py:185`).

- *Shell.* Interference needs an earlier and a later call and no more, since the lock is all
  a call keeps. Two lines tell the first of an output from the last, or are one of each call.
- *Sandbox.* Two attempts are a failed one and the one that finds what it left; two runs
  under one permit make one wait. Runs of the other deployments share nothing, hence the
  constraint `SharesNothing`: there the second run stays idle. Two tries of a request are
  all that the key has to tell apart.
- *Search.* A request of two queries may span two chunks, two others fit one chunk, and two
  workers' chunks do or do not fit one encoder batch: each is cut at offsets other than zero,
  and a call is put back.

- *Chat.* Chats share no state. Four messages make three earlier turns, of 1 to 11 tokens, so
  that a history is left alone, cut to one turn or two, and cut again, and a broken turn is
  kept, then dropped.

Deadlock is not checked: sessions, batches, runs, calls and requests do end.

`NoCrossTalk` says less than one would like, because the code does. It excepts what follows a
reading that was cut short (`CutShort`): by cancellation, by a line of more than 64 KiB, or by a
marker that something other than an exit code follows, as `set -v` prints it. The code drains
nothing then, and the next call does read the rest. It excepts commands that print, or run, an
echo they have read from stdin (`Forged`). And without any of these it allows for one line of
another command: after `set -x` the marker of the call before, a second time, stands in
front of a call's own output (`Stale`), and the stream between calls is clean but for it. Never more
than one, since the traced echo of the next call ends the reading before the next marker too.
All three are hazards of the list.

`StartingWithinCap` leaves out sandboxes being taken down, which have
lost their permit before they are terminated, and those whose creation was never answered, which
nobody knows of. An answer of `search` may hold more documents
for the company its request was batched with (the search is done for the largest `topk`),
never fewer or others; `AnswersAreOwn` says exactly that.

`GroupsAreWhole` says of a sample that it is the batch only where the uids were marked, and
`RunnerFailuresAreIsolated` that it is taken; both say of every trainer what they say of tags.

`NoSessionLeftBehind` says nothing once the manager has been shut down: it has forgotten the
routes by then, and sends no abort on.
`NoSessionLeftBehind` and `OpenSessionsWithinCap` leave cancelled rollouts out, because the
code does not clean up after them: `except Exception` (`framework.py:547`) does not catch
`CancelledError`, so a cancelled rollout leaves its session open on the actor and its route
and share of the load in the manager. This is stated as a hazard, not as a finding: no
document promises otherwise.

## 5 Fairness

Fairness is only assumed where something must happen.

- `GatewaySession!FairSpec`: strong fairness of `Advance(r)` for each request. Strong,
  because a waiter's action is disabled whenever another holds the lock; justified because
  `asyncio.Lock` wakes its waiters first-in first-out, so one whose turn keeps coming up
  gets it. It also says that codec and backend answer or raise: both are awaited without a
  timeout of the session's own, so a backend that never answers is outside this claim.
  Clients need not submit, and nobody need finalize, abort, cancel or fail.
- `RolloutBatch!FairSpec`: weak fairness of each session's, each prompt's, the batch's and
  the trainer's steps. `RunSession` of a waiting session is enabled only while a permit is
  free, and weak fairness is enough because sessions are finitely many and each runs once:
  once the others are through the permit stays free. That runners end is justified by their
  own limits on turns and time.
- `AgentInteraction!FairSpec`: weak fairness of the whole step. The run is one coroutine;
  model and runtime answer, or their timeouts raise.
- `HostShell!FairSpec`: strong fairness of taking the lock (`asyncio.Lock` wakes its waiters
  in turn), weak fairness of the two timeouts. Nothing of bash or of a command: that a call
  ends must not depend on them.
- `SandboxLifecycle!FairSpec`: weak fairness of a run that has begun, as each of its awaits
  returns, fails or times out; and of the container engine, whose commands end. A provider
  over the network need not answer: `start` has timeouts. Waiting for modal's permit needs no
  more, because the wall budget's `wait_for` covers the wait.
- `SearchService!FairSpec`: weak fairness of each worker, of each actor's gathering (its
  timeout ends it), and of the encoding, which returns or raises.
- `GatewayRouting` is checked for safety only.

## 6 The proofs

Eight modules prove what their component promises for every value of its constants. Each
has the same outline: an inductive invariant, a lemma that the initial states satisfy it, one
that every step preserves it, and from the two a theorem for each property. Nothing is
assumed but what the component's module declares with its constants, which TLC evaluates on
every run. `TypeOK` of `GatewaySession`, `GatewayRouting` and `RolloutBatch` is proved here and
so not a property of a run. Every inductive invariant was model-checked on the component's instance
before it was proved; only those of `ChatHistory` and `HostShell` were not, whose witnesses TLC
cannot enumerate: there their properties were. All invariants and action properties of the passing runs are
proved, and both refinements.

### GatewaySessionProofs

`GatewaySessionProofs` proves, for every set of requests, calls, replies, tools and lengths,
and for every response budget or none:

| Theorem | Property |
|---|---|
| `Safety` | the inductive invariant, `TypeOK /\ SafetyInv` |
| `TypeCorrect` | `TypeOK` |
| `NoLostUpdate` | `InFlightOwnsChain` |
| `NoLeakedReservation` | `ReservationsAreHeld` |
| `TrainedAsSpoken` | `BufferEncodesConversation` |
| `Aligned` | `LogprobsAligned` |
| `WithinResponseLength` | `BudgetRespected` |
| `Frozen` | `ClosedSessionIsFrozen` |

Assumptions: those declared with the constants. Calls are records of messages, tools and a
flag; replies are messages; the budget is a positive number or none; lengths are natural
numbers; the labels `Context` and `None` are no requests. Nothing is assumed about
`CanonicalForm`.

The argument. None of the properties is inductive. That a commit drops nothing depends on
the chain not having changed since it was selected, which depends on who may reserve and
who may hold the lock. `SafetyInv` has four parts, each used by the next:

1. `CriticalInv`: who stands at an await inside a critical section holds the lock, on an
   active session, and what it selected is still a candidate. So sections exclude each
   other across their awaits, and no session closes inside one.
2. `ReservationInv`: each reservation has exactly one holder and each holder's chain is
   active and reserved. A request reserves only a candidate, which is unreserved; only its
   holder takes the reservation back.
3. `GrowthInv`: a chain in flight is as its request found it: the working buffer extends
   its ids and the request extends its history. Only a holder replaces a chain.
4. `BufferInv`: every buffer, committed or in work, encodes its conversation up to canonical
   form, is within the budget, never has more log-probabilities than tokens, and as many
   only if they are the right ones. That last clause is why mixed requests are harmless: a
   list that fell behind can never catch up.

Each part has its own step lemma (`TypeStep`, `CriticalStep`, `ReservationStep`,
`GrowthStep`, `BufferStep`), with one step per action. `Exclusion`, `Locality` and
`OthersSame` say once what an action of one request leaves alone of the others.

Its second part proves, with the same constants and assumptions, that a session implements
`ConversationLog` and returns its trajectories in order:

| Theorem | Property |
|---|---|
| `Logged` | the inductive invariant `LogInv` |
| `RewardTarget` | `RewardTargetIsLatest` |
| `Implementation` | `ImplementsLog` |

`LogInv` stands on `Safety`. `TurnInv`: what a request in flight has in its buffer is its
chain's ids with context tokens added, and after generation one turn of that request; so a
commit is a turn of the abstract log (`CommitIsTurn`). `OrderInv`: no two closed or open
chains share a place in the order, places are below the counter, and the latest one is taken.
`ReturnedInv`: what was returned is what is materialized. For the refinement, closing all
chains is one or more of the log's closings at once (`CloseIsClose`), finalize and abort are
its ends (`EndIsEnd`), and `StepIsLogged` maps every step to a step of the log or to a stutter. For
the reward, `InOrder` is the inverse of counting how many are earlier: `RankGrows` and
`InOrderIs` show that it lists each trajectory once, by increasing order, so the last one has
the greatest place, which by `OrderInv` is the latest commit's.

### GatewayRoutingProofs

For every finite set of rollouts, and every number of actors, permits, turns and faults:

| Theorem | Property |
|---|---|
| `Safety` | the inductive invariant `RoutingInv` |
| `TypeCorrect` | `TypeOK`, by which no load is ever negative |
| `LoadIsExact` | `LoadCountsRoutes` |
| `EvenPlacement` | `BurstIsSpread` |
| `OwnSession` | `RunnerHasItsSession` |
| `CleanedUp` | `NoSessionLeftBehind` |
| `WithinCap` | `OpenSessionsWithinCap` |
| `NothingUntrained` | `AnsweredTurnsAreReturned` |

The label `None` is assumed to differ from actors, replies and calls.

The argument. What a rollout may find depends on where it stands between two awaits:
`RoutingInv` has one conjunct per stage. While it creates, its route is the actor it called,
and only a call that was executed put the session on that actor's list; while it runs, the
session is on its own actor and routed there; while it closes, a reply "ok" means the session
is off the list, and an abort that failed means that the actor is dead; once it is over, a
session still routed is one of a dead actor. Each stage's conjunct is what the step into the
next needs. Two facts are about everyone: a manager that is down has no routes and no actor
that serves (`DownInv`), which makes a rollout that comes back to cleared counters harmless
to the load; and rollouts at their gateway hold a permit (`PermitsInv`), of which there are
`Cap`. `OwnStep` shows that the rollout that moves keeps its conjuncts, `SameKeeps` that
the others do, `ActorStep` and `ShutdownStep` that a process dying or the pool closing does.
`ManagerIs` says that a step reserves one route, frees one, clears all or touches none, from
which `LoadStep` gets the counts, as cardinalities of the routes' preimages. That the least
loaded actor exists (`LeastLoadedIs`) rests on the well-foundedness of the naturals.

### RolloutBatchProofs

For every set of prompts and runners, every number of sessions, every cap and every set of
lengths:

| Theorem | Property |
|---|---|
| `Safety` | the inductive invariant `BatchInv` |
| `TypeCorrect` | `TypeOK` |
| `WholeGroups` | `GroupsAreWhole` |
| `TagTellsOutputs` | `StatusTellsOutputs` |
| `StatsAddUp` | `StatsAccountForEverySession` |
| `Implementation` | `ImplementsGroups` |

The set of prompts is assumed finite, as a batch is, and `None` no status. The argument follows the data. Only a session that returned has an output (`OutputInv`), and
the loop over the outcomes starts when all are over (`ProgressInv`); so outputs stand still
while they are written. As long as no put was lost, the keys of a prompt are those of the
outcomes the loop is past (`WrittenInv`); its count of successes says whether there are any
(`StatusInv`). A tag is the last put: the replica that has it has all keys of its prompt
(`SeenInv`), although it polls keys and tags of a batch that is being written, and whether it
knew the uid before or not. A uid that was marked stays known (`MarkedInv`), pending or tagged,
so that a sample of marked uids needs every tag (`SampledInv`). `CollectIs` reduces the loop to three effects: it passes an
outcome, tags or gives up.

`StatsAddUp` says of a finished batch that its statistics count every session and every key.
`AccountInv` says it of each prompt: every outcome the loop is past is counted once, and the
outputs counted are the keys in the queue. The statistics add these counts over the prompts
that returned, with the community modules' sum over a set. That sum is a recursive function of the
set; its value for every set is shown without an induction scheme over operators: `Induction`
is an instance of the well-foundedness of the naturals, for *sets* of numbers, and
`SubsetInduction` for *sets* of subsets, from which `SumExists` gives the function and
`SumStep`, `SumOfTwo` and `SumCounts` what sums do.

`Implementation` maps each step (`StepIsStored`). A step of a session ends it in the store or
is none (`SessionIsEnd`). Of the loop's three effects only the tag publishes
(`CollectIsPublish`): all sessions are over then, the loop is past all of them, and by
`WrittenInv` the prompt's keys are those of all trajectories, by `StatusInv` the tag says if
there are any; before it the group is mapped to the empty set, and after it nobody writes. A
poll reads what is published (`PollIsRead`): a replica without a prompt's tag has none of its
group, by `SeenInv`, and one with it the whole.

### AgentInteractionProofs

For every number of turns, calls and probes, every timeout budget and every mode:

| Theorem | Property |
|---|---|
| `Safety` | the inductive invariant `InteractionInv` |
| `CompleteHistory` | `HistoryIsComplete` |
| `TrulyFinished` | `FinishedMeansFinished` |
| `GivenUpIsQuiet` | `NothingRunsAfterGivingUp` |
| `Bounded` | the inductive invariant `BoundInv` |
| `TypeCorrect` | `TypeOK` |
| `TrainedOnWhatWasSaid` | `CacheFollowsMessages` |

The argument. `HistoryInv`: between steps every call of the history is answered; while calls
are run or skipped, all but those of the last message are, and there is one result for each
call at the commit. `GoingInv`: while calls are run nothing was given up: the budget is not
spent, the shell not known to be dead, no call skipped, and no reason that ends the run
recorded. Whatever stops the calls of a step therefore fills up its results before the
commit. `EndStepIs`, `RecordIs` and `ResponseComplete` say what the helpers of the model do
to the sequences.

`BoundInv`: steps of messages and of the cache are at most the current one, call numbers and
results at most `MaxCalls`, and no more commands ran than earlier steps had calls plus the results
of this one, from which the product in `TypeOK` follows. `CacheInv` (in training) says that the
cache is the outline of the messages, apart from a response whose calls are being run:
`IsOutline` relates a sequence to its groups by the positions at which a group starts, and the
lemmas on it say that a response, or a step's tool messages, appended to both keep the relation.

### HostShellProofs

For every number of calls, of lines a command prints, and of cancelled calls:

| Theorem | Property |
|---|---|
| `ShellSafety` | the inductive invariant `ShellInv` |
| `TypeCorrect` | `TypeOK` |
| `NoCrossTalkHolds` | `NoCrossTalk` |

The argument. `CallInv` needs no stream: who reads holds the lock, and a call that has not
written its command has no part in bash. `StreamInv` says what is in the pipes as long as no
reading was cut short and no command forged a marker. With the lock free and the session not
given up, nothing but perhaps a stale marker (`Between`). With it held by a call, only what is
of that call after such a marker, in order (`Flow`): the stale line and the lines the command
printed, some of which have been `read` while the others are `left` in the pipe, then perhaps the
unterminated end of its output, then, once nothing of it is left to run, the lines bash printed
for its echo. It is the same statement for a call that reads up to its marker and for one that
drains after a timeout. `FirstLine` says what the first line of such a pipe can be: one of the
lines left, or, when none is, a line of the echo with the unterminated end before it. `NextLine`
moves a line from `left` to `read`; `MarkerLine` says that a marker read means that nothing is
left to run or to read, and that of `Echoed` (`EchoedIs`) no more than one marker remains, which is
stale from then on; so a call ends with everything it printed, and leaves to the next what it was
itself given, or has the session given up. `NoLineLeft` is the end of file. `WriteFlow`,
`ReadLineFlow` and `BashFlow` preserve the flow under the call's, the reader's and bash's steps.
A `garbled` line can only end the reading, which then is cut short.

### SandboxLifecycleProofs

For every number of runs, attempts, permits, retries and cancellations, and each deployment:

| Theorem | Property |
|---|---|
| `SandboxSafety` | the inductive invariant `SandboxInv` |
| `TypeCorrect` | `TypeOK` |
| `NothingLeft` | `NothingLeftBehind` |
| `OwnSandbox` | `WorksInItsOwnSandbox` |
| `BootingWithinCap` | `StartingWithinCap` |

The argument. `Remembers`: where a run stands says what its deployment knows of its sandbox
(by the means of its kind), and that what it knows is the current attempt's. `Answered`:
somebody answers for every sandbox that is there, for as long as the run is not over: it is
the one being created, or its deployment knows it, or it is excused; so the stop that every
way out leads to deletes what there is. `PermitInv`: the permits taken are those of the modal
runs at an await of starting, and at most the cap. `RequestInv` brings in `RemoteRequest`: a
server that ran its key remembers it until its sandbox is gone, so a retry does not run it
again (`ServerStep`: `ran` is 0 or 1), and an answered request was run; hence `Opened`, that
a working run's session was opened exactly once.
`Locality` and `CloudLocality` say what a run and its provider leave alone of the other runs.

### SearchServiceProofs

For every number of requests, workers and actors, every list of passages and every size of
chunks and batches:

| Theorem | Property |
|---|---|
| `SearchSafety` | the inductive invariant `SearchInv` |
| `TypeCorrect` | `TypeOK` |
| `OwnAnswers` | `AnswersAreOwn` |

Assumed: there are finitely many workers, `Urls` is a sequence, the sizes and the topks are
numbers (positive where the code divides by them or would stand still at 0), and `None` is no
reply. The argument has three parts.

Sequences. The library's theorems of induction cannot be cited by this prover, so `Induction`
restates it for sets of numbers (from the well-foundedness of `<`), and the folds and the
recursive function are reached through it. `Joins` is a function whose values are what the
first parts come to; `JoinsExist` constructs it, `FlattenIs` identifies `FlattenSeq` with its
last value, and `Joining` says where each part lies in the whole. `Cutting` is the
consequence an actor needs: the slice along the sizes is the part that went in.

Documents. `DistinctGrows` and `LookedAtGrows` say that whoever looks at more passages finds
the same documents first. Hence `DocumentsAre`: cut to its own topk, what was searched for
somebody else's larger topk is the beginning of all there is, and no less than a search of
one's own would have found. `GreatestIs` provides that the batch's topk is indeed no smaller.

The protocol. `SearchedInv` says where a worker stands: it has found the documents of the
first queries of its batch, and the others are still to do. `ReplyInv`: what an encoding
returned is the next chunk, in its order. `CallInv` ties the actors to the workers: every
call an actor holds is awaited, carries the next chunk of its worker, and is the only one of
that worker; and who awaits has one. All actions that move calls within an actor (`GatherIs`) keep their order,
and all that end calls (`EndIs`) answer a beginning of them, with their own queries or an
exception. An answer then cuts at `Start`, where the batch's queries, and so the documents
found for them, are the request's own (`CutOutIs`).

### ChatHistoryProofs

For every number of chats, turns and calls, every size of a message and both limits:

| Theorem | Property |
|---|---|
| `HistorySafe` | the inductive invariant `HistoryInv` |
| `AcceptedRequests` | `RequestsAreAccepted` |
| `RecentHistory` | `HistoryIsRecent` |

Assumed: messages have at least one token, and the limits are positive with the target no
greater than the maximum, which the configuration checks (`main.py:100`). The argument has
three parts.

Histories. `Only` and `Cost` are recursive over a history's length. `StagesExist` gives each
recursion its solution (through `Induction`, as in the search), and from the stages follows
what the invariant needs: of one history after another, `Only` leaves what it leaves of each
(`OnlyJoined`) and `Cost` is the sum (`CostJoined`). So a history made of the system's message,
what was kept and the last turn gives back its parts (`BegunIs`, `TurnIs`).

What is kept. `Recent` says of a turn's beginning how what is kept stands to what was said
before it: there is an older part that is kept no longer, none as long as all of it is within
the limit; and the kept part starts with a user's message, and is within the limit or has no
other user's message. `CompactIs` shows that compaction leads from one such history to
another: the least cut that fits leaves a shorter end of the same talk (`KeptIs`, `FromIs`), and if
nothing was over the limit nothing is cut. `Lasting` and `Handled` say it of a transcript and
of the history in memory, for which `ReceivedNext`, `HandledGrows` and `SavedIs` are the steps
into the next.

Calls and answers. `Paired` asks of each message, but those of broken turns, that it `Fits`:
its calls are answered behind it, and an answer stands as far behind its response as its
number says. That is stronger than what the API asks, and the part that compaction needs:
what is left from a user's message on holds no answer to a call before it, since all of the messages
between the two are answers, and a user's is none (`PairedSuffix`). `Asked` is the state
between a response and its answers. In the end the messages of broken turns are taken out:
those of a turn that fits are left side by side (`PickedTogether`), so the rest is accepted
(`OnlyAccepted`).

The proof changed the model's property: `NothingHoarded` said that a history over the limit is
one turn, and is false for a system message that is over the limit by itself. It allows
for that now, and the run has such messages.

### Only model-checked

- The liveness properties, `EveryRequestEnds`, `EveryBatchEnds`, `RunnerFailuresAreIsolated`,
  `RunEnds`, `EveryCallEnds` and `EveryRunEnds`: under fairness they are out of the prover's reach.
- The three properties that are violated (section 7).

## 7 Findings

- **One failing prompt task does drop the batch** (`batch_dropped`). `framework.py:334`:
  "Prompt tasks are isolated so one prompt failure does not drop the whole batch." If a
  prompt's task itself raises, for instance because a put fails, it is only counted
  (357-362): its uid gets no tag, stays pending at a trainer that has marked it, and the batch is
  never sampled. Failures of *sessions* are isolated, as `RunnerFailuresAreIsolated` shows.
- **A dead shell leaves unanswered calls** (`interaction_dangling`). `interaction.py:265-267`
  promises skipped results "on hard failure (dead session / budget out)". `step` catches
  `TerminalNotAliveError` only (238); a session that is gone raises
  `SessionNotInitializedError` or an error of the remote runtime, and a probe may time out
  itself (`env.py:186`). The run then ends with `unknown_error` after the assistant message
  was appended and before any answer was.
- **A garbage-collected deployment does not stop its sandbox** (`sandbox_collected`).
  `deployment/vefaas/deployment.py:228` warns "Ensuring vefaas deployment is stopped because
  object is deleted", schedules `stop()` as a task when the loop runs (234-236), and then sets
  `_stopped = True` (242). The task runs later, finds the flag and returns (176-177). The
  sandbox of an `env.close` that was cancelled while closing its client stays.
  `LocalDeployment.__del__` does the same.

## 8 What is not modelled

- Token values, chat templates, tool-call parsing, media, timestamps, HTTP validation and
  formatting: data the properties do not tell apart.
- Ray's and HTTP's own behaviour beyond "executed, executed without an answer wanted, or raised".
- Cancellation of a whole batch (`generate_sequences` itself cancelled), and the tensors of
  a trajectory; `_trajectory_to_tq_field_and_tag` raising is covered by a failing put that
  stored nothing.
- In `AgentInteraction`: start and installation, the agent loop's masking of its output, and
  exceptions of the tokenizer between commit of messages and of the cache.
- The actor's own `set_reward_info` route (the session's is modelled).
- Of the deployments: images, tunnels, secrets, networks, Apptainer, the attached and native
  variants, file transfer, and clocks: an await may time out at any moment, and the wall budget
  be spent between two attempts, so that a claim on durations (each attempt gets at least
  sixty seconds) cannot be stated.
- Of the remote runtime: uploads, transferred exceptions, probes of readiness (`Alive`).
- Of the search: `/crawl`, loading, and `is_query=False`, which nobody calls.
- Of the chat: the event listener, prompts, configuration and printing.
- The dashboard reads files other processes write, for display only; its cursors are the
  last stage of the plan.
- Adapters, parsers, rewards, tools, skills, logging: no state or concurrency of their own.
- `verl/` is vendored; only the replay buffer's polling and sampling appear, as the other
  end of a batch.

## 9 Running it

With TLC and the community modules on the path:

    tlc -workers 2 -config MCGatewaySession.cfg MCGatewaySession
    tlapm GatewaySessionProofs.tla

and so for the other modules named `...Proofs`.

`MCGatewaySessionLive.cfg` and the three violation configurations
(`MCRolloutBatchDropped.cfg`, `MCAgentInteractionDangling.cfg`,
`MCSandboxLifecycleCollected.cfg`) go with the MC module of the
same name. `routing_safety` is the largest run (about two million states, a few minutes), the others take
two minutes at most.
