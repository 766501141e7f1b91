-------------------------- MODULE AgentInteraction --------------------------
(***************************************************************************)
(* One run of the agent: AgentInteraction.run and step                     *)
(* (interaction/interaction.py) query the model, parse the tool calls out  *)
(* of its response, run them one after the other in the sandbox's shell    *)
(* (AgentEnv.run_action, interaction/env.py) and commit their results to   *)
(* the messages and to the rollout cache the model is trained on           *)
(* (interaction/model.py).                                                 *)
(*                                                                         *)
(* A message is its role, its step and the call it answers; what it says   *)
(* is left out, and so are tokens: the cache is the sequence of responses  *)
(* and of groups of tool messages encoded in it.  The model and the shell  *)
(* are external: the model may answer anything, or fail; the shell runs a  *)
(* command, refuses its syntax, takes too long or raises, and may be lost  *)
(* for good, after which it only raises.                                   *)
(***************************************************************************)
EXTENDS Integers, Sequences, FiniteSets, SequencesExt

CONSTANTS
    Modes,         \* kinds of runs: structured calls or text, chat or single shot
    MaxTurns,      \* max_turns
    TimeoutBudget, \* timeout_budget
    Probes,        \* probes of a shell that could not be interrupted (5)
    MaxCalls       \* bound on the tool calls of one response

ASSUME ModesAssumption == Modes \subseteq [structured : BOOLEAN, chat : BOOLEAN]
ASSUME TurnsAssumption == MaxTurns \in Nat \ {0}
ASSUME BudgetAssumption == TimeoutBudget \in Nat
ASSUME ProbesAssumption == Probes \in Nat \ {0}
ASSUME CallsAssumption == MaxCalls \in Nat \ {0}

VARIABLES
    mode,       \* [structured |-> the API returns tool calls, chat |-> chat_mode]
    pc,         \* "query", "acting", "interrupting", "probing", "commit" or "ended"
    step,       \* step_idx
    messages,   \* what was appended to the prompt's messages
    cache,      \* what the rollout cache encodes, after the prompt
    calls,      \* the tool calls of this step
    results,    \* statuses of those that were run or skipped so far
    finish,     \* saw_finish
    dead,       \* terminal_dead
    probes,     \* probes of the shell made for the current call
    budget,     \* timeout_budget left
    shell,      \* "alive" or "gone"
    ran,        \* commands sent to the shell
    trajectory  \* the exit reasons of the steps

stepVars == <<calls, results, finish, dead, probes, budget>>
vars == <<mode, pc, step, messages, cache, stepVars, shell, ran, trajectory>>

Assistant(s, n) == [role |-> "assistant", step |-> s, call |-> n]
Tool(s, i) == [role |-> "tool", step |-> s, call |-> i]

(* Messages answering the first n calls of a step.                         *)
Answers(s, n) == [i \in 1 .. n |-> Tool(s, i)]

Init ==
    /\ mode \in Modes
    /\ pc = "query" /\ step = 1
    /\ messages = <<>> /\ cache = <<>>
    /\ calls = 0 /\ results = <<>> /\ finish = FALSE /\ dead = FALSE
    /\ probes = 0 /\ budget = TimeoutBudget
    /\ shell = "alive" /\ ran = 0
    /\ trajectory = <<>>

-----------------------------------------------------------------------------
(* How a step ends *)

Done == {"finished", "turn_done", "token_limit", "terminal_dead", "timeout_budget_exhausted"}
NotDone == {"completed", "completed_with_tool_errors", "format_error"}

(* run: the last step allowed gets a successor of its own.                 *)
EndStep(reason) ==
    /\ trajectory' = trajectory \o (IF step >= MaxTurns THEN <<reason, "max_step_limit">>
                                                        ELSE <<reason>>)
    /\ IF reason \in Done \/ step >= MaxTurns
       THEN pc' = "ended" /\ UNCHANGED step
       ELSE pc' = "query" /\ step' = step + 1

(* Any other exception ends the run where it stands.                       *)
UnknownError ==
    /\ trajectory' = Append(trajectory, "unknown_error")
    /\ pc' = "ended"
    /\ UNCHANGED step

(* The training model encodes; the API's cache holds nothing.              *)
Encoded(role) ==
    IF mode.structured THEN cache ELSE Append(cache, [role |-> role, step |-> step])

-----------------------------------------------------------------------------
(* The model's response *)

QueryRaises ==
    /\ pc = "query"
    /\ UnknownError
    /\ UNCHANGED <<mode, messages, cache, stepVars, shell, ran>>

(* The context is full before the query, or with the response, which the   *)
(* cache then holds already.                                               *)
TokenLimit ==
    /\ pc = "query" /\ ~ mode.structured
    /\ cache' \in {cache, Encoded("assistant")}
    /\ EndStep("token_limit")
    /\ UNCHANGED <<mode, messages, stepVars, shell, ran>>

(* Calls come with the response, or are parsed out of its text.            *)
RespondWithCalls(n) ==
    /\ pc = "query"
    /\ \E structured \in {0, n} :
          /\ structured > 0 => mode.structured
          /\ messages' = Append(messages, Assistant(step, structured))
    /\ cache' = Encoded("assistant")
    /\ pc' = "acting"
    /\ calls' = n /\ results' = <<>> /\ finish' = FALSE /\ dead' = FALSE /\ probes' = 0
    /\ UNCHANGED <<mode, step, budget, shell, ran, trajectory>>

(* chat_mode: no call ends the turn.                                       *)
RespondWithoutCalls ==
    /\ pc = "query" /\ mode.chat
    /\ messages' = Append(messages, Assistant(step, 0))
    /\ cache' = Encoded("assistant")
    /\ EndStep("turn_done")
    /\ UNCHANGED <<mode, stepVars, shell, ran>>

\* Mutant: the error messages stay out of the rollout cache.
RejectUnencoded(n) ==
    /\ pc = "query"
    /\ n > 0 => mode.structured
    /\ messages' = Append(messages, Assistant(step, n))
                       \o (IF n > 0 THEN Answers(step, n) ELSE <<Tool(step, 0)>>)
    /\ cache' = Encoded("assistant")
    /\ EndStep("format_error")
    /\ UNCHANGED <<mode, stepVars, shell, ran>>

(* A call is malformed or unknown, or there is none although the run is no *)
(* chat: each structured call, or the response, is answered by the error.  *)
Reject(n) ==
    /\ pc = "query"
    /\ n > 0 => mode.structured
    /\ messages' = Append(messages, Assistant(step, n))
                       \o (IF n > 0 THEN Answers(step, n) ELSE <<Tool(step, 0)>>)
    /\ cache' = IF mode.structured
                THEN cache
                ELSE Append(Encoded("assistant"), [role |-> "tool", step |-> step])
    /\ EndStep("format_error")
    /\ UNCHANGED <<mode, stepVars, shell, ran>>

-----------------------------------------------------------------------------
(* The tool calls *)

\* Mutant: the rest of the calls is only skipped when the shell is lost.
GiveUpWhenDead(lost, left) == lost

\* Mutant: the rest of the calls is only skipped when the budget is out.
GiveUpWhenBroke(lost, left) == left < 0

(* On a lost shell or a spent budget the remaining calls are not run.      *)
GiveUp(lost, left) == lost \/ left < 0

(* A call's status; what is not run any more is "skipped".                 *)
Record(status, lost, left) ==
    LET tail == IF GiveUp(lost, left)
                THEN [i \in 1 .. calls - Len(results) - 1 |-> "skipped"]
                ELSE <<>>
    IN  /\ results' = Append(results, status) \o tail
        /\ dead' = lost
        /\ budget' = left
        /\ pc' = IF Len(results') = calls THEN "commit" ELSE "acting"
        /\ probes' = 0

Send == pc = "acting" /\ ran' = ran + 1

(* The command runs; "finish" and "submit" are noted.                      *)
CommandReturns ==
    /\ Send /\ shell = "alive"
    /\ finish' \in {finish, TRUE}
    /\ Record("ok", FALSE, budget)
    /\ UNCHANGED <<mode, step, messages, cache, calls, shell, trajectory>>

CommandRefused ==
    /\ Send /\ shell = "alive"
    /\ Record("syntax_error", FALSE, budget)
    /\ UNCHANGED <<mode, step, messages, cache, calls, finish, shell, trajectory>>

(* It takes too long, and may leave the shell unusable.                    *)
CommandTimesOut ==
    /\ Send /\ shell = "alive"
    /\ shell' \in {"alive", "gone"}
    /\ pc' = "interrupting"
    /\ UNCHANGED <<mode, step, messages, cache, stepVars, trajectory>>

(* No such session, an unreachable runtime: not among the exceptions of a  *)
(* tool call.                                                              *)
CommandRaises ==
    /\ Send
    /\ shell' = "gone"
    /\ UnknownError
    /\ UNCHANGED <<mode, messages, cache, stepVars>>

InterruptReturns ==
    /\ pc = "interrupting"
    /\ Record("timeout", FALSE, budget - 1)
    /\ UNCHANGED <<mode, step, messages, cache, calls, finish, shell, ran, trajectory>>

InterruptRaises ==
    /\ pc = "interrupting"
    /\ pc' = "probing"
    /\ UNCHANGED <<mode, step, messages, cache, stepVars, shell, ran, trajectory>>

ProbeAnswered ==
    /\ pc = "probing" /\ shell = "alive"
    /\ Record("timeout", FALSE, budget - 1)
    /\ UNCHANGED <<mode, step, messages, cache, calls, finish, shell, ran, trajectory>>

\* Mutant: probing goes on until the shell answers.
ProbeUntilAnswered ==
    /\ pc = "probing" /\ shell = "alive"
    /\ probes' = (probes + 1) % Probes
    /\ UNCHANGED <<mode, pc, step, messages, cache, calls, results, finish, dead, budget, shell,
                   ran, trajectory>>

(* The echo comes back without its text; after the last one the shell is   *)
(* declared lost.                                                          *)
ProbeGarbled ==
    /\ pc = "probing" /\ shell = "alive"
    /\ IF probes + 1 < Probes
       THEN /\ probes' = probes + 1
            /\ UNCHANGED <<pc, results, dead, budget>>
       ELSE Record("skipped", TRUE, budget)
    /\ UNCHANGED <<mode, step, messages, cache, calls, finish, shell, ran, trajectory>>

(* The probe itself times out or finds no session.  Nothing catches that.  *)
ProbeRaises ==
    /\ pc = "probing"
    /\ UnknownError
    /\ UNCHANGED <<mode, messages, cache, stepVars, shell, ran>>

-----------------------------------------------------------------------------
(* The end of a step *)

\* Mutant: finishing takes precedence.
VerdictFinishFirst ==
    IF finish THEN "finished"
    ELSE IF dead THEN "terminal_dead"
    ELSE IF budget < 0 THEN "timeout_budget_exhausted"
    ELSE IF Contains(results, "timeout") \/ Contains(results, "syntax_error")
    THEN "completed_with_tool_errors"
    ELSE "completed"

(* The step's exit reason, by precedence.                                  *)
Verdict ==
    IF dead THEN "terminal_dead"
    ELSE IF budget < 0 THEN "timeout_budget_exhausted"
    ELSE IF finish THEN "finished"
    ELSE IF Contains(results, "timeout") \/ Contains(results, "syntax_error")
    THEN "completed_with_tool_errors"
    ELSE "completed"

\* Mutant: skipped calls are not answered.
AnsweredRan == Len(SelectSeq(results, LAMBDA status : status # "skipped"))

(* Every result becomes a message.                                         *)
Answered == Len(results)

(* The messages of all calls are committed at once.                        *)
Commit ==
    /\ pc = "commit"
    /\ messages' = messages \o Answers(step, Answered)
    /\ cache' = Encoded("tool")
    /\ EndStep(Verdict)
    /\ UNCHANGED <<mode, stepVars, shell, ran>>

-----------------------------------------------------------------------------
Model ==
    \/ QueryRaises \/ TokenLimit \/ RespondWithoutCalls
    \/ \E n \in 1 .. MaxCalls : RespondWithCalls(n)
    \/ \E n \in 0 .. MaxCalls : Reject(n)

RunAction ==
    \/ CommandReturns \/ CommandRefused \/ CommandTimesOut \/ CommandRaises
    \/ InterruptReturns \/ InterruptRaises
    \/ ProbeAnswered \/ ProbeGarbled \/ ProbeRaises

Next == Model \/ RunAction \/ Commit

Spec == Init /\ [][Next]_vars

(* The model and the runtime answer, or their timeouts raise.              *)
FairSpec == Spec /\ WF_vars(Next)

-----------------------------------------------------------------------------
(* Properties *)

Statuses == {"ok", "timeout", "syntax_error", "skipped"}

\* Type invariant; the timeout budget is never overdrawn by more than one.
TypeOK ==
    /\ mode \in Modes
    /\ pc \in {"query", "acting", "interrupting", "probing", "commit", "ended"}
    /\ step \in 1 .. MaxTurns
    /\ \A m \in 1 .. Len(messages) :
          messages[m] \in [role : {"assistant", "tool"}, step : 1 .. MaxTurns, call : 0 .. MaxCalls]
    /\ \A c \in 1 .. Len(cache) :
          cache[c] \in [role : {"assistant", "tool"}, step : 1 .. MaxTurns]
    /\ calls \in 0 .. MaxCalls
    /\ Len(results) <= calls /\ \A i \in 1 .. Len(results) : results[i] \in Statuses
    /\ finish \in BOOLEAN /\ dead \in BOOLEAN
    /\ probes \in 0 .. Probes - 1
    /\ budget \in -1 .. TimeoutBudget
    /\ shell \in {"alive", "gone"}
    /\ ran \in 0 .. MaxTurns * MaxCalls
    /\ \A i \in 1 .. Len(trajectory) :
          trajectory[i] \in Done \cup NotDone \cup {"max_step_limit", "unknown_error"}

Raised == trajectory # <<>> /\ Last(trajectory) = "unknown_error"

\* Every call that was sent with an assistant message is answered right after it, once
\* and in order: the assistant<->tool N:N invariant of interaction.py:266.
CallsAnswered ==
    \A m \in 1 .. Len(messages) :
        messages[m].role = "assistant" =>
            \A i \in 1 .. messages[m].call :
                m + i <= Len(messages) /\ messages[m + i] = Tool(messages[m].step, i)

\* Between two steps and at the end of a run the history is one the API accepts,
\* unless an unexpected exception ended the run.
HistoryIsComplete == pc \in {"query", "ended"} /\ ~ Raised => CallsAnswered

\* The same at the end of every run, as the code says: "On hard failure (dead session
\* / budget out), synthesize `skipped` results for remaining tool calls to keep the
\* assistant<->tool N:N invariant" (interaction.py:265-267).
HistoryIsCompleteOnFailure == pc = "ended" => CallsAnswered

(* The history as the cache encodes it: one entry per response and one per *)
(* group of tool messages.                                                 *)
Group(history, m) == [role |-> history[m].role, step |-> history[m].step]

Starts(history, m) ==
    {k \in 1 .. m : k = 1 \/ Group(history, k) # Group(history, k - 1)}

Entry(history, m) == Cardinality(Starts(history, m))

IsOutline(encoded, history) ==
    /\ Len(encoded) = Entry(history, Len(history))
    /\ \A m \in 1 .. Len(history) : encoded[Entry(history, m)] = Group(history, m)

\* The model is trained on what was said: between two steps and at the end the cache
\* encodes exactly the messages, but for a response that did not fit any more, and
\* for a run ended by an unexpected exception.
CacheFollowsMessages ==
    pc \in {"query", "ended"} /\ ~ Raised /\ ~ mode.structured =>
        \/ IsOutline(cache, messages)
        \/ /\ Contains(trajectory, "token_limit") /\ cache # <<>>
           /\ Last(cache) = [role |-> "assistant", step |-> step]
           /\ IsOutline(Front(cache), messages)

\* Once the shell is declared lost, or the timeout budget is spent, nothing more is
\* sent to the shell, in this step or a later one.
NothingRunsAfterGivingUp ==
    [][ran' # ran => /\ budget >= 0
                     /\ ~ Contains(results, "skipped")
                     /\ ~ Contains(trajectory, "terminal_dead")]_vars

\* A run is "finished" only by a step that ran a finishing command to its end and
\* neither lost the shell nor spent the budget, and then nothing follows.
FinishedMeansFinished ==
    \A i \in 1 .. Len(trajectory) :
        trajectory[i] = "finished" =>
            /\ pc = "ended" /\ finish /\ ~ dead /\ budget >= 0
            /\ \A j \in i + 1 .. Len(trajectory) : trajectory[j] = "max_step_limit"

\* Every run ends, within its turns.
RunEnds == <>(pc = "ended")
=============================================================================
