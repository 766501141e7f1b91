----------------------- MODULE AgentInteractionProofs -----------------------
(***************************************************************************)
(* Theorems about AgentInteraction for every number of turns, calls and    *)
(* probes and every timeout budget, with proofs checked by TLAPS.          *)
(***************************************************************************)
EXTENDS AgentInteraction, FiniteSetTheorems, SequenceTheorems, TLAPS

-----------------------------------------------------------------------------
(* The inductive invariant *)

Message == [role : {"assistant", "tool"}, step : Int, call : Int]

Reasons == Done \cup NotDone \cup {"max_step_limit", "unknown_error"}

Types ==
    /\ pc \in {"query", "acting", "interrupting", "probing", "commit", "ended"}
    /\ step \in Int
    /\ messages \in Seq(Message)
    /\ calls \in Nat /\ results \in Seq(Statuses)
    /\ finish \in BOOLEAN /\ dead \in BOOLEAN
    /\ probes \in Int /\ budget \in Int
    /\ trajectory \in Seq(Reasons)

InCalls == pc \in {"acting", "interrupting", "probing"}

(* The m-th message, if the model's, is answered within the first n.       *)
AnsweredWithin(m, n) ==
    messages[m].role = "assistant" =>
        \A i \in 1 .. messages[m].call :
            m + i <= n /\ messages[m + i] = Tool(messages[m].step, i)

(* The last message is the response whose calls are being run; the others  *)
(* are answered.                                                           *)
Pending ==
    /\ Len(messages) > 0
    /\ LET last == messages[Len(messages)]
       IN  last.role = "assistant" /\ last.step = step /\ last.call \in {0, calls}
    /\ \A m \in 1 .. Len(messages) - 1 : AnsweredWithin(m, Len(messages) - 1)

HistoryInv ==
    /\ pc = "query" => CallsAnswered
    /\ pc = "ended" => CallsAnswered \/ Raised
    /\ InCalls \/ pc = "commit" => Pending
    /\ InCalls => Len(results) < calls
    /\ pc = "commit" => Len(results) = calls

Without(s, x) == \A i \in 1 .. Len(s) : s[i] # x

(* As long as calls are run the run has given up nothing.                  *)
GoingInv ==
    /\ InCalls \/ pc = "query" => budget >= 0
    /\ InCalls => ~ dead /\ Without(results, "skipped")
    /\ pc # "ended" => \A reason \in Done : Without(trajectory, reason)

InteractionInv == Types /\ HistoryInv /\ GoingInv /\ FinishedMeansFinished

-----------------------------------------------------------------------------
(* What the steps do *)

\* A step's exit reason is added to the trajectory, and the limit after it.
LEMMA EndStepIs ==
    ASSUME Types, NEW reason \in Reasons, EndStep(reason)
    PROVE  /\ trajectory' \in Seq(Reasons)
           /\ Len(trajectory') \in {Len(trajectory) + 1, Len(trajectory) + 2}
           /\ \A i \in 1 .. Len(trajectory) : trajectory'[i] = trajectory[i]
           /\ trajectory'[Len(trajectory) + 1] = reason
           /\ Len(trajectory') = Len(trajectory) + 2 =>
                  trajectory'[Len(trajectory) + 2] = "max_step_limit" /\ pc' = "ended"
           /\ pc' \in {"query", "ended"} /\ step' \in Int
           /\ pc' = "query" => reason \notin Done
<1>1. CASE step >= MaxTurns
  BY <1>1 DEF EndStep, Types, Reasons
<1>2. CASE ~ (step >= MaxTurns)
  BY <1>2 DEF EndStep, Types, Reasons
<1> QED BY <1>1, <1>2

\* An unexpected exception is the last entry of the trajectory.
LEMMA UnknownErrorIs ==
    ASSUME Types, UnknownError
    PROVE  /\ trajectory' \in Seq(Reasons) /\ Raised' /\ pc' = "ended" /\ step' = step
           /\ Len(trajectory') = Len(trajectory) + 1
           /\ \A i \in 1 .. Len(trajectory) : trajectory'[i] = trajectory[i]
           /\ trajectory'[Len(trajectory) + 1] = "unknown_error"
BY DEF UnknownError, Types, Reasons, Raised, Last

\* Recording a call adds its status, and skips the rest when the run gives up.
LEMMA RecordIs ==
    ASSUME Types, Len(results) < calls, NEW status \in Statuses, NEW lost \in BOOLEAN,
           NEW left \in Int, Record(status, lost, left)
    PROVE  /\ results' \in Seq(Statuses) /\ dead' = lost /\ budget' = left /\ probes' = 0
           /\ pc' \in {"acting", "commit"}
           /\ pc' = "commit" => Len(results') = calls
           /\ pc' = "acting" => /\ Len(results') < calls /\ ~ lost /\ left >= 0
                                /\ results' = Append(results, status)
<1> DEFINE n == calls - Len(results) - 1
<1>1. n \in Nat /\ calls = Len(results) + 1 + n BY DEF Types
<1>2. CASE GiveUp(lost, left)
  <2> DEFINE tail == [i \in 1 .. n |-> "skipped"]
  <2>1. tail \in Seq(Statuses) /\ Len(tail) = n BY <1>1 DEF Statuses
  <2>2. Append(results, status) \in Seq(Statuses)
        /\ Len(Append(results, status)) = Len(results) + 1
    BY DEF Types
  <2>3. results' = Append(results, status) \o tail BY <1>2 DEF Record
  <2>4. results' \in Seq(Statuses) /\ Len(results') = calls BY <1>1, <2>1, <2>2, <2>3
  <2> QED BY <1>2, <2>4 DEF Record
<1>3. CASE ~ GiveUp(lost, left)
  <2>1. results' = Append(results, status) BY <1>3 DEF Record, Types
  <2>2. results' \in Seq(Statuses) /\ Len(results') = Len(results) + 1 BY <2>1 DEF Types
  <2>3. ~ lost /\ left >= 0 BY <1>3 DEF GiveUp
  <2> QED BY <2>1, <2>2, <2>3 DEF Record, Types
<1> QED BY <1>2, <1>3

\* Answering all calls of the last message completes the history.
LEMMA AnswersComplete ==
    ASSUME Types, Pending, NEW n \in Nat, n = calls,
           messages' = messages \o Answers(step, n)
    PROVE  messages' \in Seq(Message) /\ CallsAnswered'
<1>1. Answers(step, n) \in Seq(Message) /\ Len(Answers(step, n)) = n
  BY DEF Answers, Tool, Message, Types
<1>2. /\ messages' \in Seq(Message) /\ Len(messages') = Len(messages) + n
      /\ \A m \in 1 .. Len(messages) : messages'[m] = messages[m]
      /\ \A i \in 1 .. n : messages'[Len(messages) + i] = Tool(step, i)
  BY <1>1 DEF Types, Answers
<1>3. ASSUME NEW m \in 1 .. Len(messages'), messages'[m].role = "assistant",
             NEW i \in 1 .. messages'[m].call
      PROVE  m + i <= Len(messages') /\ messages'[m + i] = Tool(messages'[m].step, i)
  <2>1. CASE m < Len(messages)
    <3>1. messages'[m] = messages[m] /\ m \in 1 .. Len(messages) - 1 BY <1>2, <2>1
    <3>2. m + i <= Len(messages) - 1 /\ messages[m + i] = Tool(messages[m].step, i)
      BY <1>3, <3>1 DEF Pending, AnsweredWithin
    <3>3. messages[m].call \in Int
      <4>1. messages[m] \in Message BY <3>1 DEF Types
      <4> QED BY <4>1 DEF Message
    <3>4. m + i \in 1 .. Len(messages) BY <3>1, <3>2, <3>3
    <3> QED BY <1>2, <3>1, <3>2, <3>4
  <2>2. CASE m = Len(messages)
    <3>1. messages'[m] = messages[m] /\ messages[m].step = step /\ messages[m].call \in {0, n}
      BY <1>2, <2>2 DEF Pending
    <3>2. i \in 1 .. n BY <3>1
    <3> QED BY <1>2, <2>2, <3>1, <3>2
  <2>3. CASE m > Len(messages)
    <3>1. m - Len(messages) \in 1 .. n BY <1>2, <2>3 DEF Types
    <3>2. messages'[Len(messages) + (m - Len(messages))] = Tool(step, m - Len(messages))
      BY <1>2, <3>1
    <3>3. messages'[m].role = "tool" BY <3>2 DEF Tool, Types
    <3> QED BY <1>3, <3>3
  <2> QED BY <2>1, <2>2, <2>3 DEF Types
<1> QED BY <1>2, <1>3 DEF CallsAnswered

\* A complete history stays complete under what a response appends: a message without
\* calls of its own, or one whose calls are answered right away.
LEMMA ResponseComplete ==
    ASSUME Types, CallsAnswered, NEW c \in Nat, NEW tools \in Seq(Message),
           \A i \in 1 .. Len(tools) : tools[i].role = "tool",
           c > 0 => tools = Answers(step, c),
           messages' = Append(messages, Assistant(step, c)) \o tools
    PROVE  messages' \in Seq(Message) /\ CallsAnswered'
<1>1. Append(messages, Assistant(step, c)) \in Seq(Message) BY DEF Assistant, Types, Message
<1>2. /\ messages' \in Seq(Message) /\ Len(messages') = Len(messages) + 1 + Len(tools)
      /\ \A m \in 1 .. Len(messages) : messages'[m] = messages[m]
      /\ messages'[Len(messages) + 1] = Assistant(step, c)
      /\ \A i \in 1 .. Len(tools) : messages'[Len(messages) + 1 + i] = tools[i]
  BY <1>1 DEF Types
<1>3. ASSUME NEW m \in 1 .. Len(messages'), messages'[m].role = "assistant",
             NEW i \in 1 .. messages'[m].call
      PROVE  m + i <= Len(messages') /\ messages'[m + i] = Tool(messages'[m].step, i)
  <2>1. CASE m <= Len(messages)
    <3>1. messages'[m] = messages[m] /\ m \in 1 .. Len(messages) BY <1>2, <2>1
    <3>2. m + i <= Len(messages) /\ messages[m + i] = Tool(messages[m].step, i)
      BY <1>3, <3>1 DEF CallsAnswered
    <3>3. messages[m].call \in Int
      <4>1. messages[m] \in Message BY <3>1 DEF Types
      <4> QED BY <4>1 DEF Message
    <3>4. m + i \in 1 .. Len(messages) BY <3>1, <3>2, <3>3
    <3> QED BY <1>2, <3>1, <3>2, <3>4 DEF Types
  <2>2. CASE m = Len(messages) + 1
    <3>1. messages'[m].call = c /\ messages'[m].step = step
      BY <1>2, <2>2 DEF Assistant
    <3>2. i \in 1 .. c /\ c > 0 BY <3>1
    <3>3. tools = Answers(step, c) BY <3>2
    <3>4. Len(tools) = c /\ tools[i] = Tool(step, i) BY <3>2, <3>3 DEF Answers
    <3>5. m + i = Len(messages) + 1 + i /\ m + i <= Len(messages')
      BY <1>2, <2>2, <3>2, <3>4 DEF Types
    <3>6. messages'[m + i] = tools[i] BY <1>2, <3>2, <3>4, <3>5
    <3> QED BY <3>1, <3>4, <3>5, <3>6
  <2>3. CASE m > Len(messages) + 1
    <3>1. m - (Len(messages) + 1) \in 1 .. Len(tools) BY <1>2, <2>3 DEF Types
    <3>2. messages'[Len(messages) + 1 + (m - (Len(messages) + 1))].role = "tool"
      BY <1>2, <3>1
    <3>3. messages'[m].role = "tool" BY <3>2 DEF Types
    <3> QED BY <1>3, <3>3
  <2>4. m <= Len(messages) \/ m = Len(messages) + 1 \/ m > Len(messages) + 1
    BY <1>2 DEF Types
  <2> QED BY <2>1, <2>2, <2>3, <2>4
<1> QED BY <1>2, <1>3 DEF CallsAnswered

-----------------------------------------------------------------------------
(* The invariant is preserved *)

\* A step that is not the last one keeps the verdicts of the earlier ones.
LEMMA EndStepKeeps ==
    ASSUME InteractionInv, pc # "ended", NEW reason \in Reasons, EndStep(reason),
           reason \in Done => pc' = "ended",
           reason = "finished" => finish' /\ ~ dead' /\ budget' >= 0
    PROVE  /\ FinishedMeansFinished'
           /\ pc' # "ended" => \A r \in Done : Without(trajectory', r)
<1> DEFINE L == Len(trajectory)
<1>1. L \in Nat /\ trajectory \in Seq(Reasons) BY DEF InteractionInv, Types
<1>2. /\ Len(trajectory') \in {L + 1, L + 2}
      /\ \A i \in 1 .. L : trajectory'[i] = trajectory[i]
      /\ trajectory'[L + 1] = reason
      /\ Len(trajectory') = L + 2 => trajectory'[L + 2] = "max_step_limit" /\ pc' = "ended"
  BY EndStepIs DEF InteractionInv
<1>3. \A r \in Done : Without(trajectory, r) BY DEF InteractionInv, GoingInv
<1>4. ASSUME NEW i \in 1 .. Len(trajectory'), trajectory'[i] = "finished"
      PROVE  i = L + 1 /\ reason = "finished"
  <2>1. i \in 1 .. L \/ i = L + 1 \/ (i = L + 2 /\ Len(trajectory') = L + 2) BY <1>1, <1>2
  <2>2. i \notin 1 .. L BY <1>2, <1>3, <1>4 DEF Done, Without
  <2> QED BY <1>2, <1>4, <2>1, <2>2
<1>5. FinishedMeansFinished'
  <2> SUFFICES ASSUME NEW i \in 1 .. Len(trajectory'), trajectory'[i] = "finished"
               PROVE  /\ pc' = "ended" /\ finish' /\ ~ dead' /\ budget' >= 0
                      /\ \A j \in i + 1 .. Len(trajectory') : trajectory'[j] = "max_step_limit"
    BY DEF FinishedMeansFinished
  <2>1. i = L + 1 /\ reason = "finished" BY <1>4
  <2>2. ASSUME NEW j \in i + 1 .. Len(trajectory') PROVE trajectory'[j] = "max_step_limit"
    <3>1. j = L + 2 /\ Len(trajectory') = L + 2 BY <1>1, <1>2, <2>1
    <3> QED BY <1>2, <3>1
  <2> QED BY <2>1, <2>2 DEF Done
<1>6. ASSUME pc' # "ended", NEW r \in Done PROVE Without(trajectory', r)
  <2>1. Len(trajectory') = L + 1 /\ reason \notin Done BY <1>2, <1>6
  <2>2. \A i \in 1 .. L + 1 : trajectory'[i] # r
    BY <1>1, <1>2, <1>3, <1>6, <2>1 DEF Without
  <2> QED BY <2>1, <2>2 DEF Without
<1> QED BY <1>5, <1>6

\* Nor does an unexpected exception make a run finished.
LEMMA UnknownErrorKeeps ==
    ASSUME InteractionInv, pc # "ended", UnknownError
    PROVE  FinishedMeansFinished'
<1>1. ASSUME NEW i \in 1 .. Len(trajectory') PROVE trajectory'[i] # "finished"
  <2>1. \A r \in Done : Without(trajectory, r) BY DEF InteractionInv, GoingInv
  <2>2. i \in 1 .. Len(trajectory) \/ i = Len(trajectory) + 1
    BY UnknownErrorIs DEF InteractionInv, Types
  <2> QED BY <2>1, <2>2, UnknownErrorIs DEF InteractionInv, Without, Done
<1> QED BY <1>1 DEF FinishedMeansFinished

\* As long as a run goes on it is not finished.
LEMMA GoingIsUnfinished ==
    ASSUME InteractionInv, pc # "ended", trajectory' = trajectory
    PROVE  FinishedMeansFinished'
<1>1. Without(trajectory, "finished") BY DEF InteractionInv, GoingInv, Done
<1> QED BY <1>1 DEF FinishedMeansFinished, Without

\* Steps that raise.
LEMMA RaisingStep ==
    ASSUME InteractionInv, pc # "ended", UnknownError, UNCHANGED <<messages, stepVars>>
    PROVE  InteractionInv'
<1>1. Types' BY UnknownErrorIs DEF InteractionInv, Types, stepVars
<1>2. HistoryInv' BY UnknownErrorIs DEF InteractionInv, HistoryInv, InCalls
<1>3. GoingInv' BY UnknownErrorIs DEF InteractionInv, GoingInv, InCalls
<1> QED BY <1>1, <1>2, <1>3, UnknownErrorKeeps DEF InteractionInv

\* Steps that end a step of the agent with an exit reason.
LEMMA EndingStep ==
    ASSUME InteractionInv, pc # "ended", NEW reason \in Reasons, EndStep(reason),
           messages' \in Seq(Message), CallsAnswered', UNCHANGED stepVars,
           reason \notin Done => budget >= 0,
           reason = "finished" => finish /\ ~ dead /\ budget >= 0
    PROVE  InteractionInv'
<1>1. UNCHANGED <<calls, results, finish, dead, probes, budget>> BY DEF stepVars
<1>2. /\ pc' \in {"query", "ended"} /\ step' \in Int /\ trajectory' \in Seq(Reasons)
      /\ pc' = "query" => reason \notin Done
  BY EndStepIs DEF InteractionInv
<1>3. Types' BY <1>1, <1>2 DEF InteractionInv, Types
<1>4. HistoryInv' BY <1>2 DEF HistoryInv, InCalls
<1>5. FinishedMeansFinished' /\ (pc' # "ended" => \A r \in Done : Without(trajectory', r))
  BY <1>1, <1>2, EndStepKeeps
<1>6. GoingInv' BY <1>1, <1>2, <1>5 DEF GoingInv, InCalls
<1> QED BY <1>3, <1>4, <1>5, <1>6 DEF InteractionInv

\* Steps that record the result of a call.
LEMMA RecordingStep ==
    ASSUME InteractionInv, InCalls, NEW status \in Statuses, NEW lost \in BOOLEAN,
           NEW left \in Int, Record(status, lost, left), status = "skipped" => lost,
           finish' \in BOOLEAN, UNCHANGED <<messages, step, calls, trajectory>>
    PROVE  InteractionInv'
<1>1. Types /\ Pending /\ Len(results) < calls BY DEF InteractionInv, HistoryInv
<1>2. /\ results' \in Seq(Statuses) /\ dead' = lost /\ budget' = left /\ probes' = 0
      /\ pc' \in {"acting", "commit"}
      /\ pc' = "commit" => Len(results') = calls
      /\ pc' = "acting" => /\ Len(results') < calls /\ ~ lost /\ left >= 0
                           /\ results' = Append(results, status)
  BY <1>1, RecordIs
<1>3. pc # "ended" BY DEF InCalls
<1>4. Types' BY <1>1, <1>2 DEF Types
<1>5. Pending' BY <1>1 DEF Pending, AnsweredWithin
<1>6. HistoryInv' BY <1>2, <1>5 DEF HistoryInv, InCalls
<1>7. pc' = "acting" => Without(results', "skipped")
  <2>1. Without(results, "skipped") BY DEF InteractionInv, GoingInv
  <2>2. results \in Seq(Statuses) BY <1>1 DEF Types
  <2> QED BY <1>2, <2>1, <2>2 DEF Without
<1>8. \A r \in Done : Without(trajectory', r) BY <1>3 DEF InteractionInv, GoingInv
<1>9. GoingInv' BY <1>2, <1>7, <1>8 DEF GoingInv, InCalls
<1> QED BY <1>3, <1>4, <1>6, <1>9, GoingIsUnfinished DEF InteractionInv

\* Steps between two results.
LEMMA WaitingStep ==
    ASSUME InteractionInv, InCalls, InCalls', probes' \in Int,
           UNCHANGED <<messages, step, calls, results, finish, dead, budget, trajectory>>
    PROVE  InteractionInv'
<1>1. pc # "ended" /\ pc' # "ended" /\ pc' # "query" /\ pc' # "commit" BY DEF InCalls
<1>2. Types' BY DEF InteractionInv, Types, InCalls
<1>3. HistoryInv' BY <1>1 DEF InteractionInv, HistoryInv, Pending, AnsweredWithin
<1>4. GoingInv' BY <1>1 DEF InteractionInv, GoingInv
<1> QED BY <1>1, <1>2, <1>3, <1>4, GoingIsUnfinished DEF InteractionInv

LEMMA ModelStep == ASSUME InteractionInv, Model PROVE InteractionInv'
<1>1. pc = "query" /\ pc # "ended"
  BY DEF Model, QueryRaises, TokenLimit, RespondWithoutCalls, RespondWithCalls, Reject
<1>2. Types /\ CallsAnswered /\ budget >= 0
  BY <1>1 DEF InteractionInv, HistoryInv, GoingInv
<1>3. CASE QueryRaises BY <1>1, <1>3, RaisingStep DEF QueryRaises
<1>4. CASE TokenLimit
  <2>1. messages' \in Seq(Message) /\ CallsAnswered'
    BY <1>2, <1>4 DEF TokenLimit, CallsAnswered, Types
  <2> QED BY <1>1, <1>4, <2>1, EndingStep DEF TokenLimit, Reasons, Done
<1>5. CASE RespondWithoutCalls
  <2>1. messages' = Append(messages, Assistant(step, 0)) \o <<>>
    <3>1. Append(messages, Assistant(step, 0)) \in Seq(Message)
      BY <1>2 DEF Types, Assistant, Message
    <3> QED BY <1>5, <3>1 DEF RespondWithoutCalls
  <2>2. messages' \in Seq(Message) /\ CallsAnswered'
    <3>1. << >> \in Seq(Message) /\ Len(<< >>) = 0 OBVIOUS
    <3>2. \A i \in 1 .. Len(<< >>) : << >>[i].role = "tool" BY <3>1
    <3>3. 0 \in Nat /\ ~ 0 > 0 OBVIOUS
    <3> HIDE DEF Message
    <3> QED BY <1>2, <2>1, <3>1, <3>2, <3>3, ResponseComplete
  <2> QED BY <1>1, <1>5, <2>2, EndingStep DEF RespondWithoutCalls, Reasons, Done
<1>6. ASSUME NEW n \in 0 .. MaxCalls, Reject(n) PROVE InteractionInv'
  <2> DEFINE tools == IF n > 0 THEN Answers(step, n) ELSE <<Tool(step, 0)>>
  <2>1. n \in Nat BY CallsAssumption
  <2>2. /\ tools \in Seq(Message)
        /\ \A i \in 1 .. Len(tools) : tools[i].role = "tool"
        /\ n > 0 => tools = Answers(step, n)
    <3>1. CASE n > 0 BY <1>2, <2>1, <3>1 DEF Answers, Tool, Message, Types
    <3>2. CASE n = 0 BY <1>2, <3>2 DEF Tool, Message, Types
    <3> QED BY <2>1, <3>1, <3>2
  <2>3. messages' = Append(messages, Assistant(step, n)) \o tools BY <1>6 DEF Reject
  <2> HIDE DEF tools
  <2>4. messages' \in Seq(Message) /\ CallsAnswered'
    BY <1>2, <2>1, <2>2, <2>3, ResponseComplete
  <2> QED BY <1>1, <1>2, <1>6, <2>4, EndingStep DEF Reject, Reasons, NotDone, Done
<1>7. ASSUME NEW n \in 1 .. MaxCalls, RespondWithCalls(n) PROVE InteractionInv'
  <2>1. n \in Nat /\ n > 0 BY CallsAssumption
  <2>2. PICK c \in {0, n} : messages' = Append(messages, Assistant(step, c))
    BY <1>7 DEF RespondWithCalls
  <2>3. /\ pc' = "acting" /\ calls' = n /\ results' = <<>> /\ ~ finish' /\ finish' \in BOOLEAN
        /\ dead' = FALSE /\ probes' = 0 /\ UNCHANGED <<step, budget, trajectory>>
    BY <1>7 DEF RespondWithCalls
  <2>4. /\ messages' \in Seq(Message) /\ Len(messages') = Len(messages) + 1
        /\ \A m \in 1 .. Len(messages) : messages'[m] = messages[m]
        /\ messages'[Len(messages) + 1] = Assistant(step, c)
    BY <1>2, <2>1, <2>2 DEF Types, Assistant, Message
  <2>5. Types'
    <3>1. << >> \in Seq(Statuses) OBVIOUS
    <3>2. calls' \in Nat /\ results' \in Seq(Statuses) /\ probes' \in Int
      BY <2>1, <2>3, <3>1
    <3>3. dead' \in BOOLEAN /\ pc' \in {"acting"} BY <2>3
    <3> QED BY <1>2, <2>3, <2>4, <3>2, <3>3 DEF Types
  <2>6. Pending'
    <3>1. ASSUME NEW m \in 1 .. Len(messages), messages[m].role = "assistant",
                 NEW i \in 1 .. messages[m].call
          PROVE  m + i <= Len(messages) /\ messages'[m + i] = Tool(messages[m].step, i)
      <4>1. messages[m] \in Message BY <1>2 DEF Types
      <4>2. m + i \in 1 .. Len(messages) /\ messages[m + i] = Tool(messages[m].step, i)
        BY <1>2, <3>1, <4>1 DEF CallsAnswered, Message
      <4> QED BY <2>4, <4>2
    <3>2. Len(messages') - 1 = Len(messages) /\ Len(messages) \in Nat
      BY <1>2, <2>4 DEF Types
    <3>3. ASSUME NEW m \in 1 .. Len(messages') - 1
          PROVE  messages'[m].role = "assistant" =>
                     \A i \in 1 .. messages'[m].call :
                         /\ m + i <= Len(messages') - 1
                         /\ messages'[m + i] = Tool(messages'[m].step, i)
      <4>1. m \in 1 .. Len(messages) BY <3>2
      <4>2. messages'[m] = messages[m] BY <2>4, <4>1
      <4> QED BY <3>1, <3>2, <4>1, <4>2
    <3>4. LET last == messages'[Len(messages')]
          IN  last.role = "assistant" /\ last.step = step' /\ last.call \in {0, calls'}
      BY <2>2, <2>3, <2>4 DEF Assistant
    <3>5. Len(messages') > 0 BY <2>4, <3>2
    <3> QED BY <3>3, <3>4, <3>5 DEF Pending, AnsweredWithin
  <2>7. HistoryInv' BY <2>1, <2>3, <2>6 DEF HistoryInv, InCalls
  <2>8. \A r \in Done : Without(trajectory', r)
    BY <1>1, <2>3 DEF InteractionInv, GoingInv
  <2>9. GoingInv' BY <1>2, <2>3, <2>8 DEF GoingInv, Without
  <2> QED BY <1>1, <2>3, <2>5, <2>7, <2>9, GoingIsUnfinished DEF InteractionInv
<1> QED BY <1>3, <1>4, <1>5, <1>6, <1>7 DEF Model

LEMMA RunActionStep == ASSUME InteractionInv, RunAction PROVE InteractionInv'
<1> USE DEF stepVars
<1>1. Types /\ budget \in Int /\ finish \in BOOLEAN BY DEF InteractionInv, Types
<1>2. ASSUME pc \in {"interrupting", "probing"}, Record("timeout", FALSE, budget - 1),
             UNCHANGED <<messages, step, calls, finish, trajectory>>
      PROVE  InteractionInv'
  <2>1. budget - 1 \in Int /\ "timeout" \in Statuses /\ "timeout" # "skipped"
    BY <1>1 DEF Statuses
  <2>2. InCalls BY <1>2 DEF InCalls
  <2> QED BY <1>1, <1>2, <2>1, <2>2, RecordingStep
<1>3. CASE CommandReturns
  BY <1>1, <1>3, RecordingStep DEF CommandReturns, Send, InCalls, Statuses
<1>4. CASE CommandRefused
  BY <1>1, <1>4, RecordingStep DEF CommandRefused, Send, InCalls, Statuses
<1>5. CASE CommandTimesOut
  BY <1>1, <1>5, WaitingStep DEF CommandTimesOut, Send, InCalls, Types
<1>6. CASE CommandRaises BY <1>6, RaisingStep DEF CommandRaises, Send
<1>7. CASE InterruptReturns BY <1>7, <1>2 DEF InterruptReturns
<1>8. CASE InterruptRaises BY <1>1, <1>8, WaitingStep DEF InterruptRaises, InCalls, Types
<1>9. CASE ProbeAnswered BY <1>9, <1>2 DEF ProbeAnswered
<1>10. CASE ProbeGarbled
  <2>1. CASE probes + 1 < Probes
    BY <1>1, <1>10, <2>1, WaitingStep DEF ProbeGarbled, InCalls, Types
  <2>2. CASE ~ (probes + 1 < Probes)
    BY <1>1, <1>10, <2>2, RecordingStep DEF ProbeGarbled, InCalls, Statuses
  <2> QED BY <2>1, <2>2
<1>11. CASE ProbeRaises BY <1>11, RaisingStep DEF ProbeRaises
<1> QED BY <1>3, <1>4, <1>5, <1>6, <1>7, <1>8, <1>9, <1>10, <1>11 DEF RunAction

LEMMA CommitStep == ASSUME InteractionInv, Commit PROVE InteractionInv'
<1>1. pc = "commit" BY DEF Commit
<1>2. Types /\ Pending /\ Len(results) = calls
  BY <1>1 DEF InteractionInv, HistoryInv
<1>3. messages' \in Seq(Message) /\ CallsAnswered'
  <2>1. messages' = messages \o Answers(step, calls) BY <1>2 DEF Commit, Answered
  <2>2. calls \in Nat BY <1>2 DEF Types
  <2> QED BY <1>2, <2>1, <2>2, AnswersComplete
<1>4. /\ Verdict \in Reasons
      /\ Verdict \notin Done => budget >= 0
      /\ Verdict = "finished" => finish /\ ~ dead /\ budget >= 0
  BY <1>2 DEF Verdict, Reasons, Done, NotDone, Types
<1> QED BY <1>1, <1>3, <1>4, EndingStep DEF Commit

LEMMA InteractionInit == Init => InteractionInv
<1> SUFFICES ASSUME Init PROVE InteractionInv OBVIOUS
<1>1. Types
  <2>1. << >> \in Seq(Message) /\ << >> \in Seq(Statuses) /\ << >> \in Seq(Reasons) OBVIOUS
  <2>2. calls \in Nat /\ probes \in Int /\ step \in Int /\ budget \in Int
    BY BudgetAssumption DEF Init
  <2>3. finish \in BOOLEAN /\ dead \in BOOLEAN BY DEF Init
  <2> QED BY <2>1, <2>2, <2>3 DEF Init, Types
<1>2. HistoryInv BY DEF Init, HistoryInv, InCalls, CallsAnswered
<1>3. GoingInv BY BudgetAssumption DEF Init, GoingInv, InCalls, Without
<1> QED BY <1>1, <1>2, <1>3 DEF Init, InteractionInv, FinishedMeansFinished

LEMMA InteractionStep == InteractionInv /\ [Next]_vars => InteractionInv'
<1> SUFFICES ASSUME InteractionInv, [Next]_vars PROVE InteractionInv' OBVIOUS
<1>1. CASE UNCHANGED vars
  BY <1>1 DEF vars, stepVars, InteractionInv, Types, HistoryInv, GoingInv, InCalls,
              Pending, AnsweredWithin, CallsAnswered, Raised, FinishedMeansFinished
<1> QED BY <1>1, ModelStep, RunActionStep, CommitStep DEF Next

-----------------------------------------------------------------------------
(* Theorems *)

\* The inductive invariant of a run: between two steps the history is complete, within
\* one exactly the last response is still to be answered, and while calls are run
\* nothing has been given up.
THEOREM Safety == Spec => []InteractionInv
BY InteractionInit, InteractionStep, PTL DEF Spec

\* Every call the API was told about is answered, in order, whatever happens to the
\* shell (AgentInteraction.step, _execute_tool_calls), unless the run was broken off.
THEOREM CompleteHistory == Spec => []HistoryIsComplete
<1>1. InteractionInv => HistoryIsComplete
  BY DEF InteractionInv, HistoryInv, HistoryIsComplete
<1> QED BY <1>1, Safety, PTL

\* A run that reports "finished" has finished.
THEOREM TrulyFinished == Spec => []FinishedMeansFinished
<1>1. InteractionInv => FinishedMeansFinished BY DEF InteractionInv
<1> QED BY <1>1, Safety, PTL

\* Nothing is sent to a shell that was given up, or on a budget that is spent.
THEOREM GivenUpIsQuiet == Spec => NothingRunsAfterGivingUp
<1> DEFINE Quiet == ran' # ran => /\ budget >= 0
                                  /\ ~ Contains(results, "skipped")
                                  /\ ~ Contains(trajectory, "terminal_dead")
<1>1. ASSUME InteractionInv, Next, ran' # ran PROVE Quiet
  <2>1. InCalls
    BY <1>1 DEF Next, Model, RunAction, QueryRaises, TokenLimit, RespondWithoutCalls,
         RespondWithCalls, Reject, CommandReturns, CommandRefused, CommandTimesOut,
         CommandRaises, InterruptReturns, InterruptRaises, ProbeAnswered, ProbeGarbled,
         ProbeRaises, Commit, Send, InCalls
  <2>2. Without(results, "skipped") /\ budget >= 0
    BY <1>1, <2>1 DEF InteractionInv, GoingInv
  <2>3. Without(trajectory, "terminal_dead")
    BY <1>1, <2>1 DEF InteractionInv, GoingInv, InCalls, Done
  <2> QED BY <2>2, <2>3 DEF Contains, Without
<1>2. InteractionInv /\ [Next]_vars => [Quiet]_vars BY <1>1
<1>3. Spec => [][Quiet]_vars BY <1>2, Safety, PTL DEF Spec
<1> QED BY <1>3 DEF NothingRunsAfterGivingUp
-----------------------------------------------------------------------------
(* The outline of a history *)

\* The entries of a history are numbered from 1.
LEMMA EntryBounds ==
    ASSUME NEW history, NEW n \in Nat, NEW m \in 1 .. n
    PROVE  /\ Entry(history, m) \in Nat \ {0} /\ Entry(history, n) \in Nat
           /\ Entry(history, m) <= Entry(history, n)
<1>1. /\ Starts(history, m) \subseteq Starts(history, n) /\ Starts(history, n) \subseteq 1 .. n
      /\ 1 \in Starts(history, m)
  BY DEF Starts
<1>2. IsFiniteSet(1 .. n) BY FS_Interval
<1>3. IsFiniteSet(Starts(history, n)) BY <1>1, <1>2, FS_Subset
<1>4. /\ IsFiniteSet(Starts(history, m))
      /\ Cardinality(Starts(history, m)) <= Cardinality(Starts(history, n))
  BY <1>1, <1>3, FS_Subset
<1>5. Cardinality(Starts(history, m)) \in Nat /\ Cardinality(Starts(history, n)) \in Nat
  BY <1>3, <1>4, FS_CardinalityType
<1>6. Cardinality(Starts(history, m)) # 0 BY <1>1, <1>4, FS_EmptySet
<1> QED BY <1>4, <1>5, <1>6 DEF Entry

\* What follows a history does not change the entries of its messages.
LEMMA EntryKept ==
    ASSUME NEW history, NEW longer, NEW m \in Nat,
           \A k \in 1 .. m : longer[k] = history[k]
    PROVE  Entry(longer, m) = Entry(history, m)
<1>1. \A k \in 1 .. m : Group(longer, k) = Group(history, k) BY DEF Group
<1>2. \A k \in 1 .. m : k # 1 => Group(longer, k - 1) = Group(history, k - 1) BY <1>1
<1>3. Starts(longer, m) = Starts(history, m) BY <1>1, <1>2 DEF Starts
<1> QED BY <1>3 DEF Entry

\* A group of messages that differs from the last one adds one entry to the outline.
LEMMA OutlineGrows ==
    ASSUME NEW S, NEW history \in Seq(S), NEW more \in Seq(S), Len(more) > 0,
           NEW T, NEW encoded \in Seq(T), IsOutline(encoded, history), NEW group \in T,
           \A i \in 1 .. Len(more) : [role |-> more[i].role, step |-> more[i].step] = group,
           Len(history) > 0 => Group(history, Len(history)) # group
    PROVE  IsOutline(Append(encoded, group), history \o more)
<1> DEFINE longer == history \o more
<1>1. PICK old \in Nat : old = Len(history) OBVIOUS
<1>2. PICK n \in Nat \ {0} : n = Len(more) OBVIOUS
<1>3. /\ Len(longer) = old + n
      /\ \A k \in 1 .. old : longer[k] = history[k]
      /\ \A k \in (old + 1) .. (old + n) : longer[k] = more[k - old]
  BY <1>1, <1>2
<1> HIDE DEF longer
<1>4. \A k \in 1 .. old : Entry(longer, k) = Entry(history, k)
  <2> TAKE k \in 1 .. old
  <2>1. k \in Nat /\ \A j \in 1 .. k : longer[j] = history[j] BY <1>1, <1>3
  <2> QED BY <2>1, EntryKept
<1>5. \A k \in 1 .. old : Group(longer, k) = Group(history, k) BY <1>3 DEF Group
<1>6. ASSUME NEW k \in (old + 1) .. (old + n) PROVE Group(longer, k) = group
  <2>1. k - old \in 1 .. Len(more) /\ longer[k] = more[k - old] BY <1>1, <1>2, <1>3
  <2> QED BY <2>1 DEF Group
<1>7. ASSUME NEW k \in (old + 1) .. (old + n)
      PROVE  Entry(longer, k) = Entry(history, old) + 1
  <2>1. Starts(longer, old) = Starts(history, old)
    <3>1. \A j \in 1 .. old : j # 1 => Group(longer, j - 1) = Group(history, j - 1)
      BY <1>1, <1>5
    <3> QED BY <1>5, <3>1 DEF Starts
  <2>2. Starts(longer, k) = Starts(longer, old) \cup {old + 1}
    <3>1. ASSUME NEW j \in 1 .. k, j <= old
          PROVE  j \in Starts(longer, k) <=> j \in Starts(longer, old)
      BY <1>1, <3>1 DEF Starts
    <3>2. old + 1 \in Starts(longer, k)
      <4>1. old + 1 \in 1 .. k BY <1>1
      <4>2. CASE old = 0 BY <4>1, <4>2 DEF Starts
      <4>3. CASE old > 0
        <5>1. Group(longer, old + 1) = group BY <1>1, <1>2, <1>6
        <5>2. Group(longer, old) # group BY <1>1, <1>5, <4>3
        <5>3. (old + 1) - 1 = old BY <1>1
        <5> QED BY <4>1, <5>1, <5>2, <5>3 DEF Starts
      <4> QED BY <1>1, <4>2, <4>3
    <3>3. ASSUME NEW j \in 1 .. k, j > old + 1 PROVE j \notin Starts(longer, k)
      <4>1. j \in (old + 1) .. (old + n) /\ j - 1 \in (old + 1) .. (old + n) /\ j # 1
        BY <1>1, <1>2, <3>3
      <4>2. Group(longer, j) = Group(longer, j - 1) BY <1>6, <4>1
      <4> QED BY <4>1, <4>2 DEF Starts
    <3>4. Starts(longer, k) \subseteq 1 .. k /\ Starts(longer, old) \subseteq 1 .. old
      BY DEF Starts
    <3>5. 1 .. old \subseteq 1 .. k BY <1>1
    <3>6. \A j \in 1 .. k : j <= old \/ j = old + 1 \/ j > old + 1 BY <1>1
    <3>7. \A j \in 1 .. old : j <= old /\ j \in 1 .. k BY <1>1, <3>5
    <3> QED BY <3>1, <3>2, <3>3, <3>4, <3>6, <3>7
  <2>3. IsFiniteSet(Starts(longer, old)) /\ old + 1 \notin Starts(longer, old)
    <3>1. Starts(longer, old) \subseteq 1 .. old BY DEF Starts
    <3>2. IsFiniteSet(1 .. old) BY FS_Interval
    <3>3. old + 1 \notin 1 .. old BY <1>1
    <3> QED BY <3>1, <3>2, <3>3, FS_Subset
  <2>4. Cardinality(Starts(longer, k)) = Cardinality(Starts(longer, old)) + 1
    BY <2>2, <2>3, FS_AddElement
  <2> QED BY <2>1, <2>4 DEF Entry
<1>8. Len(encoded) = Entry(history, old) /\ Len(encoded) \in Nat BY <1>1 DEF IsOutline
<1>9. /\ Len(Append(encoded, group)) = Len(encoded) + 1
      /\ Append(encoded, group)[Len(encoded) + 1] = group
      /\ \A e \in 1 .. Len(encoded) : Append(encoded, group)[e] = encoded[e]
  OBVIOUS
<1>10. Len(Append(encoded, group)) = Entry(longer, Len(longer))
  <2>1. Len(longer) \in (old + 1) .. (old + n) BY <1>1, <1>2, <1>3
  <2> QED BY <1>7, <1>8, <1>9, <2>1
<1>11. ASSUME NEW m \in 1 .. Len(longer)
       PROVE  Append(encoded, group)[Entry(longer, m)] = Group(longer, m)
  <2>1. CASE m <= old
    <3>1. m \in 1 .. old BY <1>1, <1>3, <2>1
    <3>2. Entry(history, m) \in Nat \ {0} /\ Entry(history, m) <= Entry(history, old)
      BY <1>1, <3>1, EntryBounds
    <3>3. Entry(history, m) \in 1 .. Len(encoded) BY <1>8, <3>2
    <3>4. encoded[Entry(history, m)] = Group(history, m) BY <1>1, <3>1 DEF IsOutline
    <3> QED BY <1>4, <1>5, <1>9, <3>1, <3>3, <3>4
  <2>2. CASE m > old
    <3>1. m \in (old + 1) .. (old + n) BY <1>1, <1>2, <1>3, <2>2
    <3> QED BY <1>6, <1>7, <1>8, <1>9, <3>1
  <2>3. m \in Nat BY <1>1, <1>2, <1>3
  <2>4. m <= old \/ m > old BY <1>1, <2>3
  <2> QED BY <2>1, <2>2, <2>4
<1> QED BY <1>10, <1>11 DEF IsOutline, longer
-----------------------------------------------------------------------------
(* Bounds *)

Encoding == [role : {"assistant", "tool"}, step : Int]

(* The calls the steps before this one may have run.                       *)
Before == (step - 1) * MaxCalls

MessagesBound ==
    \A m \in 1 .. Len(messages) :
        messages[m].step \in 1 .. step /\ messages[m].call \in 0 .. MaxCalls

CacheBound == cache \in Seq(Encoding) /\ \A e \in 1 .. Len(cache) : cache[e].step \in 1 .. step

CountBound ==
    /\ mode \in Modes /\ shell \in {"alive", "gone"}
    /\ step \in 1 .. MaxTurns
    /\ calls \in 0 .. MaxCalls /\ Len(results) <= calls
    /\ probes \in 0 .. Probes - 1
    /\ budget \in -1 .. TimeoutBudget

(* A command is sent for each result there is, and one for the result that *)
(* is awaited.                                                             *)
RanBound ==
    /\ ran \in Nat
    /\ pc = "query" => ran <= Before
    /\ pc = "acting" => ran <= Before + Len(results)
    /\ pc \in {"interrupting", "probing"} => ran <= Before + Len(results) + 1
    /\ pc = "commit" => ran <= Before + calls
    /\ pc = "ended" => ran <= Before + MaxCalls

BoundInv == MessagesBound /\ CacheBound /\ CountBound /\ RanBound

\* A step more is MaxCalls calls more.
LEMMA BeforeIs ==
    ASSUME step \in 1 .. MaxTurns
    PROVE  /\ MaxCalls \in Nat \ {0} /\ Before \in Nat
           /\ step' = step => Before' = Before
           /\ step' = step + 1 => Before' = Before + MaxCalls
           /\ Before + MaxCalls <= MaxTurns * MaxCalls
<1>1. MaxCalls \in Nat \ {0} /\ step \in Nat \ {0} /\ MaxTurns \in Nat \ {0}
  BY CallsAssumption, TurnsAssumption
<1>2. \A a \in Nat : a * MaxCalls \in Nat /\ (a + 1) * MaxCalls = a * MaxCalls + MaxCalls
  BY <1>1
<1>3. PICK a \in Nat : step = a + 1 BY <1>1
<1>4. step - 1 = a /\ Before = a * MaxCalls BY <1>3 DEF Before
<1>5. Before \in Nat BY <1>2, <1>4
<1>6. ASSUME step' = step + 1 PROVE Before' = Before + MaxCalls
  <2>1. step' - 1 = a + 1 BY <1>3, <1>6
  <2> QED BY <2>1, <1>2, <1>4 DEF Before
<1>7. Before + MaxCalls = (a + 1) * MaxCalls BY <1>2, <1>4
<1>8. (a + 1) * MaxCalls <= MaxTurns * MaxCalls
  <2>1. a + 1 <= MaxTurns BY <1>3
  <2>2. PICK d \in Nat : MaxTurns = (a + 1) + d BY <1>1, <2>1
  <2>3. MaxTurns * MaxCalls = (a + 1) * MaxCalls + d * MaxCalls BY <1>1, <2>2
  <2>4. d * MaxCalls \in Nat /\ (a + 1) * MaxCalls \in Nat BY <1>2
  <2> QED BY <2>3, <2>4
<1> QED BY <1>1, <1>5, <1>6, <1>7, <1>8 DEF Before

\* A step of the agent ends with another one, or the run, within the turns.
LEMMA EndingBounds ==
    ASSUME step \in 1 .. MaxTurns, NEW reason, EndStep(reason)
    PROVE  /\ step' \in 1 .. MaxTurns /\ pc' \in {"query", "ended"}
           /\ pc' = "query" => step' = step + 1
           /\ pc' = "ended" => step' = step
BY TurnsAssumption DEF EndStep

\* A response and its answers follow the history one by one, or together.
LEMMA Regroup ==
    ASSUME NEW S, NEW history \in Seq(S), NEW first \in S, NEW tail \in Seq(S)
    PROVE  /\ <<first>> \in Seq(S) /\ <<first>> \o tail \in Seq(S)
           /\ Append(history, first) = history \o <<first>>
           /\ Append(history, first) \o tail = history \o (<<first>> \o tail)
<1>1. <<first>> \in Seq(S) OBVIOUS
<1> QED BY <1>1, AppendIsConcat, ConcatAssociative, ConcatProperties

\* What a response or its results add to messages and cache is within the bounds.
LEMMA BoundedMessages ==
    ASSUME Types, MessagesBound, step \in 1 .. step', step' \in Int, messages' \in Seq(Message),
           NEW more \in Seq(Message), messages' = messages \o more,
           \A i \in 1 .. Len(more) : more[i].step = step /\ more[i].call \in 0 .. MaxCalls
    PROVE  MessagesBound'
<1>1. /\ Len(messages) \in Nat /\ Len(more) \in Nat /\ Len(messages') = Len(messages) + Len(more)
      /\ \A m \in 1 .. Len(messages) : messages'[m] = messages[m]
      /\ \A m \in (Len(messages) + 1) .. (Len(messages) + Len(more)) :
            messages'[m] = more[m - Len(messages)]
  BY DEF Types
<1>2. \A s \in 1 .. step : s \in 1 .. step' BY DEF Types
<1>3. ASSUME NEW m \in 1 .. Len(messages')
      PROVE  messages'[m].step \in 1 .. step' /\ messages'[m].call \in 0 .. MaxCalls
  <2>1. CASE m <= Len(messages)
    <3>1. m \in 1 .. Len(messages) /\ messages'[m] = messages[m] BY <1>1, <2>1
    <3>2. messages[m].step \in 1 .. step /\ messages[m].call \in 0 .. MaxCalls
      BY <3>1 DEF MessagesBound
    <3> QED BY <3>1, <3>2 DEF Types
  <2>2. CASE m > Len(messages)
    <3>1. m - Len(messages) \in 1 .. Len(more) /\ messages'[m] = more[m - Len(messages)]
      BY <1>1, <2>2
    <3> QED BY <3>1
  <2> QED BY <1>1, <2>1, <2>2
<1> QED BY <1>3 DEF MessagesBound

\* The same for the cache, to which an entry of this step is added.
LEMMA Grown ==
    ASSUME step \in Int, step \in 1 .. step', step' \in Int, NEW encoded \in Seq(Encoding),
           \A e \in 1 .. Len(encoded) : encoded[e].step \in 1 .. step,
           NEW role \in {"assistant", "tool"},
           cache' = Append(encoded, [role |-> role, step |-> step])
    PROVE  CacheBound'
<1>1. \A s \in 1 .. step : s \in 1 .. step' OBVIOUS
<1>2. [role |-> role, step |-> step] \in Encoding BY DEF Encoding
<1>3. /\ cache' \in Seq(Encoding) /\ Len(cache') = Len(encoded) + 1 /\ Len(encoded) \in Nat
      /\ cache'[Len(encoded) + 1] = [role |-> role, step |-> step]
      /\ \A e \in 1 .. Len(encoded) : cache'[e] = encoded[e]
  BY <1>2
<1>4. ASSUME NEW e \in 1 .. Len(cache') PROVE cache'[e].step \in 1 .. step'
  <2>1. e \in 1 .. Len(encoded) \/ e = Len(encoded) + 1 BY <1>3
  <2>2. CASE e \in 1 .. Len(encoded)
    <3>1. cache'[e] = encoded[e] BY <1>3, <2>2
    <3> QED BY <1>1, <2>2, <3>1
  <2> QED BY <1>3, <2>1, <2>2
<1> QED BY <1>3, <1>4 DEF CacheBound

\* A response or a group of results is added to it, or nothing.
LEMMA BoundedCache ==
    ASSUME CacheBound, step \in Int, step \in 1 .. step', step' \in Int,
           NEW role \in {"assistant", "tool"},
           cache' \in {cache, Append(cache, [role |-> role, step |-> step])}
    PROVE  CacheBound'
<1>1. \A s \in 1 .. step : s \in 1 .. step' OBVIOUS
<1>2. CASE cache' = cache BY <1>1, <1>2 DEF CacheBound
<1>3. CASE cache' = Append(cache, [role |-> role, step |-> step]) BY <1>3, Grown DEF CacheBound
<1> QED BY <1>2, <1>3

\* The end of a step of the agent keeps the counters within their bounds.
LEMMA EndingStepBounds ==
    ASSUME InteractionInv, CountBound, RanBound, NEW reason, EndStep(reason),
           pc \in {"query", "commit"}, UNCHANGED <<mode, stepVars, shell, ran>>
    PROVE  CountBound' /\ RanBound'
<1>1. /\ step' \in 1 .. MaxTurns /\ pc' \in {"query", "ended"}
      /\ pc' = "query" => step' = step + 1
      /\ pc' = "ended" => step' = step
  BY EndingBounds DEF CountBound
<1>2. UNCHANGED <<mode, calls, results, probes, budget, shell, ran>> BY DEF stepVars
<1>3. CountBound' BY <1>1, <1>2 DEF CountBound
<1>4. /\ MaxCalls \in Nat \ {0} /\ Before \in Nat
      /\ step' = step => Before' = Before
      /\ step' = step + 1 => Before' = Before + MaxCalls
  BY BeforeIs DEF CountBound
<1>5. ran \in Nat /\ calls <= MaxCalls /\ calls \in Nat /\ ran <= Before + MaxCalls
  BY <1>4 DEF RanBound, CountBound
<1>6. RanBound'
  <2>1. CASE pc' = "query"
    <3>1. ran' <= Before' BY <1>1, <1>2, <1>4, <1>5, <2>1
    <3> QED BY <1>2, <1>5, <2>1, <3>1 DEF RanBound
  <2>2. CASE pc' = "ended"
    <3>1. ran' <= Before' + MaxCalls BY <1>1, <1>2, <1>4, <1>5, <2>2
    <3> QED BY <1>2, <1>5, <2>2, <3>1 DEF RanBound
  <2> QED BY <1>1, <2>1, <2>2
<1> QED BY <1>3, <1>6

\* So does an exception, raised before a command or by one.
LEMMA RaisingStepBounds ==
    ASSUME InteractionInv, CountBound, RanBound, UnknownError, pc # "ended",
           shell' \in {"alive", "gone"}, UNCHANGED <<mode, stepVars>>,
           ran' = ran \/ (pc = "acting" /\ ran' = ran + 1)
    PROVE  CountBound' /\ RanBound'
<1>1. step' = step /\ pc' = "ended" BY DEF UnknownError
<1>2. UNCHANGED <<mode, calls, results, probes, budget>> BY DEF stepVars
<1>3. CountBound' BY <1>1, <1>2 DEF CountBound
<1>4. MaxCalls \in Nat \ {0} /\ Before \in Nat /\ Before' = Before
  BY <1>1, BeforeIs DEF CountBound
<1>5. ran' \in Nat /\ ran' <= Before + MaxCalls
  <2>1. calls \in Nat /\ calls <= MaxCalls /\ ran \in Nat /\ Len(results) \in Nat
    BY <1>4 DEF CountBound, RanBound, InteractionInv, Types
  <2>2. pc \in {"acting", "interrupting", "probing"} => Len(results) + 1 <= calls
    BY <2>1 DEF InteractionInv, HistoryInv, InCalls
  <2>3. CASE pc = "query" BY <1>4, <2>1, <2>3 DEF RanBound
  <2>4. CASE pc = "acting" BY <1>4, <2>1, <2>2, <2>4 DEF RanBound
  <2>5. CASE pc \in {"interrupting", "probing"} BY <1>4, <2>1, <2>2, <2>5 DEF RanBound
  <2>6. CASE pc = "commit" BY <1>4, <2>1, <2>6 DEF RanBound
  <2> QED BY <2>3, <2>4, <2>5, <2>6 DEF InteractionInv, Types
<1>6. RanBound' BY <1>1, <1>4, <1>5 DEF RanBound
<1> QED BY <1>3, <1>6

\* And so does the result of a call, which may cost one of the timeouts.
LEMMA RecordingStepBounds ==
    ASSUME InteractionInv, CountBound, RanBound, InCalls, NEW status \in Statuses,
           NEW lost \in BOOLEAN, NEW left \in {budget, budget - 1}, Record(status, lost, left),
           UNCHANGED <<mode, step, calls, shell>>,
           ran' = IF pc = "acting" THEN ran + 1 ELSE ran
    PROVE  CountBound' /\ RanBound'
<1>1. /\ budget \in Int /\ budget >= 0 /\ Types /\ Len(results) < calls
      /\ Len(results) \in Nat /\ calls \in Nat
  BY DEF InteractionInv, HistoryInv, GoingInv, Types
<1>2. left \in Int BY <1>1
<1>3. /\ results' \in Seq(Statuses) /\ budget' = left /\ probes' = 0
      /\ pc' \in {"acting", "commit"}
      /\ pc' = "commit" => Len(results') = calls
      /\ pc' = "acting" => Len(results') < calls /\ results' = Append(results, status)
  BY <1>1, <1>2, RecordIs
<1>4. Len(results') <= calls BY <1>1, <1>3
<1>5. budget' \in -1 .. TimeoutBudget BY <1>1, <1>3, BudgetAssumption DEF CountBound
<1>6. probes' \in 0 .. Probes - 1 BY <1>3, ProbesAssumption
<1>7. CountBound' BY <1>4, <1>5, <1>6 DEF CountBound
<1>8. Before \in Nat /\ Before' = Before BY BeforeIs DEF CountBound
<1>9. ran' \in Nat /\ ran' <= Before + Len(results) + 1
  <2>1. CASE pc = "acting" BY <1>1, <1>8, <2>1 DEF RanBound
  <2>2. CASE pc \in {"interrupting", "probing"} BY <1>1, <1>8, <2>2 DEF RanBound
  <2> QED BY <2>1, <2>2 DEF InCalls
<1>10. CASE pc' = "commit"
  <2>1. ran' <= Before' + calls' BY <1>1, <1>8, <1>9
  <2> QED BY <1>7, <1>9, <1>10, <2>1 DEF RanBound
<1>11. CASE pc' = "acting"
  <2>1. Len(results') = Len(results) + 1 BY <1>1, <1>3, <1>11 DEF Types
  <2>2. ran' <= Before' + Len(results') BY <1>1, <1>8, <1>9, <2>1
  <2> QED BY <1>7, <1>9, <1>11, <2>2 DEF RanBound
<1> QED BY <1>3, <1>7, <1>10, <1>11

\* Steps that say nothing leave the messages and the cache within their bounds.
LEMMA SilentStepBounds ==
    ASSUME MessagesBound, CacheBound, step \in 1 .. step', step' \in Int,
           UNCHANGED <<messages, cache>>
    PROVE  MessagesBound' /\ CacheBound'
<1>1. \A s \in 1 .. step : s \in 1 .. step' OBVIOUS
<1> QED BY <1>1 DEF MessagesBound, CacheBound
\* What the model does keeps the bounds.
LEMMA ModelStepBounds == ASSUME InteractionInv, BoundInv, Model PROVE BoundInv'
<1> USE DEF BoundInv
<1>1. pc = "query" /\ Types /\ step \in Int /\ step \in 1 .. MaxTurns /\ messages \in Seq(Message)
  BY DEF Model, QueryRaises, TokenLimit, RespondWithoutCalls, RespondWithCalls, Reject,
         InteractionInv, CountBound, Types
<1>2. messages' \in Seq(Message) /\ Types'
  <2>1. InteractionInv' BY ModelStep
  <2> QED BY <2>1 DEF InteractionInv, Types
<1>3. MaxCalls \in Nat \ {0} /\ MaxTurns \in Nat \ {0} BY CallsAssumption, TurnsAssumption
<1>4. ASSUME NEW reason, EndStep(reason), UNCHANGED <<mode, stepVars, shell, ran>>
      PROVE  CountBound' /\ RanBound' /\ step \in 1 .. step' /\ step' \in Int
  <2>1. CountBound' /\ RanBound' BY <1>1, <1>4, EndingStepBounds
  <2>2. step' \in {step, step + 1} BY <1>4 DEF EndStep
  <2> QED BY <1>1, <1>3, <2>1, <2>2
<1>5. Encoded("assistant") \in {cache, Append(cache, [role |-> "assistant", step |-> step])}
  BY DEF Encoded
<1>6. CASE QueryRaises
  <2>1. CountBound' /\ RanBound' BY <1>1, <1>6, RaisingStepBounds DEF QueryRaises, CountBound
  <2>2. step' = step BY <1>6 DEF QueryRaises, UnknownError
  <2>3. step \in 1 .. step' /\ step' \in Int BY <1>1, <1>3, <2>2
  <2> QED BY <1>6, <2>1, <2>3, SilentStepBounds DEF QueryRaises
<1>7. CASE TokenLimit
  <2>1. CountBound' /\ RanBound' /\ step \in 1 .. step' /\ step' \in Int
    BY <1>4, <1>7 DEF TokenLimit
  <2>2. CacheBound' BY <1>5, <1>7, <2>1, BoundedCache DEF TokenLimit
  <2>3. MessagesBound'
    <3>1. \A s \in 1 .. step : s \in 1 .. step' BY <2>1
    <3> QED BY <1>7, <3>1 DEF TokenLimit, MessagesBound
  <2> QED BY <2>1, <2>2, <2>3
<1>8. CASE RespondWithoutCalls
  <2>1. CountBound' /\ RanBound' /\ step \in 1 .. step' /\ step' \in Int
    BY <1>4, <1>8 DEF RespondWithoutCalls
  <2>2. CacheBound' BY <1>5, <1>8, <2>1, BoundedCache DEF RespondWithoutCalls
  <2>3. MessagesBound'
    <3>1. PICK more : more = <<Assistant(step, 0)>> OBVIOUS
    <3>2. more \in Seq(Message) /\ messages' = messages \o more
      <4>1. Assistant(step, 0) \in Message BY <1>1 DEF Assistant, Message
      <4> QED BY <1>1, <1>8, <3>1, <4>1, Regroup DEF RespondWithoutCalls
    <3>3. \A i \in 1 .. Len(more) : more[i].step = step /\ more[i].call \in 0 .. MaxCalls
      BY <1>3, <3>1 DEF Assistant
    <3> QED BY <1>1, <1>2, <2>1, <3>2, <3>3, BoundedMessages
  <2> QED BY <2>1, <2>2, <2>3
<1>9. ASSUME NEW n \in 0 .. MaxCalls, Reject(n) PROVE BoundInv'
  <2>1. CountBound' /\ RanBound' /\ step \in 1 .. step' /\ step' \in Int
    BY <1>4, <1>9 DEF Reject
  <2>2. CacheBound'
    <3>1. CASE mode.structured BY <1>9, <2>1, <3>1, BoundedCache DEF Reject
    <3>2. CASE ~ mode.structured
      <4>1. PICK mid : mid = Append(cache, [role |-> "assistant", step |-> step]) OBVIOUS
      <4>2. mid \in Seq(Encoding) /\ \A e \in 1 .. Len(mid) : mid[e].step \in 1 .. step
        <5>1. [role |-> "assistant", step |-> step] \in Encoding BY <1>1, <1>3 DEF Encoding
        <5>2. /\ mid \in Seq(Encoding) /\ Len(mid) = Len(cache) + 1 /\ Len(cache) \in Nat
              /\ mid[Len(cache) + 1] = [role |-> "assistant", step |-> step]
              /\ \A e \in 1 .. Len(cache) : mid[e] = cache[e]
          BY <4>1, <5>1 DEF CacheBound
        <5>3. step \in 1 .. step BY <1>1, <1>3
        <5>4. ASSUME NEW e \in 1 .. Len(mid) PROVE mid[e].step \in 1 .. step
          <6>1. e \in 1 .. Len(cache) \/ e = Len(cache) + 1 BY <5>2
          <6>2. CASE e \in 1 .. Len(cache)
            <7>1. mid[e] = cache[e] BY <5>2, <6>2
            <7> QED BY <6>2, <7>1 DEF CacheBound
          <6> QED BY <5>2, <5>3, <6>1, <6>2
        <5> QED BY <5>2, <5>4
      <4>3. cache' = Append(mid, [role |-> "tool", step |-> step])
        BY <1>9, <3>2, <4>1 DEF Reject, Encoded
      <4> QED BY <1>1, <2>1, <4>2, <4>3, Grown
    <3> QED BY <3>1, <3>2
  <2>3. MessagesBound'
    <3>1. n \in Nat /\ n <= MaxCalls BY <1>3
    <3>2. PICK tools : tools = IF n > 0 THEN Answers(step, n) ELSE <<Tool(step, 0)>> OBVIOUS
    <3>3. /\ tools \in Seq(Message)
          /\ \A i \in 1 .. Len(tools) : tools[i].step = step /\ tools[i].call \in 0 .. MaxCalls
      <4>1. CASE n > 0
        <5>1. tools = [i \in 1 .. n |-> Tool(step, i)] BY <3>2, <4>1 DEF Answers
        <5>2. \A i \in 1 .. n : Tool(step, i) \in Message BY <1>1, <3>1 DEF Tool, Message
        <5>3. tools \in Seq(Message) /\ Len(tools) = n BY <3>1, <5>1, <5>2
        <5>4. \A i \in 1 .. n : tools[i].step = step /\ tools[i].call = i BY <5>1 DEF Tool
        <5>5. \A i \in 1 .. n : i \in 0 .. MaxCalls BY <1>3, <3>1
        <5> QED BY <5>3, <5>4, <5>5
      <4>2. CASE n = 0 BY <1>1, <1>3, <3>2, <4>2 DEF Tool, Message
      <4> QED BY <3>1, <4>1, <4>2
    <3>4. PICK more : more = <<Assistant(step, n)>> \o tools OBVIOUS
    <3>5. Assistant(step, n) \in Message BY <1>1, <3>1 DEF Assistant, Message
    <3>6. more \in Seq(Message) /\ messages' = messages \o more
      <4>1. messages' = Append(messages, Assistant(step, n)) \o tools BY <1>9, <3>2 DEF Reject
      <4> QED BY <1>1, <3>3, <3>4, <3>5, <4>1, Regroup, SMTT(30)
    <3>7. \A i \in 1 .. Len(more) : more[i].step = step /\ more[i].call \in 0 .. MaxCalls
      <4>1. /\ Len(more) = Len(tools) + 1 /\ more[1] = Assistant(step, n) /\ Len(tools) \in Nat
            /\ \A i \in 2 .. Len(tools) + 1 : more[i] = tools[i - 1]
        BY <3>3, <3>4, <3>5
      <4>2. ASSUME NEW i \in 1 .. Len(more)
            PROVE  more[i].step = step /\ more[i].call \in 0 .. MaxCalls
        <5>1. CASE i = 1 BY <3>1, <4>1, <5>1 DEF Assistant
        <5>2. CASE i # 1
          <6>1. i \in 2 .. Len(tools) + 1 /\ i - 1 \in 1 .. Len(tools) BY <4>1, <5>2
          <6> QED BY <3>3, <4>1, <6>1
        <5> QED BY <5>1, <5>2
      <4> QED BY <4>2
    <3> QED BY <1>1, <1>2, <2>1, <3>6, <3>7, BoundedMessages
  <2> QED BY <2>1, <2>2, <2>3
<1>10. ASSUME NEW n \in 1 .. MaxCalls, RespondWithCalls(n) PROVE BoundInv'
  <2>1. n \in Nat /\ n <= MaxCalls BY <1>3
  <2>2. PICK c \in {0, n} : messages' = Append(messages, Assistant(step, c))
    BY <1>10 DEF RespondWithCalls
  <2>3. /\ pc' = "acting" /\ calls' = n /\ results' = <<>> /\ probes' = 0
        /\ UNCHANGED <<mode, step, budget, shell, ran>> /\ cache' = Encoded("assistant")
    BY <1>10 DEF RespondWithCalls
  <2>4. step \in 1 .. step' /\ step' \in Int BY <1>1, <1>3, <2>3
  <2>5. CacheBound' BY <1>5, <2>3, <2>4, BoundedCache
  <2>6. MessagesBound'
    <3>1. PICK more : more = <<Assistant(step, c)>> OBVIOUS
    <3>2. more \in Seq(Message) /\ messages' = messages \o more
      <4>1. Assistant(step, c) \in Message BY <1>1, <2>1 DEF Assistant, Message
      <4> QED BY <1>1, <2>2, <3>1, <4>1, Regroup
    <3>3. \A i \in 1 .. Len(more) : more[i].step = step /\ more[i].call \in 0 .. MaxCalls
      BY <1>3, <2>1, <3>1 DEF Assistant
    <3> QED BY <1>1, <1>2, <2>4, <3>2, <3>3, BoundedMessages
  <2>7. Len(results') = 0 BY <2>3
  <2>8. 0 \in 0 .. Probes - 1 BY ProbesAssumption
  <2>9. CountBound' BY <2>1, <2>3, <2>7, <2>8 DEF CountBound
  <2>10. Before \in Nat /\ Before' = Before BY <2>3, BeforeIs DEF CountBound
  <2>11. RanBound' BY <1>1, <2>3, <2>7, <2>10 DEF RanBound
  <2> QED BY <2>5, <2>6, <2>9, <2>11
<1> QED BY <1>6, <1>7, <1>8, <1>9, <1>10 DEF Model

\* The commands do too.
LEMMA RunActionBounds == ASSUME InteractionInv, BoundInv, RunAction PROVE BoundInv'
<1> USE DEF BoundInv
<1>1. Types /\ step \in Int /\ step \in 1 .. MaxTurns /\ shell \in {"alive", "gone"}
  BY DEF InteractionInv, Types, CountBound
<1>2. /\ InCalls /\ pc # "ended"
      /\ UNCHANGED <<mode, step, messages, cache, calls>> /\ shell' \in {"alive", "gone"}
  BY <1>1 DEF RunAction, CommandReturns, CommandRefused, CommandTimesOut, CommandRaises,
         InterruptReturns, InterruptRaises, ProbeAnswered, ProbeGarbled, ProbeRaises, Send,
         InCalls, UnknownError, stepVars
<1>3. MessagesBound' /\ CacheBound'
  <2>1. step \in 1 .. step' /\ step' \in Int BY <1>1, <1>2
  <2> QED BY <1>2, <2>1, SilentStepBounds
<1>4. ASSUME NEW status \in Statuses, NEW lost \in BOOLEAN, NEW left \in {budget, budget - 1},
             Record(status, lost, left), shell' = shell,
             ran' = IF pc = "acting" THEN ran + 1 ELSE ran
      PROVE  CountBound' /\ RanBound'
  BY <1>2, <1>4, RecordingStepBounds
<1>5. Before \in Nat /\ Before' = Before BY <1>2, BeforeIs DEF CountBound
<1>6. Len(results) \in Nat BY <1>1 DEF Types
<1>7. CASE CommandReturns BY <1>4, <1>7, <1>3 DEF CommandReturns, Send, Statuses
<1>8. CASE CommandRefused BY <1>4, <1>8, <1>3 DEF CommandRefused, Send, Statuses
<1>9. CASE CommandTimesOut
  <2>1. pc = "acting" /\ pc' = "interrupting" /\ ran' = ran + 1 /\ UNCHANGED stepVars
    BY <1>9 DEF CommandTimesOut, Send
  <2>2. UNCHANGED <<results, probes, budget>> BY <2>1 DEF stepVars
  <2>3. CountBound' BY <1>2, <2>2 DEF CountBound
  <2>4. RanBound' BY <1>5, <1>6, <2>1, <2>2 DEF RanBound
  <2> QED BY <1>3, <2>3, <2>4
<1>10. CASE CommandRaises
  <2>1. UnknownError /\ pc = "acting" /\ ran' = ran + 1 /\ UNCHANGED stepVars
    BY <1>10 DEF CommandRaises, Send
  <2> QED BY <1>2, <1>3, <2>1, RaisingStepBounds
<1>11. CASE InterruptReturns BY <1>4, <1>11, <1>3 DEF InterruptReturns, Statuses
<1>12. CASE InterruptRaises
  <2>1. pc = "interrupting" /\ pc' = "probing" /\ ran' = ran /\ UNCHANGED stepVars
    BY <1>12 DEF InterruptRaises
  <2>2. UNCHANGED <<results, probes, budget>> BY <2>1 DEF stepVars
  <2>3. CountBound' BY <1>2, <2>2 DEF CountBound
  <2>4. RanBound' BY <1>5, <1>6, <2>1, <2>2 DEF RanBound
  <2> QED BY <1>3, <2>3, <2>4
<1>13. CASE ProbeAnswered BY <1>4, <1>13, <1>3 DEF ProbeAnswered, Statuses
<1>14. CASE ProbeGarbled
  <2>1. CASE probes + 1 < Probes
    <3>1. /\ pc = "probing" /\ probes' = probes + 1
          /\ UNCHANGED <<pc, results, budget, ran>>
      BY <1>14, <2>1 DEF ProbeGarbled
    <3>2. probes' \in 0 .. Probes - 1 BY <2>1, <3>1, ProbesAssumption DEF CountBound
    <3>3. CountBound' BY <1>2, <3>1, <3>2 DEF CountBound
    <3>4. RanBound' BY <1>5, <3>1 DEF RanBound
    <3> QED BY <1>3, <3>3, <3>4
  <2>2. CASE ~ (probes + 1 < Probes) BY <1>4, <1>14, <2>2, <1>3 DEF ProbeGarbled, Statuses
  <2> QED BY <2>1, <2>2
<1>15. CASE ProbeRaises
  <2>1. UnknownError /\ ran' = ran /\ UNCHANGED stepVars BY <1>15 DEF ProbeRaises
  <2> QED BY <1>2, <1>3, <2>1, RaisingStepBounds
<1> QED BY <1>7, <1>8, <1>9, <1>10, <1>11, <1>12, <1>13, <1>14, <1>15 DEF RunAction

\* And so does the commit of their results.
LEMMA CommitBounds == ASSUME InteractionInv, BoundInv, Commit PROVE BoundInv'
<1> USE DEF BoundInv
<1>1. /\ pc = "commit" /\ Types /\ step \in Int /\ step \in 1 .. MaxTurns
      /\ Len(results) = calls /\ calls \in Nat /\ calls <= MaxCalls
  BY CallsAssumption DEF Commit, InteractionInv, HistoryInv, Types, CountBound
<1>2. MaxTurns \in Nat \ {0} /\ MaxCalls \in Nat \ {0} BY TurnsAssumption, CallsAssumption
<1>3. CountBound' /\ RanBound' /\ step \in 1 .. step' /\ step' \in Int
  <2>1. CountBound' /\ RanBound' BY <1>1, EndingStepBounds DEF Commit
  <2>2. step' \in {step, step + 1} BY DEF Commit, EndStep
  <2> QED BY <1>1, <1>2, <2>1, <2>2
<1>4. CacheBound'
  <2>1. cache' \in {cache, Append(cache, [role |-> "tool", step |-> step])}
    BY DEF Commit, Encoded
  <2> QED BY <1>1, <1>3, <2>1, BoundedCache
<1>5. MessagesBound'
  <2>1. PICK more : more = [i \in 1 .. calls |-> Tool(step, i)] OBVIOUS
  <2>2. \A i \in 1 .. calls : Tool(step, i) \in Message BY <1>1 DEF Tool, Message
  <2>3. more \in Seq(Message) /\ Len(more) = calls BY <1>1, <2>1, <2>2
  <2>4. messages' = messages \o more BY <1>1, <2>1 DEF Commit, Answers, Answered
  <2>5. \A i \in 1 .. calls : more[i].step = step /\ more[i].call = i BY <2>1 DEF Tool
  <2>6. \A i \in 1 .. calls : i \in 0 .. MaxCalls BY <1>1, <1>2
  <2>7. messages' \in Seq(Message)
    <3>1. InteractionInv' BY CommitStep
    <3> QED BY <3>1 DEF InteractionInv, Types
  <2> QED BY <1>1, <1>3, <2>3, <2>4, <2>5, <2>6, <2>7, BoundedMessages
<1> QED BY <1>3, <1>4, <1>5

LEMMA BoundInit == Init => BoundInv
<1> SUFFICES ASSUME Init PROVE BoundInv OBVIOUS
<1>1. MessagesBound /\ CacheBound
  <2>1. << >> \in Seq(Encoding) OBVIOUS
  <2> QED BY <2>1 DEF Init, MessagesBound, CacheBound
<1>2. CountBound
  BY TurnsAssumption, CallsAssumption, ProbesAssumption, BudgetAssumption DEF Init, CountBound
<1>3. Before = 0 BY CallsAssumption DEF Init, Before
<1>4. RanBound BY <1>3 DEF Init, RanBound
<1> QED BY <1>1, <1>2, <1>4 DEF BoundInv

LEMMA BoundStep == InteractionInv /\ BoundInv /\ [Next]_vars => BoundInv'
<1> SUFFICES ASSUME InteractionInv, BoundInv, [Next]_vars PROVE BoundInv' OBVIOUS
<1>1. CASE UNCHANGED vars
  BY <1>1 DEF vars, stepVars, BoundInv, MessagesBound, CacheBound, CountBound, RanBound, Before
<1> QED BY <1>1, ModelStepBounds, RunActionBounds, CommitBounds DEF Next

\* Every run stays within its turns, its calls, its probes and its timeout budget, and
\* sends no more commands than its turns allow.
THEOREM Bounded == Spec => []BoundInv
<1>1. Spec => [](InteractionInv /\ BoundInv)
  BY InteractionInit, InteractionStep, BoundInit, BoundStep, PTL DEF Spec
<1> QED BY <1>1, PTL

\* The type invariant of a run of the agent (AgentInteraction.run and step).
THEOREM TypeCorrect == Spec => []TypeOK
<1>1. InteractionInv /\ BoundInv => TypeOK
  <2> SUFFICES ASSUME InteractionInv, BoundInv PROVE TypeOK OBVIOUS
  <2>1. Types /\ MessagesBound /\ CacheBound /\ CountBound /\ RanBound
    BY DEF InteractionInv, BoundInv
  <2>2. step \in 1 .. MaxTurns /\ MaxTurns \in Nat \ {0} BY <2>1, TurnsAssumption DEF CountBound
  <2>3. \A s \in 1 .. step : s \in 1 .. MaxTurns BY <2>2
  <2>4. ASSUME NEW m \in 1 .. Len(messages)
        PROVE  messages[m] \in [role : {"assistant", "tool"}, step : 1 .. MaxTurns,
                                call : 0 .. MaxCalls]
    <3>1. messages[m] \in Message BY <2>1 DEF Types
    <3>2. messages[m].step \in 1 .. MaxTurns /\ messages[m].call \in 0 .. MaxCalls
      BY <2>1, <2>3 DEF MessagesBound
    <3> QED BY <3>1, <3>2 DEF Message
  <2>5. ASSUME NEW c \in 1 .. Len(cache)
        PROVE  cache[c] \in [role : {"assistant", "tool"}, step : 1 .. MaxTurns]
    <3>1. cache[c] \in Encoding BY <2>1 DEF CacheBound
    <3>2. cache[c].step \in 1 .. MaxTurns BY <2>1, <2>3 DEF CacheBound
    <3> QED BY <3>1, <3>2 DEF Encoding
  <2>6. ran \in 0 .. MaxTurns * MaxCalls
    <3>1. /\ MaxCalls \in Nat \ {0} /\ Before \in Nat
          /\ Before + MaxCalls <= MaxTurns * MaxCalls
      BY <2>2, BeforeIs
    <3>2. PICK cap : cap = MaxTurns * MaxCalls OBVIOUS
    <3>3. cap \in Nat BY <2>2, <3>1, <3>2
    <3>4. Len(results) \in Nat /\ calls \in Nat /\ calls <= MaxCalls /\ Len(results) <= calls
      BY <2>1, <3>1 DEF Types, CountBound
    <3>5. InCalls => Len(results) + 1 <= calls
      BY <3>4 DEF InteractionInv, HistoryInv
    <3>6. ran \in Nat /\ ran <= Before + MaxCalls
      <4>1. ran \in Nat BY <2>1 DEF RanBound
      <4>2. CASE pc \in {"query", "ended"} BY <2>1, <3>1, <4>1, <4>2 DEF RanBound
      <4>3. CASE pc = "commit" BY <2>1, <3>1, <3>4, <4>1, <4>3 DEF RanBound
      <4>4. CASE InCalls BY <2>1, <3>1, <3>4, <3>5, <4>1, <4>4 DEF RanBound, InCalls
      <4> QED BY <2>1, <4>2, <4>3, <4>4 DEF Types, InCalls
    <3> QED BY <3>1, <3>2, <3>3, <3>6
  <2>7. \A i \in 1 .. Len(trajectory) :
           trajectory[i] \in Done \cup NotDone \cup {"max_step_limit", "unknown_error"}
    BY <2>1 DEF Types, Reasons
  <2>8. \A i \in 1 .. Len(results) : results[i] \in Statuses BY <2>1 DEF Types
  <2> QED BY <2>1, <2>4, <2>5, <2>6, <2>7, <2>8 DEF TypeOK, Types, CountBound
<1> QED BY <1>1, Safety, Bounded, PTL

-----------------------------------------------------------------------------
(* The cache follows the messages *)

(* While the run goes on, the cache encodes the messages, and the last of  *)
(* them belong to this step only while its calls are run: what is appended *)
(* next starts a group of its own.                                         *)
CacheInv ==
    ~ mode.structured =>
        /\ pc = "query" => \A m \in 1 .. Len(messages) : messages[m].step < step
        /\ InCalls \/ pc = "commit" =>
              /\ calls > 0
              /\ \A m \in 1 .. Len(messages) - 1 : messages[m].step < step
        /\ pc # "ended" => IsOutline(cache, messages)
        /\ pc = "ended" /\ ~ Raised => CacheFollowsMessages

\* A response is a group of its own: the messages before it are of earlier steps.
LEMMA ResponseEncoded ==
    ASSUME Types, CacheBound, IsOutline(cache, messages), NEW c \in Int,
           \A m \in 1 .. Len(messages) : messages[m].step < step
    PROVE  IsOutline(Append(cache, [role |-> "assistant", step |-> step]),
                     Append(messages, Assistant(step, c)))
<1>1. /\ messages \in Seq(Message) /\ cache \in Seq(Encoding) /\ step \in Int
      /\ Len(messages) \in Nat
  BY DEF Types, CacheBound
<1>2. PICK group \in Encoding : group = [role |-> "assistant", step |-> step]
  BY <1>1 DEF Encoding
<1>3. Assistant(step, c) \in Message BY <1>1 DEF Assistant, Message
<1>4. PICK more : more = <<Assistant(step, c)>> OBVIOUS
<1>5. /\ more \in Seq(Message) /\ Len(more) = 1 /\ more[1] = Assistant(step, c)
      /\ Append(messages, Assistant(step, c)) = messages \o more
  BY <1>1, <1>3, <1>4, Regroup
<1>6. \A i \in 1 .. Len(more) : [role |-> more[i].role, step |-> more[i].step] = group
  BY <1>2, <1>5 DEF Assistant
<1>7. Len(messages) > 0 => Group(messages, Len(messages)) # group
  <2> SUFFICES ASSUME Len(messages) > 0 PROVE Group(messages, Len(messages)) # group OBVIOUS
  <2>1. Len(messages) \in 1 .. Len(messages) BY <1>1
  <2>2. messages[Len(messages)].step < step BY <2>1
  <2>3. messages[Len(messages)].step # step BY <1>1, <2>2
  <2> QED BY <1>2, <2>3 DEF Group
<1>8. Len(more) > 0 BY <1>5
<1>9. IsOutline(Append(cache, group), messages \o more)
  BY <1>1, <1>2, <1>5, <1>6, <1>7, <1>8, OutlineGrows
<1> QED BY <1>2, <1>5, <1>9

\* So are the results of a response's calls, which follow it, or the one error.
LEMMA ResultsEncoded ==
    ASSUME NEW history \in Seq(Message), NEW encoded \in Seq(Encoding), IsOutline(encoded, history),
           step \in Int, NEW tools \in Seq(Message), Len(tools) > 0,
           \A i \in 1 .. Len(tools) : tools[i].role = "tool" /\ tools[i].step = step,
           Len(history) > 0, history[Len(history)].role = "assistant"
    PROVE  IsOutline(Append(encoded, [role |-> "tool", step |-> step]), history \o tools)
<1>1. PICK group \in Encoding : group = [role |-> "tool", step |-> step] BY DEF Encoding
<1>2. \A i \in 1 .. Len(tools) : [role |-> tools[i].role, step |-> tools[i].step] = group
  BY <1>1
<1>3. Group(history, Len(history)) # group BY <1>1 DEF Group
<1>4. IsOutline(Append(encoded, group), history \o tools) BY <1>2, <1>3, OutlineGrows
<1> QED BY <1>1, <1>4

\* With the next step all that was said is of earlier ones.
LEMMA NowEarlier ==
    ASSUME NEW history \in Seq(Message), NEW tools \in Seq(Message), step \in Int,
           \A m \in 1 .. Len(history) : history[m].step <= step,
           \A i \in 1 .. Len(tools) : tools[i].step = step
    PROVE  \A m \in 1 .. Len(history \o tools) : (history \o tools)[m].step < step + 1
<1>1. PICK a \in Nat : a = Len(history) OBVIOUS
<1>2. PICK b \in Nat : b = Len(tools) OBVIOUS
<1>3. PICK all : all = history \o tools OBVIOUS
<1>4. /\ Len(all) = a + b
      /\ \A m \in 1 .. a + b : all[m] = IF m <= a THEN history[m] ELSE tools[m - a]
  BY <1>1, <1>2, <1>3, ConcatProperties
<1>5. \A m \in 1 .. a : history[m] \in Message BY <1>1, ElementOfSeq
<1>6. \A m \in 1 .. a : history[m].step \in Int BY <1>5 DEF Message
<1>7. ASSUME NEW m \in 1 .. a + b PROVE all[m].step < step + 1
  <2>1. CASE m <= a
    <3>1. m \in 1 .. a BY <1>1, <1>2, <2>1
    <3>2. all[m] = history[m] /\ history[m].step \in Int /\ history[m].step <= step
      BY <1>1, <1>4, <1>6, <2>1, <3>1
    <3> QED BY <3>2
  <2>2. CASE ~ (m <= a)
    <3>1. m - a \in 1 .. b BY <1>1, <1>2, <2>2
    <3>2. all[m] = tools[m - a] /\ tools[m - a].step = step BY <1>2, <1>4, <2>2, <3>1
    <3> QED BY <3>2
  <2> QED BY <2>1, <2>2
<1> QED BY <1>3, <1>4, <1>7

\* What the model says is encoded as it is said.
LEMMA ModelStepCache ==
    ASSUME InteractionInv, BoundInv, CacheInv, Model PROVE CacheInv'
<1> SUFFICES ASSUME ~ mode.structured
             PROVE  /\ pc' = "query" => \A m \in 1 .. Len(messages') : messages'[m].step < step'
                    /\ InCalls' \/ pc' = "commit" =>
                          /\ calls' > 0
                          /\ \A m \in 1 .. Len(messages') - 1 : messages'[m].step < step'
                    /\ pc' # "ended" => IsOutline(cache', messages')
                    /\ pc' = "ended" /\ ~ Raised' => CacheFollowsMessages'
  <2>1. mode' = mode
    BY DEF Model, QueryRaises, TokenLimit, RespondWithoutCalls, RespondWithCalls, Reject
  <2> QED BY <2>1 DEF CacheInv
<1>1. /\ pc = "query" /\ Types /\ step \in Int /\ step \in 1 .. MaxTurns
      /\ messages \in Seq(Message) /\ cache \in Seq(Encoding) /\ CacheBound /\ mode' = mode
  BY DEF Model, QueryRaises, TokenLimit, RespondWithoutCalls, RespondWithCalls, Reject,
         InteractionInv, BoundInv, CountBound, CacheBound, Types
<1>2. IsOutline(cache, messages) /\ \A m \in 1 .. Len(messages) : messages[m].step < step
  BY <1>1 DEF CacheInv
<1>3. Encoded("assistant") = Append(cache, [role |-> "assistant", step |-> step])
  BY DEF Encoded
<1>4. PICK said : said = Append(messages, Assistant(step, 0)) OBVIOUS
<1>5. PICK heard : heard = Append(cache, [role |-> "assistant", step |-> step]) OBVIOUS
<1>6. IsOutline(heard, said)
  <2>1. 0 \in Int OBVIOUS
  <2> QED BY <1>1, <1>2, <1>4, <1>5, <2>1, ResponseEncoded
<1>7. CASE QueryRaises
  <2>1. pc' = "ended" /\ Raised' BY <1>1, <1>7, UnknownErrorIs DEF QueryRaises
  <2> QED BY <2>1 DEF InCalls
<1>8. ASSUME NEW reason \in Done \cap Reasons, EndStep(reason)
      PROVE  /\ pc' = "ended" /\ step' = step /\ Contains(trajectory', reason)
  <2>1. pc' = "ended" /\ step' = step BY <1>8 DEF EndStep
  <2>2. /\ trajectory' \in Seq(Reasons) /\ Len(trajectory) \in Nat
        /\ Len(trajectory') >= Len(trajectory) + 1
        /\ trajectory'[Len(trajectory) + 1] = reason
    BY <1>1, <1>8, EndStepIs DEF Types
  <2>3. Len(trajectory) + 1 \in 1 .. Len(trajectory') BY <2>2
  <2> QED BY <2>1, <2>2, <2>3 DEF Contains
<1>9. CASE TokenLimit
  <2>1. /\ pc' = "ended" /\ step' = step /\ messages' = messages
        /\ Contains(trajectory', "token_limit")
    BY <1>8, <1>9 DEF TokenLimit, Done, Reasons
  <2>2. CASE cache' = cache BY <1>2, <2>1, <2>2 DEF CacheFollowsMessages, InCalls
  <2>3. CASE cache' = Encoded("assistant")
    <3>1. PICK group \in Encoding : group = [role |-> "assistant", step |-> step]
      BY <1>1 DEF Encoding
    <3>2. cache' = Append(cache, group) BY <1>3, <2>3, <3>1
    <3>3. cache' # <<>> /\ Last(cache') = group /\ Front(cache') = cache
      BY <1>1, <3>2 DEF Last, Front
    <3> QED BY <1>2, <2>1, <3>1, <3>3 DEF CacheFollowsMessages, InCalls
  <2> QED BY <1>9, <2>2, <2>3 DEF TokenLimit
<1>10. CASE RespondWithoutCalls
  <2>1. pc' = "ended" BY <1>8, <1>10 DEF RespondWithoutCalls, Done, Reasons
  <2>2. IsOutline(cache', messages')
    BY <1>3, <1>10, <1>4, <1>5, <1>6 DEF RespondWithoutCalls
  <2> QED BY <2>1, <2>2 DEF CacheFollowsMessages, InCalls
<1>11. ASSUME NEW n \in 1 .. MaxCalls, RespondWithCalls(n)
      PROVE  /\ pc' = "acting" /\ calls' > 0 /\ IsOutline(cache', messages')
             /\ \A m \in 1 .. Len(messages') - 1 : messages'[m].step < step'
  <2>1. /\ pc' = "acting" /\ calls' = n /\ step' = step
        /\ messages' = Append(messages, Assistant(step, 0)) /\ cache' = Encoded("assistant")
    BY <1>11 DEF RespondWithCalls
  <2>2. IsOutline(cache', messages') BY <1>3, <1>4, <1>5, <1>6, <2>1
  <2>3. n > 0 BY CallsAssumption
  <2>4. Assistant(step, 0) \in Message BY <1>1 DEF Assistant, Message
  <2>5. /\ Len(messages') - 1 = Len(messages)
        /\ \A m \in 1 .. Len(messages) : messages'[m] = messages[m]
    BY <1>1, <2>1, <2>4
  <2> QED BY <1>2, <2>1, <2>2, <2>3, <2>5
<1>12. ASSUME Reject(0)
      PROVE  /\ pc' \in {"query", "ended"} /\ IsOutline(cache', messages')
             /\ pc' = "query" => \A m \in 1 .. Len(messages') : messages'[m].step < step'
  <2>1. /\ messages' = Append(messages, Assistant(step, 0)) \o <<Tool(step, 0)>>
        /\ cache' = Append(Encoded("assistant"), [role |-> "tool", step |-> step])
        /\ EndStep("format_error")
    BY <1>12 DEF Reject
  <2>2. PICK tools : tools = <<Tool(step, 0)>> OBVIOUS
  <2>3. [role |-> "assistant", step |-> step] \in Encoding BY <1>1 DEF Encoding
  <2>4. heard \in Seq(Encoding) BY <1>1, <1>5, <2>3
  <2>5. Assistant(step, 0) \in Message /\ Tool(step, 0) \in Message
    BY <1>1 DEF Assistant, Tool, Message
  <2>6. /\ said \in Seq(Message) /\ Len(said) = Len(messages) + 1 /\ Len(messages) \in Nat
        /\ said[Len(messages) + 1] = Assistant(step, 0)
        /\ \A m \in 1 .. Len(messages) : said[m] = messages[m]
    BY <1>1, <1>4, <2>5
  <2>7. tools \in Seq(Message) /\ Len(tools) = 1 /\ tools[1] = Tool(step, 0)
    BY <2>2, <2>5
  <2>8. \A i \in 1 .. Len(tools) : tools[i].role = "tool" /\ tools[i].step = step
    BY <2>7 DEF Tool
  <2>9. said[Len(said)].role = "assistant" /\ said[Len(said)].step = step
    BY <2>6 DEF Assistant
  <2>10. Len(said) > 0 /\ Len(tools) > 0 BY <2>6, <2>7
  <2>11. IsOutline(Append(heard, [role |-> "tool", step |-> step]), said \o tools)
    BY <1>1, <1>6, <2>4, <2>6, <2>7, <2>8, <2>9, <2>10, ResultsEncoded
  <2>12. IsOutline(cache', messages') BY <1>3, <1>4, <1>5, <2>1, <2>2, <2>11
  <2>13. pc' \in {"query", "ended"} /\ (pc' = "query" => step' = step + 1)
    BY <1>1, <2>1, EndingBounds
  <2>14. \A k \in 1 .. Len(said) : said[k].step <= step
    <3>1. MessagesBound BY DEF BoundInv
    <3>2. ASSUME NEW k \in 1 .. Len(said) PROVE said[k].step <= step
      <4>1. CASE k \in 1 .. Len(messages)
        <5>1. said[k] = messages[k] /\ messages[k].step \in 1 .. step
          BY <2>6, <3>1, <4>1 DEF MessagesBound
        <5> QED BY <1>1, <5>1
      <4>2. CASE k = Len(messages) + 1 BY <1>1, <2>6, <2>9, <4>2
      <4> QED BY <2>6, <4>1, <4>2
    <3> QED BY <3>2
  <2>15. \A k \in 1 .. Len(said \o tools) : (said \o tools)[k].step < step + 1
    BY <1>1, <2>6, <2>7, <2>8, <2>14, NowEarlier
  <2>16. messages' = said \o tools BY <1>4, <2>1, <2>2
  <2> QED BY <2>12, <2>13, <2>14, <2>15, <2>16
<1>13. ASSUME NEW n \in 0 .. MaxCalls, Reject(n) PROVE n = 0
  <2>1. n \in Nat /\ ~ n > 0 BY <1>13, CallsAssumption DEF Reject
  <2> QED BY <2>1
<1> QED BY <1>7, <1>9, <1>10, <1>11, <1>12, <1>13 DEF Model, CacheFollowsMessages, InCalls

\* While calls are run nothing is said.
LEMMA RunActionCache ==
    ASSUME InteractionInv, BoundInv, CacheInv, RunAction PROVE CacheInv'
<1>1. Types /\ InCalls /\ UNCHANGED <<mode, messages, cache, calls, step>>
  BY DEF RunAction, CommandReturns, CommandRefused, CommandTimesOut, CommandRaises,
         InterruptReturns, InterruptRaises, ProbeAnswered, ProbeGarbled, ProbeRaises, Send,
         InCalls, UnknownError, stepVars, InteractionInv
<1>2. (pc' # "ended" /\ pc' # "query") \/ (pc' = "ended" /\ Raised')
  <2>1. CASE UnknownError BY <1>1, <2>1, UnknownErrorIs
  <2>2. CASE ~ UnknownError
    BY <1>1, <2>2 DEF RunAction, CommandReturns, CommandRefused, CommandTimesOut, CommandRaises,
         InterruptReturns, InterruptRaises, ProbeAnswered, ProbeGarbled, ProbeRaises, Send,
         InCalls, Record
  <2> QED BY <2>1, <2>2
<1>3. pc # "query" /\ pc # "ended" BY <1>1 DEF InCalls
<1> QED BY <1>1, <1>2, <1>3 DEF CacheInv

\* The results of a response's calls are encoded with it.
LEMMA CommitCache ==
    ASSUME InteractionInv, BoundInv, CacheInv, Commit PROVE CacheInv'
<1> SUFFICES ASSUME ~ mode.structured PROVE CacheInv' BY DEF CacheInv, Commit
<1>1. /\ pc = "commit" /\ Types /\ Pending /\ step \in Int /\ step \in 1 .. MaxTurns
      /\ Len(results) = calls /\ calls \in Nat /\ calls > 0 /\ mode' = mode
      /\ messages \in Seq(Message) /\ cache \in Seq(Encoding) /\ IsOutline(cache, messages)
      /\ \A m \in 1 .. Len(messages) - 1 : messages[m].step < step
  BY DEF Commit, InteractionInv, HistoryInv, Types, BoundInv, CountBound, CacheBound, CacheInv
<1>2. PICK tools : tools = [i \in 1 .. calls |-> Tool(step, i)] OBVIOUS
<1>3. \A i \in 1 .. calls : Tool(step, i) \in Message BY <1>1 DEF Tool, Message
<1>4. tools \in Seq(Message) /\ Len(tools) = calls BY <1>1, <1>2, <1>3
<1>5. \A i \in 1 .. calls : tools[i].role = "tool" /\ tools[i].step = step BY <1>2 DEF Tool
<1>6. /\ messages' = messages \o tools
      /\ cache' = Append(cache, [role |-> "tool", step |-> step])
  BY <1>1, <1>2 DEF Commit, Answers, Answered, Encoded
<1>7. /\ Len(messages) > 0 /\ messages[Len(messages)].role = "assistant"
      /\ messages[Len(messages)].step = step
  BY <1>1 DEF Pending
<1>8. IsOutline(cache', messages') BY <1>1, <1>4, <1>5, <1>6, <1>7, ResultsEncoded
<1>9. pc' \in {"query", "ended"} /\ (pc' = "query" => step' = step + 1)
  BY <1>1, EndingBounds DEF Commit
<1>10. \A k \in 1 .. Len(messages) : messages[k].step <= step
  <2>1. \A k \in 1 .. Len(messages) : messages[k].step \in 1 .. step
    BY DEF BoundInv, MessagesBound
  <2> QED BY <1>1, <2>1
<1>11. \A k \in 1 .. Len(messages \o tools) : (messages \o tools)[k].step < step + 1
  BY <1>1, <1>4, <1>5, <1>10, NowEarlier
<1>12. pc' = "query" => \A m \in 1 .. Len(messages') : messages'[m].step < step'
  BY <1>6, <1>9, <1>11
<1> QED BY <1>8, <1>9, <1>12 DEF CacheInv, CacheFollowsMessages, InCalls

LEMMA CacheInit == Init => CacheInv
<1> SUFFICES ASSUME Init PROVE CacheInv OBVIOUS
<1>1. Starts(<<>>, 0) = {} BY DEF Starts
<1>2. IsOutline(<<>>, <<>>) BY <1>1, FS_EmptySet DEF IsOutline, Entry
<1> QED BY <1>2 DEF Init, CacheInv, InCalls

LEMMA CacheStep == InteractionInv /\ BoundInv /\ CacheInv /\ [Next]_vars => CacheInv'
<1> SUFFICES ASSUME InteractionInv, BoundInv, CacheInv, [Next]_vars PROVE CacheInv' OBVIOUS
<1>1. CASE UNCHANGED vars
  BY <1>1 DEF vars, stepVars, CacheInv, InCalls, Raised, CacheFollowsMessages
<1> QED BY <1>1, ModelStepCache, RunActionCache, CommitCache DEF Next

\* The model is trained on what was said: the rollout cache encodes the messages, each
\* response and each group of results once and in order, unless the run was broken off
\* (AgentModel.query and append in interaction/model.py, AgentInteraction.step).
THEOREM TrainedOnWhatWasSaid == Spec => []CacheFollowsMessages
<1>1. CacheInv => CacheFollowsMessages BY DEF CacheInv, CacheFollowsMessages
<1> QED BY <1>1, Safety, Bounded, CacheInit, CacheStep, PTL DEF Spec
=============================================================================
