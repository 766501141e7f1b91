----------------------------- MODULE ChatHistory -----------------------------
(***************************************************************************)
(* The lark chat application (app/lark_chat): messages come one after the  *)
(* other; for each, handle_one_message (main.py) loads the chat's history, *)
(* compacts it when it has grown too long, appends the message, has the    *)
(* agent run a turn, and saves what the history has become (transcript.py).*)
(* The process may be stopped at any point, and started again.             *)
(*                                                                         *)
(* A turn is AgentInteraction's run in chat mode, seen by the messages it  *)
(* appends: responses with some calls, answered all at once, unless an     *)
(* exception other than a tool call's ends the run between the two.  Calls *)
(* may also be parsed out of a response's text; then the message of the    *)
(* response does not have them.  The model's API is external: it refuses a *)
(* history in which a call is not answered, or an answer stands alone.  A  *)
(* message is its role, its turn, its calls (or which call it answers) and *)
(* its size in tokens.                                                     *)
(***************************************************************************)
EXTENDS Integers, FiniteSets, SequencesExt, FiniteSetsExt

CONSTANTS
    Chats,
    MaxTokens,    \* history_max_tokens
    TargetTokens, \* history_target_tokens
    MaxSteps,     \* max_steps_per_turn
    Sizes,        \* of a message, for each role
    MaxCalls,     \* bound on the calls of a response
    MaxEvents,    \* bound on the messages received
    None

(* The configuration is refused otherwise (main.py:100).                   *)
ASSUME TokensAssumption ==
    MaxTokens \in Nat \ {0} /\ TargetTokens \in Nat \ {0} /\ TargetTokens <= MaxTokens
Roles == {"system", "user", "assistant", "tool"}

ASSUME SizesAssumption == \A role \in Roles : Sizes[role] \subseteq Nat \ {0}
ASSUME BoundsAssumption == MaxSteps \in Nat \ {0} /\ MaxCalls \in Nat /\ MaxEvents \in Nat
ASSUME NoneAssumption == None \notin Chats

VARIABLES
    file,     \* each chat's transcript, <<>> before the first
    chat,     \* the chat whose message is handled, None between two
    pc,       \* "listening", "querying", "acting" or "saving"
    messages, \* the history in memory
    steps,    \* responses of this turn
    calls,    \* the calls of the last one
    turn,     \* messages received so far
    said,     \* history: each chat's messages of all turns that were saved
    broken    \* history: turns with calls nobody answered, or answers to calls in a text

vars == <<file, chat, pc, messages, steps, calls, turn, said, broken>>

Message(role, t, n, size) == [role |-> role, turn |-> t, calls |-> n, size |-> size]

Init ==
    /\ file = [c \in Chats |-> <<>>]
    /\ chat = None /\ pc = "listening"
    /\ messages = <<>>
    /\ steps = 0 /\ calls = 0 /\ turn = 0
    /\ said = [c \in Chats |-> <<>>]
    /\ broken = {}

-----------------------------------------------------------------------------
(* compact_history *)

Cost(history) ==
    LET cost[n \in 0 .. Len(history)] == IF n = 0 THEN 0 ELSE cost[n - 1] + history[n].size
    IN  cost[Len(history)]

(* Of a history, some of its messages, in its order.                       *)
Only(history, some) ==
    LET only[n \in 0 .. Len(history)] ==
            IF n = 0 THEN <<>>
            ELSE IF history[n] \in some THEN Append(only[n - 1], history[n]) ELSE only[n - 1]
    IN  only[Len(history)]

System(history) == Only(history, {m \in Range(history) : m.role = "system"})
Talk(history) == Only(history, {m \in Range(history) : m.role # "system"})

From(s, i) == SubSeq(s, i, Len(s))

\* Mutant: the history is cut at any message that makes it short enough.
CutsAnywhere(talk) == 1 .. Len(talk)

(* A chunk begins with a user's message.                                   *)
Cuts(talk) == {i \in 1 .. Len(talk) : talk[i].role = "user"}

\* Mutant: the newest chunk must fit as well.
KeepsIfItFits(talk, i, budget) == Cost(From(talk, i)) <= budget

(* The newest chunk is kept whatever its size, earlier ones while they fit.*)
Keeps(talk, i, budget) == i = Max(Cuts(talk)) \/ Cost(From(talk, i)) <= budget

Compact(history) ==
    LET talk == Talk(history)
        budget == Max({0, TargetTokens - Cost(System(history))})
        kept == {i \in Cuts(talk) : Keeps(talk, i, budget)}
    IN  IF Cost(history) <= MaxTokens \/ kept = {}
        THEN history
        ELSE System(history) \o From(talk, Min(kept))

-----------------------------------------------------------------------------
(* handle_one_message *)

(* A file that is missing or cannot be read is no history: the first turn. *)
Receive(c) ==
    /\ pc = "listening" /\ turn < MaxEvents
    /\ turn' = turn + 1
    /\ \E size \in Sizes["user"], system \in Sizes["system"] :
          messages' = Append(IF file[c] = <<>>
                             THEN <<Message("system", 0, 0, system)>>
                             ELSE Compact(file[c]),
                             Message("user", turn', 0, size))
    /\ chat' = c /\ pc' = "querying" /\ steps' = 0 /\ calls' = 0
    /\ UNCHANGED <<file, said, broken>>

-----------------------------------------------------------------------------
(* The turn *)

(* What the API asks of a history: calls are followed by their answers, and*)
(* answers stand nowhere else.                                             *)
Accepted(history) ==
    \A i \in 1 .. Len(history) :
        LET m == history[i]
        IN  /\ m.role = "assistant" =>
                  /\ i + m.calls <= Len(history)
                  /\ \A k \in 1 .. m.calls :
                        /\ history[i + k].role = "tool"
                        /\ history[i + k].turn = m.turn /\ history[i + k].calls = k
            /\ m.role = "tool" =>
                  /\ m.calls < i
                  /\ history[i - m.calls].role = "assistant"
                  /\ m.calls <= history[i - m.calls].calls

\* Mutant: the transcript itself is opened for writing.
EndTurnInPlace == pc' = "saving" /\ file' = [file EXCEPT ![chat] = <<>>]

(* The history is written, beside the transcript.                          *)
EndTurn == pc' = "saving" /\ UNCHANGED file

(* A response, with structured calls or with calls in its text; without    *)
(* calls it ends the turn.                                                 *)
Respond(n) ==
    /\ pc = "querying" /\ Accepted(messages)
    /\ \E structured \in {0, n}, size \in Sizes["assistant"] :
          messages' = Append(messages, Message("assistant", turn, structured, size))
    /\ steps' = steps + 1 /\ calls' = n
    /\ IF n = 0 THEN EndTurn ELSE pc' = "acting" /\ UNCHANGED file
    /\ UNCHANGED <<chat, turn, said, broken>>

(* The API refuses the history, or any other failure of the query.         *)
QueryRaises ==
    /\ pc = "querying"
    /\ EndTurn
    /\ UNCHANGED <<chat, messages, steps, calls, turn, said, broken>>

(* All calls are answered: by their output, as skipped, or by the format   *)
(* error one of them has.  The turn ends with a finish, a lost shell, a    *)
(* spent budget or its last step.                                          *)
Answer ==
    /\ pc = "acting"
    /\ \E size \in Sizes["tool"] :
          messages' = messages \o [k \in 1 .. calls |-> Message("tool", turn, k, size)]
    /\ broken' = IF Last(messages).calls = calls THEN broken ELSE broken \cup {turn}
    /\ \/ steps < MaxSteps /\ pc' = "querying" /\ UNCHANGED file
       \/ EndTurn
    /\ UNCHANGED <<chat, steps, calls, turn, said>>

(* unknown_error between a response and its answers.                       *)
CallRaises ==
    /\ pc = "acting"
    /\ EndTurn
    /\ broken' = IF Last(messages).calls = 0 THEN broken ELSE broken \cup {turn}
    /\ UNCHANGED <<chat, messages, steps, calls, turn, said>>

Forget ==
    /\ chat' = None /\ pc' = "listening"
    /\ messages' = <<>> /\ steps' = 0 /\ calls' = 0

(* What was written takes the transcript's place.                          *)
Save ==
    /\ pc = "saving"
    /\ file' = [file EXCEPT ![chat] = messages]
    /\ said' = [said EXCEPT ![chat] =
                   IF @ = <<>> THEN messages
                   ELSE @ \o Only(messages, {m \in Range(messages) : m.turn = turn})]
    /\ Forget
    /\ UNCHANGED <<turn, broken>>

(* The process ends: no `except Exception` sees it, and nothing is saved.  *)
Crash ==
    /\ pc # "listening"
    /\ Forget
    /\ UNCHANGED <<file, turn, said, broken>>

-----------------------------------------------------------------------------
Turn == (\E n \in 0 .. MaxCalls : Respond(n)) \/ QueryRaises \/ Answer \/ CallRaises

Next == (\E c \in Chats : Receive(c)) \/ Turn \/ Save \/ Crash

Spec == Init /\ [][Next]_vars

-----------------------------------------------------------------------------
(* Properties *)

\* What the model is asked is a history the API accepts, however often it was compacted,
\* but for broken turns: those aside it is one, and once they are compacted away it is
\* one again (main.py:279: chunks are atomic).
RequestsAreAccepted ==
    pc = "querying" =>
        Accepted(Only(messages, {m \in Range(messages) : m.turn \notin broken}))

\* What a history was when its last turn began.
Before(history) == Only(history, {m \in Range(history) : m.turn < Last(history).turn})

\* Part of HistoryIsRecent: a transcript is the system message and the end of what was
\* said, from a user's message on; and all of it, as long as it never was too long.
NothingForgotten ==
    \A c \in Chats : said[c] # <<>> =>
        LET whole == Talk(said[c])
            talk == Talk(file[c])
        IN  /\ System(file[c]) = System(said[c])
            /\ Len(talk) \in 1 .. Len(whole)
            /\ talk = From(whole, Len(whole) - Len(talk) + 1)
            /\ talk[1].role = "user"
            /\ Cost(Before(said[c])) <= MaxTokens => file[c] = said[c]

\* Part of HistoryIsRecent: a turn begins with no more tokens than the limit, or with the
\* one turn that is always kept; or with the system message alone, if that is too long.
NothingHoarded ==
    \A c \in Chats :
        Cost(Before(file[c])) > MaxTokens => Cardinality(Cuts(Talk(Before(file[c])))) <= 1

\* Whatever turns fail and whenever the process stops, a chat's transcript is the recent
\* part of what was said: nothing of it is lost and nothing kept for longer than the
\* limits allow.
HistoryIsRecent == NothingForgotten /\ NothingHoarded
==============================================================================
