------------------------------ MODULE HostShell ------------------------------
(***************************************************************************)
(* HostRuntime (deployment/host/deployment.py): commands run in one        *)
(* persistent bash on the host.  run_in_session writes a command and, after*)
(* it, an echo of a marker nobody else knows to bash's stdin, and reads    *)
(* bash's stdout up to the marker; a lock serializes the calls.  A command *)
(* that takes too long is interrupted, and what it still prints is drained *)
(* up to its marker.  Interrupts come from other coroutines at any time,   *)
(* without the lock.                                                       *)
(*                                                                         *)
(* bash and the commands are external, and do what the pipes let them do:  *)
(* a command prints lines, some longer than a StreamReader takes (64 KiB), *)
(* may read what comes after it on stdin and print it, ignore SIGINT,      *)
(* never end, end bash (`exit`), or end without a newline.  It runs in the *)
(* shell itself, whose stderr is its stdout: after `set -x` bash prints    *)
(* the marker in its trace of the echo, after `set -v` the echo as it was  *)
(* written, after `exec >file` nothing.  Background jobs are left out:     *)
(* what they print later is in nobody's output; and echo is taken to be    *)
(* bash's own.                                                             *)
(***************************************************************************)
EXTENDS Integers, Sequences, SequencesExt

CONSTANTS
    Calls,     \* calls of run_in_session with a command
    MaxLines,  \* bound on the lines all commands print
    MaxCuts,   \* bound on cancelled calls
    None

ASSUME NoneAssumption == None \notin Calls
ASSUME LinesAssumption == MaxLines \in Nat
ASSUME CutsAssumption == MaxCuts \in Nat

VARIABLES
    pc,      \* each call: "idle", "waiting", "reading", "draining" or "done"
    result,  \* how it ended, None before
    got,     \* lines collected by _read_until_marker
    lock,    \* the holder of _io_lock
    dead,    \* _dead
    process, \* bash: "running", "exited", "reaped" (its returncode is known)
    job,     \* the command bash runs in the foreground
    stdin,   \* what bash has not read yet
    stdout,  \* what it and its jobs wrote and nobody has read yet
    wrote,   \* history: the lines each command printed
    taken,   \* history: calls whose echo a command has read from stdin
    struck,  \* history: commands interrupted by the timeout of another call
    cuts     \* calls cancelled so far

callVars == <<pc, result, got, lock, dead>>
bashVars == <<process, job, stdin, wrote, taken>>
vars == <<callVars, bashVars, stdout, struck, cuts>>

(* The parts of what a call writes ("command" and "echo"), a line of       *)
(* output, unterminated output ("text"), and a line that holds the marker  *)
(* of a call: "marker" when nothing but an exit code follows it, "garbled" *)
(* when something else does (the echo itself, as it was written).          *)
Item(c, kind) == [of |-> c, kind |-> kind]

(* What a call of run_in_session writes.  The line that saves the exit code*)
(* is part of the command, and what bash traces of it a line it prints.    *)
Wrapped(c) == <<Item(c, "command"), Item(c, "echo")>>

(* create_session has read its own marker.                                 *)
Init ==
    /\ pc = [c \in Calls |-> "idle"]
    /\ result = [c \in Calls |-> None]
    /\ got = [c \in Calls |-> <<>>]
    /\ lock = None /\ dead = FALSE
    /\ process = "running" /\ job = None
    /\ stdin = <<>> /\ stdout = <<>>
    /\ wrote = [c \in Calls |-> <<>>]
    /\ taken = {} /\ struck = {} /\ cuts = 0

-----------------------------------------------------------------------------
(* run_in_session *)

Finish(c, kind, lines) ==
    /\ pc' = [pc EXCEPT ![c] = "done"]
    /\ result' = [result EXCEPT ![c] = [kind |-> kind, lines |-> lines]]
    /\ got' = [got EXCEPT ![c] = <<>>]
    /\ lock' = None

Submit(c) ==
    /\ pc[c] = "idle"
    /\ pc' = [pc EXCEPT ![c] = "waiting"]
    /\ UNCHANGED <<result, got, lock, dead, bashVars, stdout, struck, cuts>>

(* _check_session_alive raises.                                            *)
Refuse(c) ==
    /\ pc[c] = "waiting" /\ lock = None
    /\ dead \/ process = "reaped"
    /\ dead' = TRUE
    /\ Finish(c, "refused", <<>>)
    /\ UNCHANGED <<bashVars, stdout, struck, cuts>>

(* The command and the echo of its marker are written in one piece.        *)
Write(c) ==
    /\ pc[c] = "waiting" /\ lock = None
    /\ ~ dead /\ process # "reaped"
    /\ lock' = c
    /\ pc' = [pc EXCEPT ![c] = "reading"]
    /\ stdin' = IF process = "running" THEN stdin \o Wrapped(c) ELSE stdin
    /\ UNCHANGED <<result, got, dead, process, job, wrote, taken, stdout, struck, cuts>>

(* bash has gone, and writing to it fails.                                 *)
WriteBreaks(c) ==
    /\ pc[c] = "waiting" /\ lock = None
    /\ ~ dead /\ process = "exited"
    /\ Finish(c, "raised", <<>>)
    /\ UNCHANGED <<dead, bashVars, stdout, struck, cuts>>

Reads(c) == pc[c] \in {"reading", "draining"}

(* The first line of stdout ends with its first terminated item.           *)
LineEnd == SelectInSeq(stdout, LAMBDA item : item.kind # "text")
Line == SubSeq(stdout, 1, LineEnd)
Rest == SubSeq(stdout, LineEnd + 1, Len(stdout))

(* Output is for the caller of a command that ended in time.               *)
Return(c, lines) ==
    IF pc[c] = "draining" THEN Finish(c, "timeout", <<>>) ELSE Finish(c, "output", lines)

(* The line that holds the marker ends the output; what stood before it on *)
(* the same line is dropped, and the exit code is what follows it.         *)
ReadMarker(c) ==
    /\ Reads(c) /\ LineEnd > 0
    /\ Last(Line) = Item(c, "marker")
    /\ stdout' = Rest
    /\ Return(c, got[c])
    /\ UNCHANGED <<dead, bashVars, struck, cuts>>

(* What follows it is no exit code: int raises ValueError.                 *)
ReadGarbled(c) ==
    /\ Reads(c) /\ LineEnd > 0
    /\ Last(Line) = Item(c, "garbled")
    /\ stdout' = Rest
    /\ Finish(c, "raised", <<>>)
    /\ UNCHANGED <<dead, bashVars, struck, cuts>>

(* A line without the marker, but maybe with that of another call.         *)
ReadLine(c) ==
    /\ Reads(c) /\ LineEnd > 0
    /\ Last(Line) \notin {Item(c, "marker"), Item(c, "garbled")}
    /\ stdout' = Rest
    /\ got' = IF pc[c] = "draining" THEN got ELSE [got EXCEPT ![c] = @ \o Line]
    /\ UNCHANGED <<pc, result, lock, dead, bashVars, struck, cuts>>

(* readline raises ValueError, for any line or unterminated end may be too *)
(* long; it has dropped it, with the marker on the same line, or as much   *)
(* of it as had arrived.                                                   *)
ReadLong(c) ==
    /\ Reads(c) /\ stdout # <<>>
    /\ Head(stdout).kind \in {"line", "text"}
    /\ stdout' \in {Rest, Tail(stdout), stdout}
    /\ Finish(c, "raised", <<>>)
    /\ UNCHANGED <<dead, bashVars, struck, cuts>>

(* End of file: nobody has the pipe open any more.  What there is counts   *)
(* as the output of a command that ended with 1.                           *)
ReadEof(c) ==
    /\ Reads(c) /\ LineEnd = 0
    /\ process # "running" /\ job = None
    /\ stdout' = <<>>
    /\ Return(c, got[c] \o stdout)
    /\ UNCHANGED <<dead, bashVars, struck, cuts>>

\* Mutant: the next call may come while the command is still running.
TimeOutAtOnce(c) ==
    /\ pc[c] = "reading"
    /\ dead' = (dead \/ process = "reaped")
    /\ Finish(c, "timeout", <<>>)
    /\ UNCHANGED <<bashVars, stdout, struck, cuts>>

\* Mutant: a timeout of a shell that has gone raises without releasing the lock.
TimeOutLocked(c) ==
    /\ pc[c] = "reading"
    /\ pc' = [pc EXCEPT ![c] = IF process = "reaped" THEN "done" ELSE "draining"]
    /\ result' = IF process = "reaped"
                 THEN [result EXCEPT ![c] = [kind |-> "timeout", lines |-> <<>>]]
                 ELSE result
    /\ UNCHANGED <<got, lock, dead, bashVars, stdout, struck, cuts>>

(* CommandTimeoutError: SIGINT to the foreground job, whosever it is, and  *)
(* a second reading up to the marker.                                      *)
TimeOut(c) ==
    /\ pc[c] = "reading"
    /\ IF process = "reaped"
       THEN dead' = TRUE /\ Finish(c, "timeout", <<>>) /\ UNCHANGED struck
       ELSE /\ pc' = [pc EXCEPT ![c] = "draining"]
            /\ struck' = struck \cup ({job} \ {c, None})
            /\ UNCHANGED <<result, got, lock, dead>>
    /\ UNCHANGED <<bashVars, stdout, cuts>>

\* Mutant: interrupts and drains again.
DrainAgain(c) ==
    /\ pc[c] = "draining"
    /\ UNCHANGED vars

(* The marker does not come either: the session is given up.               *)
DrainTimesOut(c) ==
    /\ pc[c] = "draining"
    /\ dead' = TRUE
    /\ Finish(c, "timeout", <<>>)
    /\ UNCHANGED <<bashVars, stdout, struck, cuts>>

(* CancelledError: the lock is released, and nothing else is done.         *)
Cancel(c) ==
    /\ pc[c] \in {"waiting", "reading", "draining"}
    /\ cuts < MaxCuts /\ cuts' = cuts + 1
    /\ pc' = [pc EXCEPT ![c] = "done"]
    /\ result' = [result EXCEPT ![c] =
                     [kind |-> IF pc[c] = "waiting" THEN "cancelled" ELSE "raised", lines |-> <<>>]]
    /\ got' = [got EXCEPT ![c] = <<>>]
    /\ lock' = IF lock = c THEN None ELSE lock
    /\ UNCHANGED <<dead, bashVars, stdout, struck>>

-----------------------------------------------------------------------------
(* bash and its commands *)

BashReads(part) == process = "running" /\ job = None /\ stdin # <<>> /\ Head(stdin).kind = part

StartJob ==
    /\ BashReads("command")
    /\ job' = Head(stdin).of
    /\ stdin' = Tail(stdin)
    /\ UNCHANGED <<callVars, process, wrote, taken, stdout, struck, cuts>>

(* What bash prints for the echo of c: the line as it reads it (set -v, or *)
(* a DEBUG trap), its trace (set -x), and the marker, unless its stdout is *)
(* another by now.                                                         *)
Echoed(c) ==
    {verbose \o trace \o marker : verbose \in {<<>>, <<Item(c, "garbled")>>},
                                 trace \in {<<>>, <<Item(c, "marker")>>},
                                 marker \in {<<>>, <<Item(c, "marker")>>}}

EchoMarker ==
    /\ BashReads("echo")
    /\ \E lines \in Echoed(Head(stdin).of) : stdout' = stdout \o lines
    /\ stdin' = Tail(stdin)
    /\ UNCHANGED <<callVars, process, job, wrote, taken, struck, cuts>>

(* A line of its own; or an echo that was read from stdin, as it stands    *)
(* (`cat`) or carried out (a nested shell).                                *)
JobLines == {Item(job, "line")} \cup {Item(c, kind) : c \in taken, kind \in {"garbled", "marker"}}

JobWrites ==
    /\ job # None /\ MapThenSumSet(LAMBDA c : Len(wrote[c]), Calls) < MaxLines
    /\ \E item \in JobLines :
          /\ wrote' = [wrote EXCEPT ![job] = Append(@, item)]
          /\ stdout' = Append(stdout, item)
    /\ UNCHANGED <<callVars, process, job, stdin, taken, struck, cuts>>

(* A command that reads its stdin takes what was meant for bash.           *)
JobReadsStdin ==
    /\ job # None /\ stdin # <<>>
    /\ stdin' = Tail(stdin)
    /\ taken' = IF Head(stdin).kind = "echo" THEN taken \cup {Head(stdin).of} ELSE taken
    /\ UNCHANGED <<callVars, process, job, wrote, stdout, struck, cuts>>

(* By itself or by a SIGINT of whatever origin, and with or without a      *)
(* newline at the end of its output.                                       *)
JobEnds ==
    /\ job # None
    /\ job' = None
    /\ stdout' \in {stdout, Append(stdout, Item(job, "text"))}
    /\ UNCHANGED <<callVars, process, stdin, wrote, taken, struck, cuts>>

(* bash is told to exit, is killed, or terminated by close, which leaves   *)
(* the foreground job alone.                                               *)
BashExits ==
    /\ process = "running"
    /\ process' = "exited"
    /\ job' \in {job, None}
    /\ stdin' = <<>>
    /\ UNCHANGED <<callVars, wrote, taken, stdout, struck, cuts>>

(* The event loop's child watcher learns of it.                            *)
Reap ==
    /\ process = "exited"
    /\ process' = "reaped"
    /\ UNCHANGED <<callVars, job, stdin, wrote, taken, stdout, struck, cuts>>

-----------------------------------------------------------------------------
Read(c) == ReadMarker(c) \/ ReadGarbled(c) \/ ReadLine(c) \/ ReadLong(c) \/ ReadEof(c)
Enter(c) == Refuse(c) \/ Write(c) \/ WriteBreaks(c)
Call(c) == Submit(c) \/ Enter(c) \/ Read(c) \/ TimeOut(c) \/ DrainTimesOut(c) \/ Cancel(c)

Bash ==
    \/ StartJob \/ EchoMarker \/ JobWrites \/ JobReadsStdin \/ JobEnds \/ BashExits \/ Reap

Next == (\E c \in Calls : Call(c)) \/ Bash

Spec == Init /\ [][Next]_vars

(* asyncio.Lock serves its waiters in turn, and asyncio.timeout fires.     *)
(* Nothing is assumed of bash or of the commands.                          *)
FairSpec ==
    /\ Spec
    /\ \A c \in Calls :
          /\ SF_vars(Enter(c))
          /\ WF_vars(TimeOut(c)) /\ WF_vars(DrainTimesOut(c))

-----------------------------------------------------------------------------
(* Properties *)

Kinds == {"command", "echo", "line", "text", "marker", "garbled"}
IsItems(s) == \A i \in 1 .. Len(s) : s[i] \in [of : Calls, kind : Kinds]

\* Type invariant; the lock is held by the one call that reads, and by no other.
TypeOK ==
    /\ \A c \in Calls :
          /\ pc[c] \in {"idle", "waiting", "reading", "draining", "done"}
          /\ IF pc[c] = "done"
             THEN /\ result[c].kind \in {"output", "timeout", "refused", "raised", "cancelled"}
                  /\ IsItems(result[c].lines)
             ELSE result[c] = None
          /\ IsItems(got[c]) /\ IsItems(wrote[c])
          /\ Reads(c) <=> lock = c
    /\ lock \in Calls \cup {None} /\ job \in Calls \cup {None}
    /\ dead \in BOOLEAN
    /\ process \in {"running", "exited", "reaped"}
    /\ IsItems(stdin) /\ IsItems(stdout)
    /\ taken \subseteq Calls /\ struck \subseteq Calls
    /\ cuts \in 0 .. MaxCuts

Ended(c, kind) == pc[c] = "done" /\ result[c].kind = kind

(* A reading that was cut short, by a cancellation, a line that is too     *)
(* long or a marker that something follows, leaves the rest of its output, *)
(* and its marker, to whoever reads next.                                  *)
CutShort == \E c \in Calls : Ended(c, "raised")

(* A command has read an echo from its stdin and printed it or run it.     *)
Forged ==
    \E c \in Calls : \E i \in 1 .. Len(wrote[c]) : wrote[c][i].kind \in {"marker", "garbled"}

(* What a traced echo leaves: a second marker line, of a call that is over.*)
Stale(c, lines) ==
    \/ lines = <<>>
    \/ \E d \in Calls \ {c} : pc[d] = "done" /\ lines = <<Item(d, "marker")>>

\* Part of NoCrossTalk: between two calls nothing of an earlier command is still to come,
\* neither output nor the command itself, or the session counts as lost ("so the next
\* command sees a clean stream", deployment.py:177); at most the marker of the last call
\* is there a second time, when the shell traces its commands.
CleanBetweenCalls ==
    lock = None /\ ~ dead /\ process = "running" /\ ~ CutShort /\ ~ Forged =>
        stdin = <<>> /\ job = None /\ Stale(None, stdout)

\* Part of NoCrossTalk: what a call returns is what its own command printed, all of its
\* lines in order and no output of another command, after at most one marker line of an
\* earlier call, and with the unterminated last line only when bash has gone without a
\* marker; and the timeout of no other call interrupted it.
OutputIsOwn ==
    ~ CutShort /\ ~ Forged =>
        \A c \in Calls :
            Ended(c, "output") =>
                /\ \E stale \in {<<>>} \cup {<<Item(d, "marker")>> : d \in Calls},
                      text \in {<<>>, <<Item(c, "text")>>} :
                      Stale(c, stale) /\ result[c].lines = stale \o wrote[c] \o text
                /\ c \notin struck

\* Calls of one shell know nothing of each other's commands, also when they hang, take bash
\* down or make it trace: the stream is clean between them but for a marker that a traced
\* echo doubles, and each gets the output of its own, until a reading is cut short or a
\* command forges a marker.
NoCrossTalk == CleanBetweenCalls /\ OutputIsOwn

\* Every call ends, whatever the commands before it do: hang, ignore the interrupt, take
\* the marker away or take bash down.
EveryCallEnds == \A c \in Calls : pc[c] = "waiting" ~> pc[c] = "done"
==============================================================================
