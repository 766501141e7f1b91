---------------------------- MODULE HostShellProofs ----------------------------
(***************************************************************************)
(* Theorems about HostShell for every number of calls and of lines, with   *)
(* proofs checked by TLAPS.                                                *)
(***************************************************************************)
EXTENDS HostShell, SequenceTheorems, WellFoundedInduction, TLAPS

-----------------------------------------------------------------------------
(* The inductive invariant *)

Items == [of : Calls, kind : Kinds]
Results == [kind : {"output", "timeout", "refused", "raised", "cancelled"}, lines : Seq(Items)]

ShellType ==
    /\ pc \in [Calls -> {"idle", "waiting", "reading", "draining", "done"}]
    /\ got \in [Calls -> Seq(Items)] /\ wrote \in [Calls -> Seq(Items)]
    /\ DOMAIN result = Calls
    /\ \A c \in Calls : IF pc[c] = "done" THEN result[c] \in Results ELSE result[c] = None
    /\ lock \in Calls \cup {None} /\ job \in Calls \cup {None}
    /\ dead \in BOOLEAN
    /\ process \in {"running", "exited", "reaped"}
    /\ stdin \in Seq(Items) /\ stdout \in Seq(Items)
    /\ taken \subseteq Calls /\ struck \subseteq Calls
    /\ cuts \in 0 .. MaxCuts

(* Neither the shell nor its stdin has to do with the command of a call.   *)
Absent(c) == job # c /\ \A i \in 1 .. Len(stdin) : stdin[i].of # c

(* Who reads holds the lock, of a session that is not lost; who has not yet*)
(* written anything has printed nothing; a command prints lines.           *)
CallInv ==
    /\ \A c \in Calls :
          /\ Reads(c) <=> lock = c
          /\ pc[c] \in {"idle", "waiting"} => Absent(c) /\ wrote[c] = <<>> /\ got[c] = <<>>
          /\ \A i \in 1 .. Len(wrote[c]) : wrote[c][i].kind \in {"line", "marker", "garbled"}
    /\ lock # None => ~ dead
    /\ process # "running" => stdin = <<>>

(* What is still to be run of the command of c: all of it, its marker, or  *)
(* nothing.                                                                *)
Unread(c) ==
    /\ Len(stdin) \in 0 .. 2 /\ job \in {c, None}
    /\ Len(stdin) > 0 => stdin[Len(stdin)] = Item(c, "echo")
    /\ Len(stdin) = 2 => stdin[1] = Item(c, "command") /\ job = None /\ wrote[c] = <<>>

(* The unterminated end of what a command prints.                          *)
Texts(c) == {<<>>, <<Item(c, "text")>>}

(* Of a stale line and all that c has printed, something has been read and *)
(* the rest is left in the pipe; after it the end of its output and what   *)
(* bash prints for the echo, once the command is over.                     *)
Flow(c, read, left, stale, text, lines) ==
    /\ Stale(c, stale)
    /\ stale \o wrote[c] = read \o left
    /\ stdout = left \o (text \o lines)
    /\ text # <<>> => job = None /\ Len(stdin) < 2
    /\ lines # <<>> => job = None /\ stdin = <<>>
    /\ pc[c] = "reading" => got[c] = read

InFlow(c) ==
    /\ Unread(c)
    /\ \E read, left, stale \in Seq(Items), text \in Texts(c), lines \in Echoed(c) :
          Flow(c, read, left, stale, text, lines)

Between == stdin = <<>> /\ job = None /\ Stale(None, stdout)

(* What a call returned is what it printed, and it prints no more.         *)
Settled(c) ==
    /\ Absent(c)
    /\ \E stale \in Seq(Items), text \in Texts(c) :
          Stale(c, stale) /\ result[c].lines = stale \o wrote[c] \o text

StreamInv ==
    ~ CutShort /\ ~ Forged =>
        /\ struck = {}
        /\ lock = None /\ ~ dead => Between
        /\ \A c \in Calls : lock = c => InFlow(c)
        /\ \A c \in Calls : Ended(c, "output") => Settled(c)

ShellInv == ShellType /\ CallInv /\ StreamInv

-----------------------------------------------------------------------------
(* Lines *)

\* A set of natural numbers has a least element.
LEMMA Least ==
    ASSUME NEW S, S \subseteq Nat, S # {}
    PROVE  \E m \in S : \A n \in S : m <= n
<1>1. PICK m \in S : \A n \in S : <<n, m>> \notin OpToRel(<, Nat)
  BY NatLessThanWellFounded, WFMin
<1>2. \A n \in S : ~ (n < m) BY <1>1 DEF OpToRel
<1> QED BY <1>2

\* Two sequences one after the other.
LEMMA Joined ==
    ASSUME NEW S, NEW s \in Seq(S), NEW t \in Seq(S)
    PROVE  /\ s \o t \in Seq(S) /\ Len(s) \in Nat /\ Len(t) \in Nat
           /\ Len(s \o t) = Len(s) + Len(t)
           /\ \A i \in 1 .. Len(s) : (s \o t)[i] = s[i]
           /\ \A i \in (Len(s) + 1) .. (Len(s) + Len(t)) : (s \o t)[i] = t[i - Len(s)]
OBVIOUS

Regrouped(s, t, u) == (s \o t) \o u = s \o (t \o u)

\* Concatenation is associative.
LEMMA Regroup ==
    ASSUME NEW s \in Seq(Items), NEW t \in Seq(Items), NEW u \in Seq(Items)
    PROVE  Regrouped(s, t, u)
BY ConcatAssociative DEF Regrouped

\* A line ends with the first item that is terminated, if there is one.
LEMMA LineEndIs ==
    ASSUME stdout \in Seq(Items)
    PROVE  /\ LineEnd \in 0 .. Len(stdout)
           /\ LineEnd = 0 => \A i \in 1 .. Len(stdout) : stdout[i].kind = "text"
           /\ LineEnd > 0 =>
                 /\ stdout[LineEnd].kind # "text"
                 /\ \A i \in 1 .. (LineEnd - 1) : stdout[i].kind = "text"
<1> DEFINE I == {i \in 1 .. Len(stdout) : stdout[i].kind # "text"}
<1>1. LineEnd = IF I # {} THEN Min(I) ELSE 0 BY DEF LineEnd, SelectInSeq
<1>2. \A i : i \in I <=> i \in 1 .. Len(stdout) /\ stdout[i].kind # "text" OBVIOUS
<1>3. I \subseteq Nat BY <1>2
<1> HIDE DEF I
<1>4. CASE I = {}
  <2>1. LineEnd = 0 BY <1>1, <1>4
  <2> QED BY <2>1, <1>2, <1>4
<1>5. CASE I # {}
  <2>1. PICK m \in I : \A n \in I : m <= n BY <1>3, <1>5, Least
  <2>2. Min(I) \in I /\ \A n \in I : Min(I) <= n BY <2>1 DEF Min
  <2>3. LineEnd \in I /\ \A n \in I : LineEnd <= n BY <1>1, <1>5, <2>2
  <2>4. LineEnd \in 1 .. Len(stdout) /\ stdout[LineEnd].kind # "text" BY <2>3, <1>2
  <2>5. ASSUME NEW i \in 1 .. (LineEnd - 1) PROVE stdout[i].kind = "text"
    <3>1. i \in 1 .. Len(stdout) /\ i < LineEnd BY <2>4
    <3>2. i \notin I BY <3>1, <2>3, <1>3, <2>4
    <3> QED BY <3>1, <3>2, <1>2
  <2> QED BY <2>4, <2>5
<1> QED BY <1>4, <1>5

\* The line and the rest of the pipe.
LEMMA LineIs ==
    ASSUME stdout \in Seq(Items), LineEnd > 0
    PROVE  /\ Line \in Seq(Items) /\ Len(Line) = LineEnd /\ Last(Line) = stdout[LineEnd]
           /\ \A i \in 1 .. LineEnd : Line[i] = stdout[i]
           /\ Rest \in Seq(Items) /\ Len(Rest) = Len(stdout) - LineEnd
           /\ \A i \in 1 .. (Len(stdout) - LineEnd) : Rest[i] = stdout[LineEnd + i]
<1>1. LineEnd \in 1 .. Len(stdout) BY LineEndIs
<1>2. /\ Line \in Seq(Items) /\ Len(Line) = LineEnd
      /\ \A i \in 1 .. LineEnd : Line[i] = stdout[i]
  BY <1>1 DEF Line
<1>3. Last(Line) = stdout[LineEnd] BY <1>1, <1>2 DEF Last
<1>4. /\ Rest \in Seq(Items) /\ Len(Rest) = Len(stdout) - LineEnd
      /\ \A i \in 1 .. (Len(stdout) - LineEnd) : Rest[i] = stdout[LineEnd + i]
  BY <1>1 DEF Rest
<1> QED BY <1>2, <1>3, <1>4

-----------------------------------------------------------------------------
(* Items *)

\* An item has the call and the kind it is made of.
LEMMA ItemIs ==
    ASSUME NEW c \in Calls, NEW kind \in Kinds
    PROVE  Item(c, kind) \in Items /\ Item(c, kind).of = c /\ Item(c, kind).kind = kind
BY DEF Items, Item

\* What bash prints for an echo: nothing; or the marker once or twice; or first the line it
\* has read.
LEMMA EchoedIs ==
    ASSUME NEW c \in Calls, NEW lines \in Echoed(c)
    PROVE  /\ lines \in Seq(Items)
           /\ lines # <<>> =>
                 \/ Head(lines) = Item(c, "garbled")
                 \/ /\ Head(lines) = Item(c, "marker")
                    /\ Tail(lines) \in {<<>>, <<Item(c, "marker")>>}
<1>1. PICK m, g : m = Item(c, "marker") /\ g = Item(c, "garbled") OBVIOUS
<1>2. m \in Items /\ g \in Items
  <2>1. "marker" \in Kinds /\ "garbled" \in Kinds BY DEF Kinds
  <2> QED BY <1>1, <2>1, ItemIs
<1>3. PICK verbose \in {<<>>, <<g>>}, trace \in {<<>>, <<m>>}, marker \in {<<>>, <<m>>} :
          lines = verbose \o trace \o marker
  BY <1>1 DEF Echoed
<1>4. PICK both : both = trace \o marker OBVIOUS
<1>5. /\ both \in Seq(Items)
      /\ both # <<>> => Head(both) = m /\ Tail(both) \in {<<>>, <<m>>}
  <2>1. CASE trace = <<>> /\ marker = <<>> BY <1>4, <2>1
  <2>2. CASE trace = <<>> /\ marker = <<m>> BY <1>2, <1>4, <2>2
  <2>3. CASE trace = <<m>> /\ marker = <<>> BY <1>2, <1>4, <2>3
  <2>4. CASE trace = <<m>> /\ marker = <<m>>
    <3>1. <<m>> \in Seq(Items) /\ Len(<<m>>) = 1 /\ <<m>>[1] = m BY <1>2
    <3>2. both = <<m>> \o <<m>> BY <1>4, <2>4
    <3>3. both \in Seq(Items) /\ Len(both) = 2 /\ both[1] = m /\ both[2] = m
      BY <3>1, <3>2
    <3>4. Head(both) = m BY <3>3
    <3>5. Tail(both) \in Seq(Items) /\ Len(Tail(both)) = 1 /\ Tail(both)[1] = m BY <3>3
    <3>6. Tail(both) = <<m>>
      <4>1. PICK t \in Seq(Items) : t = Tail(both) BY <3>5
      <4>2. Len(t) = 1 /\ t[1] = m BY <3>5, <4>1
      <4>3. t = <<m>> BY <4>2
      <4> QED BY <4>1, <4>3
    <3> QED BY <3>3, <3>4, <3>6
  <2> QED BY <1>3, <2>1, <2>2, <2>3, <2>4
<1>6. lines = verbose \o both
  <2>1. <<>> \in Seq(Items) /\ <<m>> \in Seq(Items) /\ <<g>> \in Seq(Items) BY <1>2
  <2>2. verbose \in Seq(Items) /\ trace \in Seq(Items) /\ marker \in Seq(Items) BY <1>3, <2>1
  <2>3. Regrouped(verbose, trace, marker) BY <2>2, Regroup
  <2> QED BY <1>3, <1>4, <2>3 DEF Regrouped
<1>7. CASE verbose = <<>>
  <2>1. lines = both BY <1>5, <1>6, <1>7
  <2> QED BY <1>1, <1>5, <2>1
<1>8. CASE verbose = <<g>>
  <2>1. lines \in Seq(Items) /\ Head(lines) = g BY <1>2, <1>5, <1>6, <1>8
  <2> QED BY <1>1, <2>1
<1> QED BY <1>3, <1>7, <1>8

\* What a command prints.
LEMMA JobLinesAre ==
    ASSUME job \in Calls, taken \subseteq Calls, NEW item \in JobLines
    PROVE  item \in Items /\ item.kind \in {"line", "marker", "garbled"}
<1>1. "line" \in Kinds /\ "marker" \in Kinds /\ "garbled" \in Kinds BY DEF Kinds
<1>2. CASE item = Item(job, "line") BY <1>1, <1>2, ItemIs
<1>3. CASE item # Item(job, "line")
  <2>1. PICK c \in taken, kind \in {"garbled", "marker"} : item = Item(c, kind)
    BY <1>3 DEF JobLines
  <2> QED BY <1>1, <2>1, ItemIs
<1> QED BY <1>2, <1>3

-----------------------------------------------------------------------------
(* Types *)

\* What a call ends with.
LEMMA FinishType ==
    ASSUME ShellType, NEW c \in Calls, NEW kind, NEW lines \in Seq(Items),
           kind \in {"output", "timeout", "refused", "raised", "cancelled"},
           Finish(c, kind, lines)
    PROVE  /\ pc' \in [Calls -> {"idle", "waiting", "reading", "draining", "done"}]
           /\ got' \in [Calls -> Seq(Items)] /\ DOMAIN result' = Calls /\ lock' = None
           /\ \A d \in Calls : IF pc'[d] = "done" THEN result'[d] \in Results
                                                  ELSE result'[d] = None
BY DEF ShellType, Finish, Results

\* Every step keeps the types.
LEMMA TypeStep == ShellType /\ [Next]_vars => ShellType'
<1> SUFFICES ASSUME ShellType, [Next]_vars PROVE ShellType'
  OBVIOUS
<1>1. ASSUME NEW c \in Calls, Submit(c) PROVE ShellType'
  BY <1>1 DEF Submit, ShellType, bashVars
<1>2. ASSUME NEW c \in Calls, Refuse(c) \/ WriteBreaks(c) PROVE ShellType'
  <2>1. <<>> \in Seq(Items) OBVIOUS
  <2>2. dead' \in BOOLEAN /\ UNCHANGED <<bashVars, stdout, struck, cuts>>
    BY <1>2 DEF Refuse, WriteBreaks, ShellType
  <2>3. Finish(c, "refused", <<>>) \/ Finish(c, "raised", <<>>)
    BY <1>2 DEF Refuse, WriteBreaks
  <2> QED BY <2>1, <2>2, <2>3, FinishType DEF ShellType, bashVars
<1>3. ASSUME NEW c \in Calls, Write(c) PROVE ShellType'
  <2>1. Wrapped(c) \in Seq(Items) BY DEF Wrapped, Items, Item, Kinds
  <2>2. stdin' \in Seq(Items) BY <1>3, <2>1 DEF Write, ShellType
  <2> QED BY <1>3, <2>2 DEF Write, ShellType
<1>4. ASSUME NEW c \in Calls, Read(c) PROVE ShellType'
  <2>1. ASSUME NEW lines \in Seq(Items), Return(c, lines) \/ Finish(c, "raised", <<>>),
               stdout' \in Seq(Items), UNCHANGED <<dead, bashVars, struck, cuts>>
        PROVE  ShellType'
    <3>1. <<>> \in Seq(Items) OBVIOUS
    <3>2. \/ Finish(c, "timeout", <<>>) \/ Finish(c, "output", lines)
          \/ Finish(c, "raised", <<>>)
      BY <2>1 DEF Return
    <3> QED BY <2>1, <3>1, <3>2, FinishType DEF ShellType, bashVars
  <2>2. CASE ReadMarker(c)
    <3>1. got[c] \in Seq(Items) BY DEF ShellType
    <3>2. stdout' \in Seq(Items) BY <2>2, LineIs DEF ReadMarker, ShellType
    <3> QED BY <2>1, <2>2, <3>1, <3>2 DEF ReadMarker
  <2>3. CASE ReadGarbled(c)
    <3>1. <<>> \in Seq(Items) /\ Rest \in Seq(Items) BY <2>3, LineIs DEF ReadGarbled, ShellType
    <3> QED BY <2>1, <2>3, <3>1 DEF ReadGarbled
  <2>4. CASE ReadLine(c)
    <3>1. Line \in Seq(Items) /\ Rest \in Seq(Items) BY <2>4, LineIs DEF ReadLine, ShellType
    <3>2. got[c] \o Line \in Seq(Items) BY <3>1 DEF ShellType
    <3> QED BY <2>4, <3>1, <3>2 DEF ReadLine, ShellType, bashVars
  <2>5. CASE ReadLong(c)
    <3>1. stdout \in Seq(Items) /\ stdout # <<>> BY <2>5 DEF ReadLong, ShellType
    <3>2. Rest \in Seq(Items) /\ Tail(stdout) \in Seq(Items)
      <4>1. LineEnd \in 0 .. Len(stdout) BY <3>1, LineEndIs
      <4>2. SubSeq(stdout, LineEnd + 1, Len(stdout)) \in Seq(Items) BY <3>1, <4>1
      <4> QED BY <3>1, <4>2 DEF Rest
    <3>3. <<>> \in Seq(Items) OBVIOUS
    <3> QED BY <2>1, <2>5, <3>1, <3>2, <3>3 DEF ReadLong
  <2>6. CASE ReadEof(c)
    <3>1. got[c] \o stdout \in Seq(Items) /\ <<>> \in Seq(Items) BY DEF ShellType
    <3> QED BY <2>1, <2>6, <3>1 DEF ReadEof
  <2> QED BY <1>4, <2>2, <2>4, <2>5, <2>6, <2>3 DEF Read
<1>5. ASSUME NEW c \in Calls, TimeOut(c) \/ DrainTimesOut(c) PROVE ShellType'
  <2>1. <<>> \in Seq(Items) OBVIOUS
  <2>2. CASE Finish(c, "timeout", <<>>)
    <3>1. dead' \in BOOLEAN /\ struck' \subseteq Calls /\ UNCHANGED <<bashVars, stdout, cuts>>
      BY <1>5 DEF TimeOut, DrainTimesOut, ShellType
    <3> QED BY <2>1, <2>2, <3>1, FinishType DEF ShellType, bashVars
  <2>3. CASE ~ Finish(c, "timeout", <<>>)
    BY <1>5, <2>3 DEF TimeOut, DrainTimesOut, ShellType, bashVars
  <2> QED BY <2>2, <2>3
<1>6. ASSUME NEW c \in Calls, Cancel(c) PROVE ShellType'
  <2>1. [kind |-> IF pc[c] = "waiting" THEN "cancelled" ELSE "raised", lines |-> <<>>] \in Results
    BY DEF Results
  <2>2. cuts' \in 0 .. MaxCuts BY <1>6, CutsAssumption DEF Cancel, ShellType
  <2> QED BY <1>6, <2>1, <2>2 DEF Cancel, ShellType, bashVars
<1>7. CASE Bash
  <2>1. stdin # <<>> => Head(stdin) \in Items /\ Tail(stdin) \in Seq(Items) BY DEF ShellType
  <2>2. CASE StartJob \/ JobReadsStdin \/ BashExits \/ Reap
    <3>1. CASE StartJob
      <4>1. stdin # <<>> BY <3>1 DEF StartJob, BashReads
      <4>2. Head(stdin).of \in Calls BY <2>1, <4>1 DEF Items
      <4> QED BY <2>1, <3>1, <4>1, <4>2 DEF StartJob, ShellType, callVars
    <3>2. CASE JobReadsStdin
      <4>1. Head(stdin).of \in Calls BY <2>1, <3>2 DEF JobReadsStdin, Items
      <4>2. taken' \subseteq Calls BY <3>2, <4>1 DEF JobReadsStdin, ShellType
      <4> QED BY <2>1, <3>2, <4>2 DEF JobReadsStdin, ShellType, callVars
    <3>3. CASE BashExits
      <4>1. <<>> \in Seq(Items) OBVIOUS
      <4> QED BY <3>3, <4>1 DEF BashExits, ShellType, callVars
    <3>4. CASE Reap BY <3>4 DEF Reap, ShellType, callVars
    <3> QED BY <2>2, <3>1, <3>2, <3>3, <3>4
  <2>3. CASE EchoMarker
    <3>1. Head(stdin).of \in Calls /\ Tail(stdin) \in Seq(Items)
      BY <2>1, <2>3 DEF EchoMarker, BashReads, Items
    <3>2. PICK lines \in Echoed(Head(stdin).of) : stdout' = stdout \o lines
      BY <2>3 DEF EchoMarker
    <3>3. lines \in Seq(Items) BY <3>1, EchoedIs
    <3>4. stdout' \in Seq(Items) BY <3>2, <3>3 DEF ShellType
    <3> QED BY <2>3, <3>1, <3>4 DEF EchoMarker, ShellType, callVars
  <2>4. CASE JobEnds
    <3>1. Item(job, "text") \in Items BY <2>4 DEF JobEnds, ShellType, Items, Item, Kinds
    <3>2. stdout \in Seq(Items) BY DEF ShellType
    <3>3. Append(stdout, Item(job, "text")) \in Seq(Items) BY <3>1, <3>2
    <3> HIDE DEF Items
    <3> QED BY <2>4, <3>2, <3>3 DEF JobEnds, ShellType, callVars
  <2>5. CASE JobWrites
    <3>1. PICK item \in JobLines : /\ wrote' = [wrote EXCEPT ![job] = Append(@, item)]
                                  /\ stdout' = Append(stdout, item)
      BY <2>5 DEF JobWrites
    <3>2. job \in Calls /\ wrote[job] \in Seq(Items) /\ stdout \in Seq(Items)
      BY <2>5 DEF JobWrites, ShellType
    <3>3. taken \subseteq Calls BY DEF ShellType
    <3>4. item \in Items BY <3>2, <3>3, JobLinesAre
    <3>5. Append(wrote[job], item) \in Seq(Items) /\ Append(stdout, item) \in Seq(Items)
      BY <3>2, <3>4
    <3> QED BY <2>5, <3>1, <3>2, <3>5 DEF JobWrites, ShellType, callVars
  <2> QED BY <1>7, <2>2, <2>3, <2>4, <2>5 DEF Bash
<1>8. CASE UNCHANGED vars BY <1>8 DEF vars, callVars, bashVars, ShellType
<1> QED BY <1>1, <1>2, <1>3, <1>4, <1>5, <1>6, <1>7, <1>8 DEF Next, Call, Enter

-----------------------------------------------------------------------------
(* Calls *)

\* What bash and its jobs do takes up no command of a call that has not been written.
LEMMA StaysAbsent ==
    ASSUME ShellType, NEW c \in Calls, Absent(c),
           job' \in {job, None} \/ (stdin # <<>> /\ job' = Head(stdin).of),
           stdin' \in {stdin, <<>>} \/ (stdin # <<>> /\ stdin' = Tail(stdin))
    PROVE  Absent(c)'
<1>1. job' # c
  <2>1. c # None BY NoneAssumption
  <2>2. stdin # <<>> => Head(stdin) = stdin[1] /\ 1 \in 1 .. Len(stdin) BY DEF ShellType
  <2> QED BY <2>1, <2>2 DEF Absent
<1>2. ASSUME NEW i \in 1 .. Len(stdin') PROVE stdin'[i].of # c
  <2>1. CASE stdin' = stdin BY <2>1, <1>2 DEF Absent
  <2>2. CASE stdin' = <<>> BY <2>2, <1>2
  <2>3. CASE stdin # <<>> /\ stdin' = Tail(stdin)
    <3>1. stdin'[i] = stdin[i + 1] /\ i + 1 \in 1 .. Len(stdin) BY <1>2, <2>3 DEF ShellType
    <3> QED BY <3>1 DEF Absent
  <2> QED BY <2>1, <2>2, <2>3
<1> QED BY <1>1, <1>2 DEF Absent

\* A call writes its own command only.
LEMMA WriteAbsent ==
    ASSUME ShellType, NEW c \in Calls, NEW d \in Calls, d # c, Write(c), Absent(d)
    PROVE  Absent(d)'
<1>1. UNCHANGED job BY DEF Write
<1>2. CASE process # "running" BY <1>1, <1>2 DEF Write, Absent
<1>3. CASE process = "running"
  <2>1. stdin' = stdin \o Wrapped(c) BY <1>3 DEF Write
  <2>2. Wrapped(c) \in Seq(Items) /\ Len(Wrapped(c)) = 2 BY DEF Wrapped, Items, Item, Kinds
  <2>3. \A i \in 1 .. 2 : Wrapped(c)[i].of = c BY DEF Wrapped, Item
  <2>4. stdin \in Seq(Items) BY DEF ShellType
  <2>5. /\ Len(stdin) \in Nat /\ Len(stdin') = Len(stdin) + 2
        /\ \A i \in 1 .. Len(stdin) : stdin'[i] = stdin[i]
        /\ \A i \in (Len(stdin) + 1) .. (Len(stdin) + 2) :
              stdin'[i] = Wrapped(c)[i - Len(stdin)]
    <3> DEFINE W == Wrapped(c)
    <3>1. W \in Seq(Items) /\ Len(W) = 2 /\ stdin' = stdin \o W BY <2>1, <2>2
    <3> HIDE DEF W
    <3>2. /\ Len(stdin) \in Nat /\ Len(stdin \o W) = Len(stdin) + Len(W)
          /\ \A i \in 1 .. Len(stdin) : (stdin \o W)[i] = stdin[i]
          /\ \A i \in (Len(stdin) + 1) .. (Len(stdin) + Len(W)) :
                (stdin \o W)[i] = W[i - Len(stdin)]
      BY <3>1, <2>4, Joined
    <3>3. /\ Len(stdin) \in Nat /\ Len(stdin \o W) = Len(stdin) + 2
          /\ \A i \in 1 .. Len(stdin) : (stdin \o W)[i] = stdin[i]
          /\ \A i \in (Len(stdin) + 1) .. (Len(stdin) + 2) :
                (stdin \o W)[i] = W[i - Len(stdin)]
      BY <3>1, <3>2
    <3> QED BY <3>1, <3>3 DEF W
  <2>6. ASSUME NEW i \in 1 .. Len(stdin') PROVE stdin'[i].of # d
    <3>1. CASE i <= Len(stdin)
      <4>1. i \in 1 .. Len(stdin) /\ stdin'[i] = stdin[i] BY <2>5, <3>1
      <4> QED BY <4>1 DEF Absent
    <3>2. CASE i > Len(stdin)
      <4>1. i \in (Len(stdin) + 1) .. (Len(stdin) + 2) BY <3>2, <2>5
      <4>2. i - Len(stdin) \in 1 .. 2 BY <2>5, <4>1
      <4> QED BY <4>1, <4>2, <2>3, <2>5, d # c
    <3> QED BY <2>5, <3>1, <3>2
  <2> QED BY <1>1, <2>6 DEF Absent
<1> QED BY <1>2, <1>3

\* A call that ends gives up the lock.
LEMMA FinishCall ==
    ASSUME ShellType, CallInv, NEW c \in Calls, NEW kind, NEW lines,
           lock \in {c, None}, Finish(c, kind, lines), UNCHANGED bashVars
    PROVE  CallInv'
<1>1. pc' = [pc EXCEPT ![c] = "done"] /\ got' = [got EXCEPT ![c] = <<>>] /\ lock' = None
  BY DEF Finish
<1>2. UNCHANGED <<process, job, stdin, wrote>> BY DEF bashVars
<1>3. ASSUME NEW d \in Calls
      PROVE  /\ Reads(d)' <=> lock' = d
             /\ pc'[d] \in {"idle", "waiting"} => Absent(d)' /\ wrote'[d] = <<>> /\ got'[d] = <<>>
             /\ \A i \in 1 .. Len(wrote'[d]) :
                   wrote'[d][i].kind \in {"line", "marker", "garbled"}
  <2>1. ~ Reads(d)' /\ lock' # d
    BY <1>1, NoneAssumption DEF ShellType, CallInv, Reads
  <2>2. pc'[d] \in {"idle", "waiting"} => d # c /\ pc'[d] = pc[d] /\ got'[d] = got[d]
    BY <1>1 DEF ShellType
  <2> QED BY <1>2, <2>1, <2>2 DEF CallInv, Absent
<1> QED BY <1>1, <1>2, <1>3 DEF CallInv

\* A call keeps the lock, and the others have nothing to do with it.
LEMMA CallStep == ShellType /\ CallInv /\ [Next]_vars => CallInv'
<1> SUFFICES ASSUME ShellType, CallInv, [Next]_vars PROVE CallInv'
  OBVIOUS
<1> USE NoneAssumption
<1>1. ASSUME NEW c \in Calls, Submit(c) PROVE CallInv'
  <2>1. UNCHANGED <<got, lock, dead, process, job, stdin, wrote>> BY <1>1 DEF Submit, bashVars
  <2>2. pc' = [pc EXCEPT ![c] = "waiting"] /\ pc[c] = "idle" BY <1>1 DEF Submit
  <2>3. \A d \in Calls : /\ Reads(d)' <=> Reads(d)
                        /\ pc'[d] \in {"idle", "waiting"} <=> pc[d] \in {"idle", "waiting"}
    BY <2>2 DEF ShellType, Reads
  <2>4. \A d \in Calls : Absent(d)' <=> Absent(d) BY <2>1 DEF Absent
  <2>5. ASSUME NEW d \in Calls
        PROVE  /\ Reads(d)' <=> lock' = d
               /\ pc'[d] \in {"idle", "waiting"} => Absent(d)' /\ wrote'[d] = <<>> /\ got'[d] = <<>>
    <3>1. ASSUME pc'[d] \in {"idle", "waiting"}
          PROVE  Absent(d) /\ wrote[d] = <<>> /\ got[d] = <<>>
      <4>1. pc[d] \in {"idle", "waiting"} BY <2>2, <3>1 DEF ShellType
      <4> QED BY <4>1 DEF CallInv
    <3>2. Reads(d)' <=> lock' = d BY <2>1, <2>2 DEF ShellType, CallInv, Reads
    <3> QED BY <2>1, <2>4, <3>1, <3>2
  <2> QED BY <2>1, <2>5 DEF CallInv
<1>2. ASSUME NEW c \in Calls, Refuse(c) \/ WriteBreaks(c) PROVE CallInv'
  BY <1>2, FinishCall DEF Refuse, WriteBreaks
<1>3. ASSUME NEW c \in Calls, Write(c) PROVE CallInv'
  <2>1. /\ UNCHANGED <<got, dead, process, job, wrote>>
        /\ pc[c] = "waiting" /\ lock = None /\ ~ dead /\ lock' = c
        /\ pc' = [pc EXCEPT ![c] = "reading"]
    BY <1>3 DEF Write
  <2>2. ASSUME NEW d \in Calls PROVE Reads(d)' <=> lock' = d
    BY <2>1 DEF ShellType, CallInv, Reads
  <2>3. ASSUME NEW d \in Calls, pc'[d] \in {"idle", "waiting"}
        PROVE  Absent(d)' /\ wrote'[d] = <<>> /\ got'[d] = <<>>
    <3>1. d # c /\ pc[d] \in {"idle", "waiting"} BY <2>1, <2>3 DEF ShellType
    <3>2. Absent(d) /\ wrote[d] = <<>> /\ got[d] = <<>> BY <3>1 DEF CallInv
    <3> QED BY <1>3, <2>1, <3>1, <3>2, WriteAbsent
  <2>4. process' # "running" => stdin' = <<>> BY <1>3 DEF Write, CallInv
  <2> QED BY <2>1, <2>2, <2>3, <2>4 DEF CallInv
<1>4. ASSUME NEW c \in Calls, Read(c) PROVE CallInv'
  <2>1. Reads(c) /\ lock = c
    BY <1>4 DEF Read, ReadMarker, ReadGarbled, ReadLine, ReadLong, ReadEof, CallInv
  <2>2. CASE ReadLine(c)
    <3>1. UNCHANGED <<pc, lock, dead, process, job, stdin, wrote>>
      BY <2>2 DEF ReadLine, bashVars
    <3>2. \A d \in Calls : pc[d] \in {"idle", "waiting"} => got'[d] = got[d]
      BY <2>1, <2>2 DEF ReadLine, Reads, ShellType
    <3>3. \A d \in Calls : Absent(d)' <=> Absent(d) BY <3>1 DEF Absent
    <3>4. \A d \in Calls : Reads(d)' <=> Reads(d) BY <3>1 DEF Reads
    <3> QED BY <3>1, <3>2, <3>3, <3>4 DEF CallInv
  <2>3. CASE ReadMarker(c) \/ ReadGarbled(c) \/ ReadLong(c) \/ ReadEof(c)
    BY <2>1, <2>3, FinishCall DEF ReadMarker, ReadGarbled, ReadLong, ReadEof, Return
  <2> QED BY <1>4, <2>2, <2>3 DEF Read
<1>5. ASSUME NEW c \in Calls, TimeOut(c) \/ DrainTimesOut(c) PROVE CallInv'
  <2>1. lock = c BY <1>5 DEF TimeOut, DrainTimesOut, CallInv, Reads
  <2>2. UNCHANGED bashVars BY <1>5 DEF TimeOut, DrainTimesOut
  <2>3. CASE Finish(c, "timeout", <<>>) BY <2>1, <2>2, <2>3, FinishCall
  <2>4. CASE ~ Finish(c, "timeout", <<>>)
    <3>1. /\ pc[c] = "reading" /\ pc' = [pc EXCEPT ![c] = "draining"]
          /\ UNCHANGED <<got, lock, dead, process, job, stdin, wrote>>
      BY <1>5, <2>2, <2>4 DEF TimeOut, DrainTimesOut, bashVars
    <3>2. \A d \in Calls : /\ Reads(d)' <=> Reads(d)
                          /\ pc'[d] \in {"idle", "waiting"} => pc'[d] = pc[d]
      BY <3>1 DEF ShellType, Reads
    <3>3. \A d \in Calls : Absent(d)' <=> Absent(d) BY <3>1 DEF Absent
    <3>4. ASSUME NEW d \in Calls
          PROVE  /\ Reads(d)' <=> lock' = d
                 /\ pc'[d] \in {"idle", "waiting"} =>
                       Absent(d)' /\ wrote'[d] = <<>> /\ got'[d] = <<>>
      <4>1. ASSUME pc'[d] \in {"idle", "waiting"}
            PROVE  Absent(d) /\ wrote[d] = <<>> /\ got[d] = <<>>
        <5>1. pc[d] \in {"idle", "waiting"} BY <3>1, <4>1 DEF ShellType
        <5> QED BY <5>1 DEF CallInv
      <4>2. Reads(d)' <=> lock' = d BY <3>1 DEF ShellType, CallInv, Reads
      <4> QED BY <3>1, <3>3, <4>1, <4>2
    <3> QED BY <3>1, <3>4 DEF CallInv
  <2> QED BY <2>3, <2>4
<1>6. ASSUME NEW c \in Calls, Cancel(c) PROVE CallInv'
  <2>1. /\ pc' = [pc EXCEPT ![c] = "done"] /\ got' = [got EXCEPT ![c] = <<>>]
        /\ lock' = IF lock = c THEN None ELSE lock
        /\ UNCHANGED <<dead, process, job, stdin, wrote>>
    BY <1>6 DEF Cancel, bashVars
  <2>2. \A d \in Calls : Reads(d)' <=> lock' = d
    BY <2>1 DEF ShellType, CallInv, Reads
  <2>3. \A d \in Calls : pc'[d] \in {"idle", "waiting"} => pc'[d] = pc[d] /\ got'[d] = got[d]
    BY <2>1 DEF ShellType
  <2>4. \A d \in Calls : Absent(d)' <=> Absent(d) BY <2>1 DEF Absent
  <2> QED BY <2>1, <2>2, <2>3, <2>4 DEF CallInv
<1>7. CASE Bash
  <2>1. /\ UNCHANGED <<pc, got, lock, dead>>
        /\ job' \in {job, None} \/ (stdin # <<>> /\ job' = Head(stdin).of)
        /\ stdin' \in {stdin, <<>>} \/ (stdin # <<>> /\ stdin' = Tail(stdin))
    BY <1>7 DEF Bash, StartJob, EchoMarker, JobWrites, JobReadsStdin, JobEnds, BashExits, Reap,
                BashReads, callVars, bashVars
  <2>2. \A d \in Calls : Absent(d) => Absent(d)' BY <2>1, StaysAbsent
  <2>3. \A d \in Calls : Reads(d)' <=> Reads(d) BY <2>1 DEF Reads
  <2>4. process' # "running" => stdin' = <<>>
    <3>1. CASE process = "running"
      BY <1>7, <3>1 DEF Bash, StartJob, EchoMarker, JobWrites, JobReadsStdin, JobEnds, BashExits,
                        Reap, BashReads
    <3>2. CASE process # "running"
      <4>1. stdin = <<>> BY <3>2 DEF CallInv
      <4> QED BY <2>1, <4>1
    <3> QED BY <3>1, <3>2
  <2>5. ASSUME NEW d \in Calls
        PROVE  /\ pc[d] \in {"idle", "waiting"} => wrote'[d] = <<>>
               /\ \A i \in 1 .. Len(wrote'[d]) :
                     wrote'[d][i].kind \in {"line", "marker", "garbled"}
    <3>1. CASE wrote' = wrote BY <3>1 DEF CallInv
    <3>2. CASE wrote' # wrote
      <4>1. JobWrites
        BY <1>7, <3>2 DEF Bash, StartJob, EchoMarker, JobReadsStdin, JobEnds, BashExits, Reap
      <4>2. PICK item \in JobLines : wrote' = [wrote EXCEPT ![job] = Append(@, item)]
        BY <4>1 DEF JobWrites
      <4>3. /\ job \in Calls /\ job # None
            /\ item \in Items /\ item.kind \in {"line", "marker", "garbled"}
        BY <4>1, <4>2, JobLinesAre DEF JobWrites, ShellType
      <4>4. CASE d # job BY <4>2, <4>4, <4>3 DEF ShellType, CallInv
      <4>5. CASE d = job
        <5>1. wrote'[d] = Append(wrote[d], item) /\ wrote[d] \in Seq(Items)
          BY <4>2, <4>5, <4>3 DEF ShellType
        <5>2. pc[d] \notin {"idle", "waiting"} BY <4>5 DEF CallInv, Absent
        <5>3. ASSUME NEW i \in 1 .. Len(wrote'[d])
              PROVE  wrote'[d][i].kind \in {"line", "marker", "garbled"}
          <6>1. i \in 1 .. Len(wrote[d]) => wrote'[d][i] = wrote[d][i] BY <4>3, <5>1
          <6>2. i \notin 1 .. Len(wrote[d]) => wrote'[d][i] = item BY <4>3, <5>1
          <6> QED BY <6>1, <6>2, <4>3 DEF CallInv
        <5> QED BY <5>2, <5>3
      <4> QED BY <4>4, <4>5
    <3> QED BY <3>1, <3>2
  <2> QED BY <2>1, <2>2, <2>3, <2>4, <2>5 DEF CallInv
<1>8. CASE UNCHANGED vars
  BY <1>8 DEF vars, callVars, bashVars, CallInv, Absent, Reads
<1> QED BY <1>1, <1>2, <1>3, <1>4, <1>5, <1>6, <1>7, <1>8 DEF Next, Call, Enter

-----------------------------------------------------------------------------
(* The stream *)

\* A step of one call leaves the others, and the commands already running, alone.
LEMMA OneCall ==
    ASSUME ShellType, NEW c \in Calls, Call(c)
    PROVE  /\ UNCHANGED <<process, job, wrote>>
           /\ UNCHANGED stdin \/ Write(c)
           /\ pc[c] # "done"
           /\ \A d \in Calls \ {c} : pc'[d] = pc[d] /\ result'[d] = result[d] /\ got'[d] = got[d]
<1>1. CASE Submit(c) \/ Write(c) BY <1>1 DEF Submit, Write, ShellType, bashVars
<1>2. CASE Refuse(c) \/ WriteBreaks(c)
  BY <1>2 DEF Refuse, WriteBreaks, Finish, ShellType, bashVars
<1>3. CASE Read(c)
  BY <1>3 DEF Read, ReadMarker, ReadGarbled, ReadLine, ReadLong, ReadEof, Return, Reads, Finish,
              ShellType, bashVars
<1>4. CASE TimeOut(c) \/ DrainTimesOut(c)
  BY <1>4 DEF TimeOut, DrainTimesOut, Finish, ShellType, bashVars
<1>5. CASE Cancel(c) BY <1>5 DEF Cancel, ShellType, bashVars
<1> QED BY <1>1, <1>2, <1>3, <1>4, <1>5 DEF Call, Enter

\* How a call ended does not change.
LEMMA Final ==
    ASSUME ShellType, [Next]_vars, NEW d \in Calls, pc[d] = "done"
    PROVE  pc'[d] = "done" /\ result'[d] = result[d]
<1>1. ASSUME NEW c \in Calls, Call(c) PROVE pc'[d] = pc[d] /\ result'[d] = result[d]
  <2>1. d # c BY <1>1, OneCall
  <2> QED BY <1>1, <2>1, OneCall
<1>2. CASE Bash \/ UNCHANGED vars
  BY <1>2 DEF Bash, StartJob, EchoMarker, JobWrites, JobReadsStdin, JobEnds, BashExits, Reap,
              callVars, vars
<1> QED BY <1>1, <1>2 DEF Next

\* A reading that was cut short stays so.
LEMMA StaysCut == ShellType /\ [Next]_vars /\ CutShort => CutShort'
<1> SUFFICES ASSUME ShellType, [Next]_vars, CutShort PROVE CutShort'
  OBVIOUS
<1>1. PICK c \in Calls : Ended(c, "raised") BY DEF CutShort
<1>2. pc'[c] = "done" /\ result'[c] = result[c] BY <1>1, Final DEF Ended
<1>3. Ended(c, "raised")' BY <1>1, <1>2 DEF Ended
<1> QED BY <1>3 DEF CutShort

\* A marker that a command has forged stays.
LEMMA StaysForged == ShellType /\ [Next]_vars /\ Forged => Forged'
<1> SUFFICES ASSUME ShellType, [Next]_vars, Forged PROVE Forged'
  OBVIOUS
<1>1. PICK c \in Calls : \E i \in 1 .. Len(wrote[c]) : wrote[c][i].kind \in {"marker", "garbled"}
  BY DEF Forged
<1>2. PICK i \in 1 .. Len(wrote[c]) : wrote[c][i].kind \in {"marker", "garbled"} BY <1>1
<1>3. wrote[c] \in Seq(Items) BY DEF ShellType
<1>4. CASE wrote' = wrote BY <1>2, <1>4 DEF Forged
<1>5. CASE wrote' # wrote
  <2>1. JobWrites
    <3>1. ~ UNCHANGED vars BY <1>5 DEF vars, bashVars
    <3>2. \A d \in Calls : ~ Call(d) BY <1>5, OneCall
    <3> QED BY <1>5, <3>1, <3>2 DEF Next, Bash, StartJob, EchoMarker, JobReadsStdin, JobEnds,
                                    BashExits, Reap
  <2>2. PICK item \in JobLines : wrote' = [wrote EXCEPT ![job] = Append(@, item)]
    BY <2>1 DEF JobWrites
  <2>3. job \in Calls /\ item \in Items BY <2>1, <2>2, JobLinesAre DEF JobWrites, ShellType
  <2>4. wrote'[c] \in {wrote[c], Append(wrote[c], item)} BY <2>2, <2>3 DEF ShellType
  <2>5. i \in 1 .. Len(wrote'[c]) /\ wrote'[c][i] = wrote[c][i] BY <1>2, <1>3, <2>3, <2>4
  <2> QED BY <1>2, <2>5 DEF Forged
<1> QED BY <1>4, <1>5

\* What is stale stays so.
LEMMA StaysStale ==
    ASSUME ShellType, [Next]_vars, NEW c, NEW lines, Stale(c, lines)
    PROVE  Stale(c, lines)'
<1>1. CASE lines = <<>> BY <1>1 DEF Stale
<1>2. CASE lines # <<>>
  <2>1. PICK d \in Calls \ {c} : pc[d] = "done" /\ lines = <<Item(d, "marker")>>
    BY <1>2 DEF Stale
  <2>2. pc'[d] = "done" BY <2>1, Final
  <2> QED BY <2>1, <2>2 DEF Stale
<1> QED BY <1>1, <1>2

\* The command of a call that has ended prints nothing any more.
LEMMA StaysSettled ==
    ASSUME ShellType, [Next]_vars, NEW d \in Calls, pc[d] = "done", Settled(d)
    PROVE  Settled(d)'
<1>1. SUFFICES Absent(d)' /\ wrote'[d] = wrote[d]
  <2>1. result'[d] = result[d] BY Final
  <2>2. PICK stale \in Seq(Items), text \in Texts(d) :
            Stale(d, stale) /\ result[d].lines = stale \o wrote[d] \o text
    BY DEF Settled
  <2>3. Stale(d, stale)' BY <2>2, StaysStale
  <2>4. Texts(d)' = Texts(d) BY DEF Texts
  <2>5. result'[d].lines = stale \o wrote'[d] \o text BY <1>1, <2>1, <2>2
  <2> QED BY <1>1, <2>2, <2>3, <2>4, <2>5 DEF Settled
<1>2. ASSUME NEW c \in Calls, Call(c) PROVE Absent(d)' /\ wrote'[d] = wrote[d]
  <2>1. d # c BY <1>2, OneCall
  <2>2. CASE Write(c) BY <1>2, <2>1, <2>2, WriteAbsent, OneCall DEF Settled
  <2>3. CASE ~ Write(c)
    <3>1. UNCHANGED <<job, stdin, wrote>> BY <1>2, <2>3, OneCall
    <3> QED BY <3>1 DEF Settled, Absent
  <2> QED BY <2>2, <2>3
<1>3. CASE Bash
  <2>1. /\ job' \in {job, None} \/ (stdin # <<>> /\ job' = Head(stdin).of)
        /\ stdin' \in {stdin, <<>>} \/ (stdin # <<>> /\ stdin' = Tail(stdin))
    BY <1>3 DEF Bash, StartJob, EchoMarker, JobWrites, JobReadsStdin, JobEnds, BashExits, Reap,
                BashReads, callVars, bashVars
  <2>2. Absent(d)' BY <2>1, StaysAbsent DEF Settled
  <2>3. wrote'[d] = wrote[d]
    <3>1. job # d BY DEF Settled, Absent
    <3> QED BY <1>3, <3>1 DEF Bash, StartJob, EchoMarker, JobWrites, JobReadsStdin, JobEnds,
                              BashExits, Reap, ShellType
  <2> QED BY <2>2, <2>3
<1>4. CASE UNCHANGED vars
  <2>1. UNCHANGED <<job, stdin, wrote>> BY <1>4 DEF vars, bashVars
  <2>2. Absent(d) BY DEF Settled
  <2> QED BY <2>1, <2>2 DEF Absent
<1> QED BY <1>2, <1>3, <1>4 DEF Next

\* A step that touches neither the pipe nor what is printed leaves the flow as it is.
LEMMA SameFlow ==
    ASSUME ShellType, [Next]_vars, NEW c \in Calls, InFlow(c),
           UNCHANGED <<stdin, stdout, job, wrote>>,
           pc'[c] = "reading" => pc[c] = "reading" /\ got'[c] = got[c]
    PROVE  InFlow(c)'
<1>1. stdin' = stdin /\ stdout' = stdout /\ job' = job /\ wrote' = wrote
  OBVIOUS
<1>2. Unread(c)'
  <2>1. Unread(c) BY DEF InFlow
  <2> QED BY <1>1, <2>1 DEF Unread
<1>3. PICK read \in Seq(Items), left \in Seq(Items), stale \in Seq(Items),
           text \in Texts(c), lines \in Echoed(c) : Flow(c, read, left, stale, text, lines)
  BY DEF InFlow
<1>4. Stale(c, stale)' BY <1>3, StaysStale DEF Flow
<1>5. Flow(c, read, left, stale, text, lines)' BY <1>1, <1>3, <1>4 DEF Flow
<1>6. Texts(c)' = Texts(c) /\ Echoed(c)' = Echoed(c) BY DEF Texts, Echoed
<1> QED BY <1>2, <1>3, <1>5, <1>6 DEF InFlow

\* The unterminated end of an output is at most one item.
LEMMA TextsAre ==
    ASSUME NEW c \in Calls, NEW text \in Texts(c)
    PROVE  /\ text \in Seq(Items) /\ Len(text) \in 0 .. 1
           /\ \A i \in 1 .. Len(text) : text[i] = Item(c, "text") /\ text[i].kind = "text"
<1>1. "text" \in Kinds BY DEF Kinds
<1>2. Item(c, "text") \in Items /\ Item(c, "text").kind = "text" BY <1>1, ItemIs
<1>3. PICK item : item = Item(c, "text") OBVIOUS
<1>4. CASE text = <<>> BY <1>4
<1>5. CASE text = <<item>>
  <2>1. item \in Items /\ item.kind = "text" BY <1>2, <1>3
  <2>2. text \in Seq(Items) /\ Len(text) = 1 /\ text[1] = item BY <1>5, <2>1
  <2> QED BY <1>3, <2>1, <2>2
<1> QED BY <1>3, <1>4, <1>5 DEF Texts

\* What stands in front of the first terminated item belongs to its line.
LEMMA FirstLine ==
    ASSUME ShellType, NEW c \in Calls, NEW text \in Texts(c), NEW others \in Seq(Items),
           others # <<>>, Head(others).kind # "text", stdout = text \o others
    PROVE  /\ LineEnd = Len(text) + 1 /\ Line = Append(text, Head(others))
           /\ Last(Line) = Head(others) /\ Rest = Tail(others)
<1>1. /\ text \in Seq(Items) /\ Len(text) \in 0 .. 1
      /\ \A i \in 1 .. Len(text) : text[i].kind = "text"
  BY TextsAre
<1>2. stdout \in Seq(Items) BY DEF ShellType
<1>3. PICK t \in 0 .. 1 : t = Len(text) BY <1>1
<1>4. PICK x : x = Head(others) OBVIOUS
<1>5. x \in Items /\ x.kind # "text" /\ x = others[1] /\ Len(others) \in Nat \ {0} BY <1>4
<1>6. /\ Len(stdout) = t + Len(others)
      /\ \A i \in 1 .. t : stdout[i] = text[i]
      /\ \A i \in (t + 1) .. (t + Len(others)) : stdout[i] = others[i - t]
  BY <1>1, <1>3, Joined
<1>7. t + 1 \in 1 .. Len(stdout) /\ stdout[t + 1] = x
  <2>1. t + 1 \in (t + 1) .. (t + Len(others)) BY <1>3, <1>5
  <2>2. stdout[t + 1] = others[(t + 1) - t] BY <1>6, <2>1
  <2>3. (t + 1) - t = 1 BY <1>3
  <2> QED BY <1>3, <1>5, <1>6, <2>2, <2>3
<1>8. LineEnd = t + 1
  <2>1. LineEnd \in 0 .. Len(stdout) BY <1>2, LineEndIs
  <2>2. LineEnd # 0
    <3>1. SUFFICES ASSUME LineEnd = 0 PROVE FALSE OBVIOUS
    <3>2. stdout[t + 1].kind = "text" BY <1>2, <1>7, <3>1, LineEndIs
    <3> QED BY <1>5, <1>7, <3>2
  <2>3. /\ stdout[LineEnd].kind # "text"
        /\ \A i \in 1 .. (LineEnd - 1) : stdout[i].kind = "text"
    BY <1>2, <2>1, <2>2, LineEndIs
  <2>4. ~ (LineEnd <= t)
    <3>1. SUFFICES ASSUME LineEnd <= t PROVE FALSE OBVIOUS
    <3>2. LineEnd \in 1 .. t BY <1>3, <2>1, <2>2, <3>1
    <3>3. stdout[LineEnd].kind = "text" BY <1>1, <1>3, <1>6, <3>2
    <3> QED BY <2>3, <3>3
  <2>5. ~ (LineEnd > t + 1)
    <3>1. SUFFICES ASSUME LineEnd > t + 1 PROVE FALSE OBVIOUS
    <3>2. t + 1 \in 1 .. (LineEnd - 1) BY <1>3, <2>1, <3>1
    <3>3. stdout[t + 1].kind = "text" BY <2>3, <3>2
    <3> QED BY <1>5, <1>7, <3>3
  <2> QED BY <1>3, <2>1, <2>4, <2>5
<1>9. /\ Line \in Seq(Items) /\ Len(Line) = t + 1 /\ Last(Line) = stdout[t + 1]
      /\ \A i \in 1 .. (t + 1) : Line[i] = stdout[i]
      /\ Rest \in Seq(Items) /\ Len(Rest) = Len(stdout) - (t + 1)
      /\ \A i \in 1 .. (Len(stdout) - (t + 1)) : Rest[i] = stdout[(t + 1) + i]
  <2>1. LineEnd > 0 BY <1>3, <1>8
  <2> QED BY <1>2, <1>8, <2>1, LineIs
<1>10. Line = Append(text, x)
  <2>1. /\ Append(text, x) \in Seq(Items) /\ Len(Append(text, x)) = t + 1
        /\ \A i \in 1 .. t : Append(text, x)[i] = text[i]
        /\ Append(text, x)[t + 1] = x
    BY <1>1, <1>3, <1>5, AppendProperties
  <2>2. ASSUME NEW i \in 1 .. (t + 1) PROVE Line[i] = Append(text, x)[i]
    <3>1. CASE i = t + 1 BY <1>7, <1>9, <2>1, <3>1
    <3>2. CASE i # t + 1
      <4>1. i \in 1 .. t BY <1>3, <3>2
      <4> QED BY <1>6, <1>9, <2>1, <4>1
    <3> QED BY <3>1, <3>2
  <2>3. Len(Line) = Len(Append(text, x)) BY <1>9, <2>1
  <2>4. \A i \in 1 .. Len(Line) : Line[i] = Append(text, x)[i] BY <1>9, <2>2
  <2> QED BY <1>9, <2>1, <2>3, <2>4, SeqEqual
<1>11. Rest = Tail(others)
  <2>1. /\ Tail(others) \in Seq(Items) /\ Len(Tail(others)) = Len(others) - 1
        /\ \A i \in 1 .. Len(Tail(others)) : Tail(others)[i] = others[i + 1]
    BY HeadTailProperties
  <2>2. Len(Rest) = Len(Tail(others)) BY <1>3, <1>5, <1>6, <1>9, <2>1
  <2>3. ASSUME NEW i \in 1 .. Len(Rest) PROVE Rest[i] = Tail(others)[i]
    <3>1. i \in 1 .. (Len(others) - 1) BY <2>1, <2>2
    <3>2. Rest[i] = stdout[(t + 1) + i] BY <1>9, <2>3
    <3>3. (t + 1) + i \in (t + 1) .. (t + Len(others)) /\ ((t + 1) + i) - t = i + 1
      BY <1>3, <1>5, <3>1
    <3>4. stdout[(t + 1) + i] = others[i + 1] BY <1>6, <3>3
    <3> QED BY <2>1, <2>2, <3>2, <3>4
  <2> QED BY <1>9, <2>1, <2>2, <2>3, SeqEqual
<1> QED BY <1>3, <1>4, <1>7, <1>8, <1>9, <1>10, <1>11

\* What is left of what the command printed is lines, none of them with its own marker.
LEMMA LeftAre ==
    ASSUME ShellType, CallInv, ~ Forged, NEW c \in Calls, NEW read \in Seq(Items),
           NEW left \in Seq(Items), NEW stale \in Seq(Items), Stale(c, stale),
           stale \o wrote[c] = read \o left, NEW i \in 1 .. Len(left)
    PROVE  /\ left[i].kind # "text"
           /\ left[i] \notin {Item(c, "marker"), Item(c, "garbled")}
<1>1. wrote[c] \in Seq(Items) /\ Len(read) \in Nat /\ Len(stale) \in Nat BY DEF ShellType
<1>2. PICK all : all = read \o left OBVIOUS
<1>3. PICK k : k = Len(read) + i OBVIOUS
<1>4. k \in (Len(read) + 1) .. (Len(read) + Len(left)) /\ k - Len(read) = i BY <1>1, <1>3
<1>5. all[k] = left[i] /\ Len(all) = Len(read) + Len(left) BY <1>2, <1>4, Joined
<1>6. /\ Len(all) = Len(stale) + Len(wrote[c])
      /\ \A j \in 1 .. Len(stale) : all[j] = stale[j]
      /\ \A j \in (Len(stale) + 1) .. (Len(stale) + Len(wrote[c])) :
            all[j] = wrote[c][j - Len(stale)]
  <2>1. all = stale \o wrote[c] BY <1>2
  <2> QED BY <1>1, <2>1, Joined
<1>7. "marker" \in Kinds /\ "garbled" \in Kinds BY DEF Kinds
<1>8. /\ Item(c, "marker").of = c /\ Item(c, "marker").kind = "marker"
      /\ Item(c, "garbled").of = c /\ Item(c, "garbled").kind = "garbled"
  BY <1>7, ItemIs
<1>9. CASE k <= Len(stale)
  <2>1. k \in 1 .. Len(stale) BY <1>1, <1>4, <1>9
  <2>2. stale # <<>> BY <2>1
  <2>3. PICK d \in Calls \ {c} : stale = <<Item(d, "marker")>> BY <2>2 DEF Stale
  <2>4. stale[k] = Item(d, "marker") BY <2>1, <2>3
  <2>5. left[i].of = d /\ left[i].kind = "marker" BY <1>5, <1>6, <1>7, <2>1, <2>4, ItemIs
  <2> QED BY <1>8, <2>3, <2>5
<1>10. CASE ~ (k <= Len(stale))
  <2>1. PICK j \in 1 .. Len(wrote[c]) : j = k - Len(stale)
    <3>1. PICK r \in Nat, l \in Nat, s \in Nat, w \in Nat :
              r = Len(read) /\ l = Len(left) /\ s = Len(stale) /\ w = Len(wrote[c])
      BY <1>1
    <3>2. r + l = s + w /\ k \in (r + 1) .. (r + l) /\ ~ (k <= s)
      BY <1>4, <1>5, <1>6, <1>10, <3>1
    <3>3. k - s \in 1 .. w BY <3>2
    <3> QED BY <3>1, <3>3
  <2>2. k \in (Len(stale) + 1) .. (Len(stale) + Len(wrote[c])) BY <1>1, <1>4, <2>1
  <2>3. left[i] = wrote[c][j] BY <1>5, <1>6, <2>1, <2>2
  <2>4. wrote[c][j].kind \in {"line", "marker", "garbled"} BY <2>1 DEF CallInv
  <2>5. wrote[c][j].kind \notin {"marker", "garbled"} BY <2>1 DEF Forged
  <2> QED BY <1>8, <2>3, <2>4, <2>5
<1> QED BY <1>9, <1>10

\* The first line is the next one of what is left.
LEMMA NextLine ==
    ASSUME ShellType, CallInv, ~ Forged, NEW c \in Calls, NEW read \in Seq(Items),
           NEW left \in Seq(Items), NEW stale \in Seq(Items), NEW text \in Texts(c),
           NEW lines \in Echoed(c), Flow(c, read, left, stale, text, lines), left # <<>>
    PROVE  /\ LineEnd > 0 /\ Line = <<Head(left)>>
           /\ Last(Line) \notin {Item(c, "marker"), Item(c, "garbled")}
           /\ Rest = Tail(left) \o (text \o lines)
<1>1. PICK more : more = text \o lines OBVIOUS
<1>2. more \in Seq(Items)
  <2>1. text \in Seq(Items) BY TextsAre
  <2>2. lines \in Seq(Items) BY EchoedIs
  <2> QED BY <1>1, <2>1, <2>2
<1>3. PICK others : others = left \o more OBVIOUS
<1>4. /\ others \in Seq(Items) /\ others # <<>> /\ Head(others) = left[1] /\ Head(left) = left[1]
      /\ Tail(others) = Tail(left) \o more
  BY <1>2, <1>3
<1>5. 1 \in 1 .. Len(left) OBVIOUS
<1>6. stale \o wrote[c] = read \o left /\ Stale(c, stale) /\ stdout = others
  BY <1>1, <1>3 DEF Flow
<1>7. left[1].kind # "text" /\ left[1] \notin {Item(c, "marker"), Item(c, "garbled")}
  BY <1>5, <1>6, LeftAre
<1>8. <<>> \in Texts(c) /\ stdout = <<>> \o others BY <1>4, <1>6 DEF Texts
<1>9. /\ LineEnd = Len(<<>>) + 1 /\ Line = Append(<<>>, Head(others))
      /\ Last(Line) = Head(others) /\ Rest = Tail(others)
  BY <1>4, <1>7, <1>8, FirstLine
<1>10. LineEnd > 0 BY <1>9
<1>11. Line = <<Head(left)>> BY <1>4, <1>9
<1> QED BY <1>1, <1>4, <1>7, <1>9, <1>10, <1>11

\* When nothing is left, the first line holds the marker; without text after it, at most
\* one more marker follows.
LEMMA MarkerLine ==
    ASSUME ShellType, NEW c \in Calls, NEW text \in Texts(c), NEW lines \in Echoed(c),
           stdout = text \o lines, lines # <<>>
    PROVE  /\ LineEnd > 0
           /\ Last(Line) \in {Item(c, "marker"), Item(c, "garbled")}
           /\ Last(Line) = Item(c, "marker") => Rest \in {<<>>, <<Item(c, "marker")>>}
<1>1. "marker" \in Kinds /\ "garbled" \in Kinds BY DEF Kinds
<1>2. /\ Item(c, "marker").kind = "marker" /\ Item(c, "garbled").kind = "garbled"
  BY <1>1, ItemIs
<1>3. /\ lines \in Seq(Items)
      /\ \/ Head(lines) = Item(c, "garbled")
         \/ /\ Head(lines) = Item(c, "marker")
            /\ Tail(lines) \in {<<>>, <<Item(c, "marker")>>}
  BY EchoedIs
<1>4. Head(lines).kind # "text" BY <1>2, <1>3
<1>5. /\ LineEnd = Len(text) + 1 /\ Last(Line) = Head(lines) /\ Rest = Tail(lines)
  BY <1>3, <1>4, FirstLine
<1>6. LineEnd > 0 BY <1>5, TextsAre
<1>7. Head(lines) = Item(c, "marker") => Tail(lines) \in {<<>>, <<Item(c, "marker")>>}
  BY <1>2, <1>3
<1> QED BY <1>3, <1>5, <1>6, <1>7

\* Without a line in the pipe everything has been read but an unterminated end.
LEMMA NoLineLeft ==
    ASSUME ShellType, CallInv, ~ Forged, NEW c \in Calls, NEW read \in Seq(Items),
           NEW left \in Seq(Items), NEW stale \in Seq(Items), NEW text \in Texts(c),
           NEW lines \in Echoed(c), Flow(c, read, left, stale, text, lines), LineEnd = 0
    PROVE  read = stale \o wrote[c] /\ stdout = text
<1>1. left = <<>>
  <2>1. SUFFICES ASSUME left # <<>> PROVE FALSE OBVIOUS
  <2>2. LineEnd > 0 BY <2>1, NextLine
  <2> QED BY <2>2
<1>2. text \in Seq(Items) BY TextsAre
<1>3. lines \in Seq(Items) BY EchoedIs
<1>4. stdout = text \o lines
  <2>1. stdout = left \o (text \o lines) BY DEF Flow
  <2>2. text \o lines \in Seq(Items) BY <1>2, <1>3
  <2> QED BY <1>1, <2>1, <2>2, ConcatEmptySeq
<1>5. lines = <<>>
  <2>1. SUFFICES ASSUME lines # <<>> PROVE FALSE OBVIOUS
  <2>2. LineEnd > 0 BY <1>4, <2>1, MarkerLine
  <2> QED BY <2>2
<1>6. stdout = text BY <1>2, <1>4, <1>5, ConcatEmptySeq
<1>7. read = stale \o wrote[c]
  <2>1. stale \o wrote[c] = read \o left BY DEF Flow
  <2> QED BY <1>1, <2>1, ConcatEmptySeq
<1> QED BY <1>6, <1>7

\* The flow of a command begins when it is written to a shell that has nothing else to do.
LEMMA WriteFlow ==
    ASSUME ShellType, CallInv, NEW c \in Calls, Write(c), Between
    PROVE  InFlow(c)'
<1>1. /\ pc[c] = "waiting" /\ pc' = [pc EXCEPT ![c] = "reading"]
      /\ UNCHANGED <<got, job, wrote, stdout>>
  BY DEF Write
<1>2. wrote'[c] = <<>> /\ got'[c] = <<>> /\ job' = None BY <1>1 DEF CallInv, Between
<1>3. stdin' \in {<<>>, <<Item(c, "command"), Item(c, "echo")>>}
  BY DEF Write, Between, Wrapped
<1>4. Unread(c)'
  <2>1. CASE stdin' = <<>> BY <1>2, <2>1 DEF Unread
  <2>2. CASE stdin' = <<Item(c, "command"), Item(c, "echo")>>
    BY <1>2, <2>2 DEF Unread
  <2> QED BY <1>3, <2>1, <2>2
<1>5. stdout \in Seq(Items) BY DEF ShellType
<1>6. Stale(c, stdout)'
  <2>1. CASE stdout = <<>> BY <1>1, <2>1 DEF Stale
  <2>2. CASE stdout # <<>>
    <3>1. PICK d \in Calls : pc[d] = "done" /\ stdout = <<Item(d, "marker")>>
      BY <2>2 DEF Between, Stale
    <3>2. d # c /\ pc'[d] = "done" BY <1>1, <3>1 DEF ShellType
    <3> QED BY <1>1, <3>1, <3>2 DEF Stale
  <2> QED BY <2>1, <2>2
<1>7. <<>> \in Texts(c)' BY DEF Texts
<1>8. <<>> \in Echoed(c)'
  <2>1. <<>> = <<>> \o <<>> \o <<>> OBVIOUS
  <2> QED BY <2>1 DEF Echoed
<1>9. stdout \o <<>> = stdout /\ <<>> \o stdout = stdout /\ stdout \o (<<>> \o <<>>) = stdout
  <2>1. stdout \o <<>> = stdout /\ <<>> \o stdout = stdout BY <1>5, ConcatEmptySeq
  <2>2. <<>> \o <<>> = <<>> OBVIOUS
  <2> QED BY <2>1, <2>2
<1>10. Flow(c, <<>>, stdout, stdout, <<>>, <<>>)' BY <1>1, <1>2, <1>6, <1>9 DEF Flow
<1>11. stdout' \in Seq(Items) /\ <<>> \in Seq(Items) BY <1>1, <1>5
<1> QED BY <1>4, <1>7, <1>8, <1>10, <1>11 DEF InFlow

\* A line moves from the pipe to the output.
LEMMA ReadLineFlow ==
    ASSUME ShellType, CallInv, [Next]_vars, ~ Forged, NEW c \in Calls, ReadLine(c), InFlow(c)
    PROVE  InFlow(c)'
<1>1. /\ UNCHANGED <<pc, process, job, stdin, wrote>> /\ stdout' = Rest
      /\ LineEnd > 0 /\ Last(Line) \notin {Item(c, "marker"), Item(c, "garbled")}
      /\ pc[c] = "reading" => got'[c] = got[c] \o Line
  BY DEF ReadLine, bashVars, ShellType
<1>2. Unread(c)'
  <2>1. Unread(c) BY DEF InFlow
  <2> QED BY <1>1, <2>1 DEF Unread
<1>3. PICK read \in Seq(Items), left \in Seq(Items), stale \in Seq(Items),
           text \in Texts(c), lines \in Echoed(c) : Flow(c, read, left, stale, text, lines)
  BY DEF InFlow
<1>4. /\ Stale(c, stale) /\ stale \o wrote[c] = read \o left
      /\ stdout = left \o (text \o lines)
      /\ text # <<>> => job = None /\ Len(stdin) < 2
      /\ lines # <<>> => job = None /\ stdin = <<>>
      /\ pc[c] = "reading" => got[c] = read
  BY <1>3 DEF Flow
<1>5. text \in Seq(Items) BY TextsAre
<1>6. lines \in Seq(Items) BY EchoedIs
<1>7. left # <<>>
  <2>1. SUFFICES ASSUME left = <<>> PROVE FALSE OBVIOUS
  <2>2. text \o lines \in Seq(Items) BY <1>5, <1>6
  <2>3. stdout = text \o lines BY <1>4, <2>1, <2>2, ConcatEmptySeq
  <2>4. lines # <<>>
    <3>1. SUFFICES ASSUME lines = <<>> PROVE FALSE OBVIOUS
    <3>2. stdout = text BY <1>5, <2>3, <3>1, ConcatEmptySeq
    <3>3. LineEnd \in 1 .. Len(stdout) /\ stdout[LineEnd].kind # "text"
      BY <1>1, LineEndIs DEF ShellType
    <3> QED BY <3>2, <3>3, TextsAre
  <2> QED BY <1>1, <2>3, <2>4, MarkerLine
<1>8. Line = <<Head(left)>> /\ Rest = Tail(left) \o (text \o lines)
  BY <1>3, <1>7, NextLine
<1>9. PICK x \in Items : x = Head(left) BY <1>7
<1>10. PICK rest \in Seq(Items) : rest = Tail(left)
  <2>1. Tail(left) \in Seq(Items) BY <1>7
  <2> QED BY <2>1
<1>11. PICK got1 : got1 = read \o <<x>> OBVIOUS
<1>12. got1 \in Seq(Items) BY <1>9, <1>11
<1>13. left = <<x>> \o rest BY <1>7, <1>9, <1>10
<1>14. stale \o wrote[c] = got1 \o rest
  <2>1. PICK one \in Seq(Items) : one = <<x>>
    <3>1. <<x>> \in Seq(Items) BY <1>9
    <3> QED BY <3>1
  <2>2. Regrouped(read, one, rest) BY Regroup
  <2> QED BY <1>4, <1>11, <1>13, <2>1, <2>2 DEF Regrouped
<1>15. pc'[c] = "reading" => got'[c] = got1 BY <1>1, <1>4, <1>8, <1>9, <1>11
<1>16. Stale(c, stale)' BY <1>4, StaysStale
<1>17. Flow(c, got1, rest, stale, text, lines)'
  <2>1. stdout' = rest \o (text \o lines) BY <1>1, <1>8, <1>10
  <2>2. stale \o wrote'[c] = got1 \o rest /\ job' = job /\ stdin' = stdin BY <1>1, <1>14
  <2> QED BY <1>4, <1>15, <1>16, <2>1, <2>2 DEF Flow
<1>18. Texts(c)' = Texts(c) /\ Echoed(c)' = Echoed(c) BY DEF Texts, Echoed
<1> QED BY <1>2, <1>12, <1>17, <1>18 DEF InFlow

\* bash and the command move the flow on.
LEMMA BashFlow ==
    ASSUME ShellType, CallInv, [Next]_vars, ~ Forged', NEW c \in Calls, InFlow(c), Bash
    PROVE  InFlow(c)'
<1>1. PICK read \in Seq(Items), left \in Seq(Items), stale \in Seq(Items),
           text \in Texts(c), lines \in Echoed(c) : Flow(c, read, left, stale, text, lines)
  BY DEF InFlow
<1>2. /\ UNCHANGED <<pc, got>>
      /\ stdin \in Seq(Items) /\ stdout \in Seq(Items) /\ wrote[c] \in Seq(Items)
  BY DEF Bash, StartJob, EchoMarker, JobWrites, JobReadsStdin, JobEnds, BashExits, Reap, callVars,
         ShellType
<1>3. /\ Len(stdin) \in 0 .. 2 /\ job \in {c, None}
      /\ Len(stdin) > 0 => stdin[Len(stdin)] = Item(c, "echo")
      /\ Len(stdin) = 2 => stdin[1] = Item(c, "command") /\ job = None /\ wrote[c] = <<>>
  BY DEF InFlow, Unread
<1>4. /\ Stale(c, stale) /\ stale \o wrote[c] = read \o left
      /\ stdout = left \o (text \o lines)
      /\ text # <<>> => job = None /\ Len(stdin) < 2
      /\ lines # <<>> => job = None /\ stdin = <<>>
      /\ pc[c] = "reading" => got[c] = read
  BY <1>1 DEF Flow
<1>5. stdin # <<>> =>
         /\ Head(stdin) = stdin[1] /\ Len(Tail(stdin)) = Len(stdin) - 1
         /\ \A i \in 1 .. (Len(stdin) - 1) : Tail(stdin)[i] = stdin[i + 1]
  BY <1>2
<1>6. c # None BY NoneAssumption
<1>7. Stale(c, stale)' BY <1>4, StaysStale
<1>8. Texts(c)' = Texts(c) /\ Echoed(c)' = Echoed(c) BY DEF Texts, Echoed
<1>9. "command" \in Kinds /\ "echo" \in Kinds BY DEF Kinds
<1>10. /\ Item(c, "command").of = c /\ Item(c, "command").kind = "command"
       /\ Item(c, "echo").of = c /\ Item(c, "echo").kind = "echo"
  BY <1>9, ItemIs
\* The flow after a step that the calls have no part in.
<1>11. ASSUME Unread(c)', NEW left1 \in Seq(Items), NEW text1 \in Texts(c),
              NEW lines1 \in Echoed(c), stale \o wrote'[c] = read \o left1,
              stdout' = left1 \o (text1 \o lines1),
              text1 # <<>> => job' = None /\ Len(stdin') < 2,
              lines1 # <<>> => job' = None /\ stdin' = <<>>
       PROVE  InFlow(c)'
  <2>1. Flow(c, read, left1, stale, text1, lines1)' BY <1>2, <1>4, <1>7, <1>11 DEF Flow
  <2> QED BY <1>8, <1>11, <2>1 DEF InFlow
\* The flow while the command runs.
<1>12. ASSUME job # None
       PROVE  job = c /\ text = <<>> /\ lines = <<>> /\ Len(stdin) \in 0 .. 1 /\ stdout = left
  <2>1. job = c /\ text = <<>> /\ lines = <<>> BY <1>3, <1>4, <1>12
  <2>2. Len(stdin) \in 0 .. 1 BY <1>3, <1>12
  <2>3. <<>> \o <<>> = <<>> OBVIOUS
  <2>4. stdout = left BY <1>4, <2>1, <2>3, ConcatEmptySeq
  <2> QED BY <2>1, <2>2, <2>4
<1>13. CASE StartJob
  <2>1. /\ stdin # <<>> /\ Head(stdin).kind = "command" /\ job' = Head(stdin).of
        /\ stdin' = Tail(stdin) /\ UNCHANGED <<stdout, wrote>>
    BY <1>13 DEF StartJob, BashReads
  <2>2. Len(stdin) = 2
    <3>1. Len(stdin) > 0 BY <1>2, <2>1
    <3>2. Len(stdin) # 1 BY <1>3, <1>5, <1>10, <2>1
    <3> QED BY <1>3, <3>1, <3>2
  <2>3. job' = c /\ Len(stdin') = 1 /\ stdin'[1] = Item(c, "echo")
    <3>1. stdin[1] = Item(c, "command") /\ stdin[2] = Item(c, "echo") BY <1>3, <2>2
    <3>2. job' = c BY <1>5, <1>10, <2>1, <3>1
    <3>3. Len(stdin') = 1 BY <1>5, <2>1, <2>2
    <3>4. 1 \in 1 .. (Len(stdin) - 1) BY <2>2
    <3>5. stdin'[1] = stdin[1 + 1] BY <1>5, <2>1, <3>4
    <3> QED BY <3>1, <3>2, <3>3, <3>5
  <2>4. Unread(c)' BY <2>3 DEF Unread
  <2>5. text = <<>> /\ lines = <<>> BY <1>2, <1>4, <2>1, <2>2
  <2> QED BY <1>4, <1>11, <2>1, <2>4, <2>5
<1>14. CASE EchoMarker
  <2>1. /\ stdin # <<>> /\ Head(stdin).kind = "echo" /\ job = None
        /\ stdin' = Tail(stdin) /\ UNCHANGED <<job, wrote>>
    BY <1>14 DEF EchoMarker, BashReads
  <2>2. Len(stdin) = 1
    <3>1. Len(stdin) > 0 BY <1>2, <2>1
    <3>2. Len(stdin) # 2 BY <1>3, <1>5, <1>10, <2>1
    <3> QED BY <1>3, <3>1, <3>2
  <2>3. Head(stdin).of = c /\ Len(stdin') = 0 BY <1>3, <1>5, <1>10, <2>1, <2>2
  <2>4. stdin' = <<>>
    <3>1. stdin' \in Seq(Items) BY <1>2, <2>1
    <3> QED BY <2>3, <3>1
  <2>5. PICK new \in Echoed(c) : stdout' = stdout \o new BY <1>14, <2>3 DEF EchoMarker
  <2>6. Unread(c)'
    <3>1. job' = None BY <2>1
    <3> QED BY <2>3, <3>1 DEF Unread
  <2>7. lines = <<>> BY <1>4, <2>1
  <2>8. text \in Seq(Items) BY TextsAre
  <2>9. new \in Seq(Items) BY EchoedIs
  <2>10. stdout' = left \o (text \o new)
    <3>1. stdout = left \o text BY <1>4, <2>7, <2>8, ConcatEmptySeq
    <3>2. Regrouped(left, text, new) BY <2>8, <2>9, Regroup
    <3> QED BY <2>5, <3>1, <3>2 DEF Regrouped
  <2>11. text # <<>> => job' = None /\ Len(stdin') < 2
    <3>1. \A k : k = 0 => k < 2 OBVIOUS
    <3> QED BY <2>1, <2>3, <3>1
  <2> QED BY <1>4, <1>11, <2>1, <2>4, <2>6, <2>10, <2>11
<1>15. CASE JobReadsStdin
  <2>1. /\ job # None /\ stdin # <<>> /\ stdin' = Tail(stdin) /\ UNCHANGED <<job, stdout, wrote>>
    BY <1>15 DEF JobReadsStdin
  <2>2. Len(stdin) = 1 BY <1>2, <1>12, <2>1
  <2>3. Len(stdin') = 0 BY <1>5, <2>1, <2>2
  <2>4. Unread(c)' BY <1>3, <2>1, <2>3 DEF Unread
  <2> QED BY <1>4, <1>11, <1>12, <2>1, <2>4
<1>16. CASE JobEnds
  <2>1. /\ job # None /\ job' = None /\ UNCHANGED <<stdin, wrote>>
        /\ stdout' \in {stdout, Append(stdout, Item(job, "text"))}
    BY <1>16 DEF JobEnds
  <2>2. job = c /\ text = <<>> /\ lines = <<>> /\ Len(stdin) \in 0 .. 1 /\ stdout = left
    BY <1>12, <2>1
  <2>3. Unread(c)' BY <1>3, <2>1, <2>2 DEF Unread
  <2>4. CASE stdout' = stdout BY <1>4, <1>11, <2>1, <2>2, <2>3, <2>4
  <2>5. CASE stdout' = Append(stdout, Item(c, "text"))
    <3>1. PICK end : end = <<Item(c, "text")>> OBVIOUS
    <3>2. end \in Texts(c) /\ end \in Seq(Items)
      <4>1. end \in Texts(c) BY <3>1 DEF Texts
      <4> QED BY <4>1, TextsAre
    <3>3. Item(c, "text") \in Items
      <4>1. "text" \in Kinds BY DEF Kinds
      <4> QED BY <4>1, ItemIs
    <3>4. stdout' = left \o (end \o lines)
      <4>1. Append(left, Item(c, "text")) = left \o end BY <3>1, <3>3, AppendIsConcat
      <4>2. end \o lines = end BY <2>2, <3>2, ConcatEmptySeq
      <4> QED BY <2>2, <2>5, <4>1, <4>2
    <3>5. job' = None /\ Len(stdin') < 2
      <4>1. \A k \in 0 .. 1 : k < 2 OBVIOUS
      <4> QED BY <2>1, <2>2, <4>1
    <3> QED BY <1>4, <1>11, <2>1, <2>2, <2>3, <3>2, <3>4, <3>5
  <2> QED BY <2>1, <2>2, <2>4, <2>5
<1>17. CASE BashExits
  <2>1. stdin' = <<>> /\ job' \in {job, None} /\ UNCHANGED <<stdout, wrote>>
    BY <1>17 DEF BashExits
  <2>2. Unread(c)' BY <1>3, <2>1 DEF Unread
  <2>3. text # <<>> => job' = None /\ Len(stdin') < 2 BY <1>4, <2>1
  <2>4. lines # <<>> => job' = None /\ stdin' = <<>> BY <1>4, <2>1
  <2> QED BY <1>4, <1>11, <2>1, <2>2, <2>3, <2>4
<1>18. CASE Reap
  <2>1. UNCHANGED <<job, stdin, stdout, wrote>> BY <1>18 DEF Reap
  <2> QED BY <1>2, <2>1, SameFlow
<1>19. CASE JobWrites
  <2>1. job # None /\ UNCHANGED <<job, stdin>> BY <1>19 DEF JobWrites
  <2>2. job = c /\ text = <<>> /\ lines = <<>> /\ Len(stdin) \in 0 .. 1 /\ stdout = left
    BY <1>12, <2>1
  <2>3. PICK item \in JobLines : /\ wrote' = [wrote EXCEPT ![job] = Append(@, item)]
                                /\ stdout' = Append(stdout, item)
    BY <1>19 DEF JobWrites
  <2>4. item \in Items BY <2>2, <2>3, JobLinesAre DEF ShellType
  <2>5. wrote'[c] = Append(wrote[c], item) BY <2>2, <2>3 DEF ShellType
  <2>6. PICK left1 : left1 = Append(left, item) OBVIOUS
  <2>7. left1 \in Seq(Items) /\ left1 = left \o <<item>> BY <2>4, <2>6, AppendIsConcat
  <2>8. stale \o wrote'[c] = read \o left1
    <3>1. wrote'[c] = wrote[c] \o <<item>> BY <1>2, <2>4, <2>5, AppendIsConcat
    <3>2. <<item>> \in Seq(Items) BY <2>4
    <3>3. stale \o (wrote[c] \o <<item>>) = (stale \o wrote[c]) \o <<item>>
      <4>1. PICK w \in Seq(Items) : w = wrote[c] BY <1>2
      <4>2. Regrouped(stale, w, <<item>>) BY <3>2, Regroup
      <4> QED BY <4>1, <4>2 DEF Regrouped
    <3>4. Regrouped(read, left, <<item>>) BY <3>2, Regroup
    <3> QED BY <1>4, <2>7, <3>1, <3>3, <3>4 DEF Regrouped
  <2>9. stdout' = left1 \o (text \o lines)
    <3>1. <<>> \o <<>> = <<>> OBVIOUS
    <3>2. left1 \o <<>> = left1 BY <2>7, ConcatEmptySeq
    <3> QED BY <2>2, <2>3, <2>6, <3>1, <3>2
  <2>10. Unread(c)' BY <1>3, <2>1, <2>2 DEF Unread
  <2> QED BY <1>11, <2>2, <2>7, <2>8, <2>9, <2>10
<1> QED BY <1>13, <1>14, <1>15, <1>16, <1>17, <1>18, <1>19 DEF Bash

\* Every step keeps the stream in order, but one that cuts a reading short or forges a marker.
LEMMA StreamStep == ShellType /\ CallInv /\ StreamInv /\ [Next]_vars => StreamInv'
<1> DEFINE Goal == /\ struck' = {}
                   /\ lock' = None /\ ~ dead' => Between'
                   /\ \A d \in Calls : lock' = d => InFlow(d)'
                   /\ \A d \in Calls : Ended(d, "output")' => Settled(d)'
<1> SUFFICES ASSUME ShellType, CallInv, StreamInv, [Next]_vars, ~ CutShort', ~ Forged'
            PROVE  Goal
  BY DEF StreamInv
<1>1. /\ struck = {}
      /\ lock = None /\ ~ dead => Between
      /\ \A d \in Calls : lock = d => InFlow(d)
      /\ \A d \in Calls : Ended(d, "output") => Settled(d)
  <2>1. ~ CutShort BY StaysCut
  <2>2. ~ Forged BY StaysForged
  <2> QED BY <2>1, <2>2 DEF StreamInv
<1>2. ~ Forged BY StaysForged
<1>3. ASSUME UNCHANGED <<stdin, job, stdout>>, Between PROVE Between'
  <2>1. Stale(None, stdout)' BY <1>3, StaysStale DEF Between
  <2> QED BY <1>3, <2>1 DEF Between, Stale
<1>4. \A d \in Calls : d # None BY NoneAssumption
\* The calls that had ended.
<1>5. ASSUME NEW d \in Calls, pc[d] = "done", Ended(d, "output")' PROVE Settled(d)'
  <2>1. Ended(d, "output") BY <1>5, Final DEF Ended
  <2> QED BY <1>1, <1>5, <2>1, StaysSettled
\* A call that ends gives the lock back, with nothing to come or a session that is lost.
<1>6. ASSUME NEW c \in Calls, Call(c), NEW kind, NEW lines, Finish(c, kind, lines),
             UNCHANGED struck, dead' \/ Between', kind = "output" => Settled(c)'
      PROVE  Goal
  <2>1. /\ lock' = None /\ pc' = [pc EXCEPT ![c] = "done"]
        /\ result' = [result EXCEPT ![c] = [kind |-> kind, lines |-> lines]]
    BY <1>6 DEF Finish
  <2>2. ASSUME NEW d \in Calls, Ended(d, "output")' PROVE Settled(d)'
    <3>1. CASE d = c
      <4>1. result'[c].kind = kind BY <2>1 DEF ShellType
      <4>2. kind = "output" BY <2>2, <3>1, <4>1 DEF Ended
      <4> QED BY <1>6, <3>1, <4>2
    <3>2. CASE d # c
      <4>1. pc[d] = "done" BY <2>1, <2>2, <3>2 DEF Ended, ShellType
      <4> QED BY <1>5, <2>2, <4>1
    <3> QED BY <3>1, <3>2
  <2> QED BY <1>1, <1>4, <1>6, <2>1, <2>2
\* A step after which no other call has ended, and which keeps the lock.
<1>7. ASSUME UNCHANGED <<lock, dead, struck>>, lock = None /\ ~ dead => Between',
             \A d \in Calls : lock = d => InFlow(d)',
             \A d \in Calls : Ended(d, "output")' => pc[d] = "done"
      PROVE  Goal
  BY <1>1, <1>5, <1>7
<1>8. ASSUME NEW c \in Calls, Submit(c) PROVE Goal
  <2>1. /\ UNCHANGED <<got, lock, dead, stdin, stdout, job, wrote, struck, result>>
        /\ pc' = [pc EXCEPT ![c] = "waiting"]
    BY <1>8 DEF Submit, bashVars
  <2>2. \A d \in Calls : /\ pc'[d] = "reading" => pc[d] = "reading"
                        /\ pc'[d] = "done" => pc[d] = "done"
    BY <2>1 DEF ShellType
  <2>3. \A d \in Calls : lock = d => InFlow(d)' BY <1>1, <2>1, <2>2, SameFlow
  <2>4. lock = None /\ ~ dead => Between' BY <1>1, <1>3, <2>1
  <2>5. \A d \in Calls : Ended(d, "output")' => pc[d] = "done" BY <2>2 DEF Ended
  <2> QED BY <1>7, <2>1, <2>3, <2>4, <2>5
<1>9. ASSUME NEW c \in Calls, Refuse(c) PROVE Goal
  <2>1. /\ Call(c) /\ Finish(c, "refused", <<>>) /\ dead' /\ UNCHANGED struck
    BY <1>9 DEF Call, Enter, Refuse
  <2> QED BY <1>6, <2>1
<1>10. ASSUME NEW c \in Calls, Finish(c, "raised", <<>>) PROVE FALSE
  <2>1. Ended(c, "raised")' BY <1>10 DEF Finish, Ended, ShellType
  <2> QED BY <2>1 DEF CutShort
<1>11. ASSUME NEW c \in Calls, WriteBreaks(c) PROVE Goal BY <1>10, <1>11 DEF WriteBreaks
<1>12. ASSUME NEW c \in Calls, Write(c) PROVE Goal
  <2>1. /\ lock = None /\ ~ dead /\ lock' = c /\ UNCHANGED struck
        /\ pc' = [pc EXCEPT ![c] = "reading"]
    BY <1>12 DEF Write
  <2>2. InFlow(c)' BY <1>1, <1>12, <2>1, WriteFlow
  <2>3. \A d \in Calls : Ended(d, "output")' => pc[d] = "done"
    BY <2>1 DEF Ended, ShellType
  <2> QED BY <1>1, <1>4, <1>5, <2>1, <2>2, <2>3
\* Whoever reads is in the flow of its own command.
<1>13. ASSUME NEW c \in Calls, Reads(c)
       PROVE  /\ lock = c /\ ~ dead /\ Unread(c)
              /\ \E read, left, stale \in Seq(Items), text \in Texts(c), lines \in Echoed(c) :
                    Flow(c, read, left, stale, text, lines)
  <2>1. lock = c BY <1>13 DEF CallInv
  <2>2. ~ dead BY <1>4, <2>1 DEF CallInv
  <2> QED BY <1>1, <2>1, <2>2 DEF InFlow
<1>14. ASSUME NEW c \in Calls, ReadMarker(c) PROVE Goal
  <2>1. /\ Reads(c) /\ LineEnd > 0 /\ Last(Line) = Item(c, "marker")
        /\ stdout' = Rest /\ Return(c, got[c]) /\ UNCHANGED <<job, stdin, wrote, struck>>
    BY <1>14 DEF ReadMarker, bashVars
  <2>2. PICK read \in Seq(Items), left \in Seq(Items), stale \in Seq(Items),
             text \in Texts(c), lines \in Echoed(c) : Flow(c, read, left, stale, text, lines)
    BY <1>13, <2>1
  <2>3. left = <<>>
    <3>1. SUFFICES ASSUME left # <<>> PROVE FALSE OBVIOUS
    <3> QED BY <1>2, <2>1, <2>2, <3>1, NextLine
  <2>4. got[c] \in Seq(Items) /\ wrote[c] \in Seq(Items) /\ stdout \in Seq(Items)
    BY DEF ShellType
  <2>5. text \in Seq(Items) BY TextsAre
  <2>6. lines \in Seq(Items) BY EchoedIs
  <2>7. stdout = text \o lines
    <3>1. stdout = left \o (text \o lines) BY <2>2 DEF Flow
    <3>2. text \o lines \in Seq(Items) BY <2>5, <2>6
    <3> QED BY <2>3, <3>1, <3>2, ConcatEmptySeq
  <2>8. lines # <<>>
    <3>1. SUFFICES ASSUME lines = <<>> PROVE FALSE OBVIOUS
    <3>2. stdout = text BY <2>5, <2>7, <3>1, ConcatEmptySeq
    <3>3. LineEnd \in 1 .. Len(stdout) /\ stdout[LineEnd].kind # "text"
      BY <2>1, <2>4, LineEndIs
    <3> QED BY <3>2, <3>3, TextsAre
  <2>9. Rest \in {<<>>, <<Item(c, "marker")>>} BY <2>1, <2>7, <2>8, MarkerLine
  <2>10. job = None /\ stdin = <<>> BY <2>2, <2>8 DEF Flow
  <2>11. pc'[c] = "done" BY <2>1 DEF Return, Finish, ShellType
  <2>12. Between'
    <3>1. Stale(None, stdout)'
      <4>1. c \in Calls \ {None} BY <1>4
      <4> QED BY <2>1, <2>9, <2>11, <4>1 DEF Stale
    <3> QED BY <2>1, <2>10, <3>1 DEF Between, Stale
  <2>13. Call(c) BY <1>14 DEF Call, Read
  <2>14. CASE pc[c] = "draining"
    <3>1. Finish(c, "timeout", <<>>) BY <2>1, <2>14 DEF Return
    <3> QED BY <1>6, <2>1, <2>12, <2>13, <3>1
  <2>15. CASE pc[c] # "draining"
    <3>1. pc[c] = "reading" /\ Finish(c, "output", got[c]) BY <2>1, <2>15 DEF Return, Reads
    <3>2. got[c] = stale \o wrote[c]
      <4>1. got[c] = read /\ stale \o wrote[c] = read \o left BY <2>2, <3>1 DEF Flow
      <4> QED BY <2>3, <4>1, ConcatEmptySeq
    <3>3. result'[c].lines = got[c] BY <3>1 DEF Finish, ShellType
    <3>4. result'[c].lines = stale \o wrote'[c] \o <<>>
      <4>1. got[c] \o <<>> = got[c] BY <2>4, ConcatEmptySeq
      <4> QED BY <2>1, <3>2, <3>3, <4>1
    <3>5. Stale(c, stale)' BY <2>2, StaysStale DEF Flow
    <3>6. Absent(c)' BY <1>4, <2>1, <2>10 DEF Absent
    <3>7. <<>> \in Texts(c)' BY DEF Texts
    <3>8. Settled(c)' BY <3>4, <3>5, <3>6, <3>7 DEF Settled
    <3> QED BY <1>6, <2>1, <2>12, <2>13, <3>1, <3>8
  <2> QED BY <2>14, <2>15
<1>15. ASSUME NEW c \in Calls, ReadLine(c) PROVE Goal
  <2>1. Reads(c) /\ UNCHANGED <<pc, result, lock, dead, struck>> BY <1>15 DEF ReadLine
  <2>2. lock = c BY <1>13, <2>1
  <2>3. InFlow(c)' BY <1>1, <1>15, <1>2, <2>2, ReadLineFlow
  <2>4. \A d \in Calls : Ended(d, "output")' => pc[d] = "done" BY <2>1 DEF Ended
  <2> QED BY <1>4, <1>7, <2>1, <2>2, <2>3, <2>4
<1>16. ASSUME NEW c \in Calls, ReadGarbled(c) \/ ReadLong(c) PROVE Goal
  BY <1>10, <1>16 DEF ReadGarbled, ReadLong
<1>17. ASSUME NEW c \in Calls, ReadEof(c) PROVE Goal
  <2>1. /\ Reads(c) /\ LineEnd = 0 /\ process # "running" /\ job = None
        /\ stdout' = <<>> /\ Return(c, got[c] \o stdout)
        /\ UNCHANGED <<job, stdin, wrote, struck>>
    BY <1>17 DEF ReadEof, bashVars
  <2>2. PICK read \in Seq(Items), left \in Seq(Items), stale \in Seq(Items),
             text \in Texts(c), lines \in Echoed(c) : Flow(c, read, left, stale, text, lines)
    BY <1>13, <2>1
  <2>3. read = stale \o wrote[c] /\ stdout = text BY <1>2, <2>1, <2>2, NoLineLeft
  <2>4. stdin = <<>> BY <2>1 DEF CallInv
  <2>5. Between'
    <3>1. Stale(None, stdout)' BY <2>1 DEF Stale
    <3> QED BY <2>1, <2>4, <3>1 DEF Between, Stale
  <2>6. Call(c) BY <1>17 DEF Call, Read
  <2>7. CASE pc[c] = "draining"
    <3>1. Finish(c, "timeout", <<>>) BY <2>1, <2>7 DEF Return
    <3> QED BY <1>6, <2>1, <2>5, <2>6, <3>1
  <2>8. CASE pc[c] # "draining"
    <3>1. pc[c] = "reading" /\ Finish(c, "output", got[c] \o stdout)
      BY <2>1, <2>8 DEF Return, Reads
    <3>2. got[c] = stale \o wrote[c] BY <2>2, <2>3, <3>1 DEF Flow
    <3>3. result'[c].lines = got[c] \o stdout BY <3>1 DEF Finish, ShellType
    <3>4. result'[c].lines = stale \o wrote'[c] \o text BY <2>1, <2>3, <3>2, <3>3
    <3>5. Stale(c, stale)' BY <2>2, StaysStale DEF Flow
    <3>6. Absent(c)' BY <1>4, <2>1, <2>4 DEF Absent
    <3>7. text \in Texts(c)' BY DEF Texts
    <3>8. Settled(c)' BY <3>4, <3>5, <3>6, <3>7 DEF Settled
    <3> QED BY <1>6, <2>1, <2>5, <2>6, <3>1, <3>8
  <2> QED BY <2>7, <2>8
<1>18. ASSUME NEW c \in Calls, TimeOut(c) PROVE Goal
  <2>1. Call(c) /\ Reads(c) BY <1>18 DEF Call, TimeOut, Reads
  <2>2. CASE process = "reaped"
    <3>1. dead' /\ Finish(c, "timeout", <<>>) /\ UNCHANGED struck
      BY <1>18, <2>2 DEF TimeOut
    <3> QED BY <1>6, <2>1, <3>1
  <2>3. CASE process # "reaped"
    <3>1. /\ pc' = [pc EXCEPT ![c] = "draining"] /\ struck' = struck \cup ({job} \ {c, None})
          /\ UNCHANGED <<result, got, lock, dead, stdin, stdout, job, wrote>>
      BY <1>18, <2>3 DEF TimeOut, bashVars
    <3>2. lock = c /\ InFlow(c) /\ job \in {c, None} BY <1>1, <1>13, <2>1 DEF Unread
    <3>3. struck' = struck BY <3>1, <3>2
    <3>4. InFlow(c)' BY <3>1, <3>2, SameFlow DEF ShellType
    <3>5. \A d \in Calls : Ended(d, "output")' => pc[d] = "done"
      BY <3>1 DEF Ended, ShellType
    <3> QED BY <1>4, <1>7, <3>1, <3>2, <3>3, <3>4, <3>5
  <2> QED BY <2>2, <2>3
<1>19. ASSUME NEW c \in Calls, DrainTimesOut(c) PROVE Goal
  <2>1. Call(c) /\ Finish(c, "timeout", <<>>) /\ dead' /\ UNCHANGED struck
    BY <1>19 DEF Call, DrainTimesOut
  <2> QED BY <1>6, <2>1
<1>20. ASSUME NEW c \in Calls, Cancel(c) PROVE Goal
  <2>1. /\ pc' = [pc EXCEPT ![c] = "done"]
        /\ result' = [result EXCEPT ![c] =
              [kind |-> IF pc[c] = "waiting" THEN "cancelled" ELSE "raised", lines |-> <<>>]]
        /\ lock' = IF lock = c THEN None ELSE lock
        /\ got' = [got EXCEPT ![c] = <<>>]
        /\ UNCHANGED <<dead, stdin, stdout, job, wrote, struck>>
    BY <1>20 DEF Cancel, bashVars
  <2>2. pc[c] = "waiting"
    <3>1. SUFFICES ASSUME pc[c] # "waiting" PROVE FALSE OBVIOUS
    <3>2. Ended(c, "raised")' BY <2>1, <3>1 DEF Ended, ShellType
    <3> QED BY <3>2 DEF CutShort
  <2>3. lock # c /\ UNCHANGED lock BY <2>1, <2>2 DEF CallInv, Reads
  <2>4. ASSUME NEW d \in Calls, lock = d PROVE InFlow(d)'
    <3>1. d # c /\ InFlow(d) BY <1>1, <2>3, <2>4
    <3>2. pc'[d] = pc[d] /\ got'[d] = got[d] BY <2>1, <3>1 DEF ShellType
    <3> QED BY <2>1, <3>1, <3>2, SameFlow
  <2>5. lock = None /\ ~ dead => Between' BY <1>1, <1>3, <2>1
  <2>6. ASSUME NEW d \in Calls, Ended(d, "output")' PROVE pc[d] = "done"
    <3>1. d # c BY <2>1, <2>2, <2>6 DEF Ended, ShellType
    <3> QED BY <2>1, <2>6, <3>1 DEF Ended, ShellType
  <2> QED BY <1>7, <2>1, <2>3, <2>4, <2>5, <2>6
<1>21. CASE Bash
  <2>1. UNCHANGED <<pc, result, got, lock, dead, struck>>
    BY <1>21 DEF Bash, StartJob, EchoMarker, JobWrites, JobReadsStdin, JobEnds, BashExits, Reap,
                 callVars
  <2>2. \A d \in Calls : lock = d => InFlow(d)' BY <1>1, <1>21, BashFlow
  <2>3. ASSUME lock = None, ~ dead PROVE Between'
    <3>1. stdin = <<>> /\ job = None /\ Stale(None, stdout) BY <1>1, <2>3 DEF Between
    <3>2. stdin' = <<>> /\ stdout' = stdout /\ job' = None
      BY <1>21, <3>1 DEF Bash, StartJob, EchoMarker, JobWrites, JobReadsStdin, JobEnds, BashExits,
                         Reap, BashReads
    <3>3. UNCHANGED <<stdin, job, stdout>> BY <3>1, <3>2
    <3> QED BY <1>1, <1>3, <2>3, <3>3
  <2>4. \A d \in Calls : Ended(d, "output")' => pc[d] = "done" BY <2>1 DEF Ended
  <2> QED BY <1>7, <2>1, <2>2, <2>3, <2>4
<1>22. CASE UNCHANGED vars
  <2>1. UNCHANGED <<pc, result, got, lock, dead, struck, job, stdin, stdout, wrote>>
    BY <1>22 DEF vars, callVars, bashVars
  <2>2. \A d \in Calls : lock = d => InFlow(d)' BY <1>1, <2>1, SameFlow
  <2>3. lock = None /\ ~ dead => Between' BY <1>1, <1>3, <2>1
  <2>4. \A d \in Calls : Ended(d, "output")' => pc[d] = "done" BY <2>1 DEF Ended
  <2> QED BY <1>7, <2>1, <2>2, <2>3, <2>4
<1> HIDE DEF Goal
<1> QED
  BY <1>8, <1>9, <1>11, <1>12, <1>14, <1>15, <1>16, <1>17, <1>18, <1>19, <1>20, <1>21, <1>22
  DEF Next, Call, Enter, Read

-----------------------------------------------------------------------------
(* The theorems *)

\* Before the first call the stream is clean.
LEMMA ShellInit == Init => ShellInv
<1> SUFFICES ASSUME Init PROVE ShellInv
  OBVIOUS
<1>1. <<>> \in Seq(Items) OBVIOUS
<1>2. ShellType
  <2>1. got \in [Calls -> Seq(Items)] /\ wrote \in [Calls -> Seq(Items)] BY <1>1 DEF Init
  <2>2. cuts \in 0 .. MaxCuts BY CutsAssumption DEF Init
  <2>3. pc \in [Calls -> {"idle", "waiting", "reading", "draining", "done"}] BY DEF Init
  <2>4. \A c \in Calls : IF pc[c] = "done" THEN result[c] \in Results ELSE result[c] = None
    BY DEF Init
  <2> QED BY <1>1, <2>1, <2>2, <2>3, <2>4 DEF Init, ShellType
<1>3. CallInv BY NoneAssumption DEF Init, CallInv, Reads, Absent
<1>4. StreamInv BY NoneAssumption DEF Init, StreamInv, Between, Stale, Ended
<1> QED BY <1>2, <1>3, <1>4 DEF ShellInv

\* The strengthening of the properties below is inductive: who reads holds the lock, nobody
\* else's command is in the shell, and until a reading is cut short or a command forges a
\* marker the pipe holds what is left of the output of the reading call, what bash prints
\* for its echo last, after at most one stale marker.
THEOREM ShellSafety == Spec => []ShellInv
<1>1. ShellInv /\ [Next]_vars => ShellInv'
  BY TypeStep, CallStep, StreamStep DEF ShellInv
<1> QED BY ShellInit, <1>1, PTL DEF Spec

\* The lock of the shell is held by the one call that reads, whatever is cancelled, times out
\* or breaks, and every variable has its type.
THEOREM TypeCorrect == Spec => []TypeOK
<1>1. ShellInv => TypeOK
  <2> SUFFICES ASSUME ShellInv PROVE TypeOK
    OBVIOUS
  <2>1. \A s \in Seq(Items) : IsItems(s)
    <3>1. \A s \in Seq(Items) : \A i \in 1 .. Len(s) : s[i] \in Items OBVIOUS
    <3> QED BY <3>1 DEF IsItems, Items
  <2>2. ASSUME NEW c \in Calls
        PROVE  IF pc[c] = "done"
               THEN /\ result[c].kind \in {"output", "timeout", "refused", "raised", "cancelled"}
                    /\ IsItems(result[c].lines)
               ELSE result[c] = None
    BY <2>1 DEF ShellInv, ShellType, Results
  <2>3. \A c \in Calls : IsItems(got[c]) /\ IsItems(wrote[c])
    BY <2>1 DEF ShellInv, ShellType
  <2>4. IsItems(stdin) /\ IsItems(stdout) BY <2>1 DEF ShellInv, ShellType
  <2>5. \A c \in Calls : Reads(c) <=> lock = c BY DEF ShellInv, CallInv
  <2> QED BY <2>2, <2>3, <2>4, <2>5 DEF ShellInv, ShellType, TypeOK
<1> QED BY ShellSafety, <1>1, PTL

\* However the calls of a shell are interleaved with bash, its commands, timeouts, interrupts
\* and exits, traced or not: until a reading is cut short or a command forges a marker, no
\* more of a command is left for the next call than a second marker, and a call returns the
\* lines of its own command, all of them and in order, after at most one such marker.
THEOREM NoCrossTalkHolds == Spec => []NoCrossTalk
<1>1. ShellInv => NoCrossTalk
  <2> SUFFICES ASSUME ShellInv PROVE NoCrossTalk
    OBVIOUS
  <2>1. CleanBetweenCalls BY DEF ShellInv, StreamInv, CleanBetweenCalls, Between
  <2>2. ASSUME ~ CutShort, ~ Forged, NEW c \in Calls, Ended(c, "output")
        PROVE  /\ \E stale \in {<<>>} \cup {<<Item(d, "marker")>> : d \in Calls},
                     text \in {<<>>, <<Item(c, "text")>>} :
                     Stale(c, stale) /\ result[c].lines = stale \o wrote[c] \o text
               /\ c \notin struck
    <3>1. struck = {} /\ Settled(c) BY <2>2 DEF ShellInv, StreamInv
    <3>2. PICK stale \in Seq(Items), text \in Texts(c) :
              Stale(c, stale) /\ result[c].lines = stale \o wrote[c] \o text
      BY <3>1 DEF Settled
    <3>3. stale \in {<<>>} \cup {<<Item(d, "marker")>> : d \in Calls} BY <3>2 DEF Stale
    <3> QED BY <3>1, <3>2, <3>3 DEF Texts
  <2>3. OutputIsOwn BY <2>2 DEF OutputIsOwn
  <2> QED BY <2>1, <2>3 DEF NoCrossTalk
<1> QED BY ShellSafety, <1>1, PTL
===============================================================================
