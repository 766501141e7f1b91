------------------------- MODULE ChatHistoryProofs -------------------------
(***************************************************************************)
(* ChatHistory's safety for every number of chats, turns and calls, every  *)
(* size of a message and both limits.  The first half is about histories:  *)
(* what Only and Cost, which are recursive, come to for a history that is  *)
(* one after another, and what Compact keeps of it.  The inductive         *)
(* invariant says of each transcript which parts of what was said it is,   *)
(* and of every message that it is answered where it stands.               *)
(***************************************************************************)
EXTENDS ChatHistory, FiniteSetTheorems, SequenceTheorems, TLAPS

-----------------------------------------------------------------------------
(* Recursion over a history *)

\* A set that holds 0 and every successor of its members holds every number.
LEMMA Induction ==
    ASSUME NEW G, 0 \in G, \A n \in Nat : n \in G => n + 1 \in G
    PROVE  Nat \subseteq G
<1> SUFFICES ASSUME NEW T, T = Nat \ G, T # {} PROVE FALSE OBVIOUS
<1>1. PICK R : R = {p \in Nat \X Nat : p[1] < p[2]} OBVIOUS
<1>2. IsWellFoundedOn(R, Nat) BY <1>1, NatLessThanWellFounded DEF OpToRel
<1>3. PICK n \in T : \A m \in T : ~ (<<m, n>> \in R) BY <1>2, WFMin
<1>4. n \in Nat \ {0} /\ n - 1 \in Nat /\ (n - 1) + 1 = n OBVIOUS
<1>5. <<n - 1, n>> \in R BY <1>1, <1>4
<1>6. n - 1 \in G BY <1>3, <1>4, <1>5
<1> QED BY <1>4, <1>6

(* What comes of n messages, one after the other.                          *)
Stages(f, n, base, step) ==
    /\ f[0] = base
    /\ \A i \in 1 .. n : f[i] = step[<<f[i - 1], i>>]

\* The recursion of Cost and Only has a solution.
LEMMA StagesExist ==
    ASSUME NEW S, NEW base \in S, NEW n \in Nat, NEW step \in [S \X Nat -> S]
    PROVE  \E f \in [0 .. n -> S] : Stages(f, n, base, step)
<1> DEFINE Has(k) == \E f \in [0 .. k -> S] : Stages(f, k, base, step)
<1>1. PICK L : L = {k \in Nat : Has(k)} OBVIOUS
<1>2. Has(0)
  <2>1. PICK f : f = [i \in 0 .. 0 |-> base] OBVIOUS
  <2>2. f \in [0 .. 0 -> S] BY <2>1
  <2>3. Stages(f, 0, base, step) BY <2>1 DEF Stages
  <2> QED BY <2>2, <2>3
<1>3. ASSUME NEW k \in Nat, NEW g \in [0 .. k -> S], Stages(g, k, base, step)
      PROVE  Has(k + 1)
  <2>1. PICK last : last = step[<<g[k], k + 1>>] OBVIOUS
  <2>2. last \in S BY <2>1
  <2>3. PICK f : f = [i \in 0 .. k + 1 |-> IF i <= k THEN g[i] ELSE last] OBVIOUS
  <2>4. f \in [0 .. k + 1 -> S] BY <2>2, <2>3
  <2>5. f[0] = base BY <1>3, <2>3 DEF Stages
  <2>6. ASSUME NEW i \in 1 .. k + 1 PROVE f[i] = step[<<f[i - 1], i>>]
    <3>1. f[i - 1] = g[i - 1] BY <2>3
    <3>2. CASE i <= k
      <4>1. i \in 1 .. k BY <3>2
      <4>2. f[i] = g[i] BY <2>3, <3>2
      <4>3. g[i] = step[<<g[i - 1], i>>] BY <1>3, <4>1 DEF Stages
      <4> QED BY <3>1, <4>2, <4>3
    <3>3. CASE ~ (i <= k)
      <4>1. i = k + 1 BY <3>3
      <4>2. f[i] = last BY <2>3, <3>3
      <4>3. f[i - 1] = g[k] BY <3>1, <4>1
      <4> QED BY <2>1, <4>1, <4>2, <4>3
    <3> QED BY <3>2, <3>3
  <2>7. Stages(f, k + 1, base, step) BY <2>5, <2>6 DEF Stages
  <2> QED BY <2>4, <2>7
<1>4. \A k \in Nat : Has(k) => Has(k + 1) BY <1>3, Zenon
<1>5. Has(n)
  <2> HIDE DEF Has
  <2>1. 0 \in L BY <1>1, <1>2
  <2>2. \A k \in Nat : k \in L => k + 1 \in L BY <1>1, <1>4
  <2>3. Nat \subseteq L BY <2>1, <2>2, Induction
  <2> QED BY <1>1, <2>3
<1> QED BY <1>5

(* The stages of Only: what is kept of the first messages.                 *)
Picks(f, s, some) ==
    /\ f[0] = <<>>
    /\ \A i \in 1 .. Len(s) :
          f[i] = IF s[i] \in some THEN Append(f[i - 1], s[i]) ELSE f[i - 1]

\* Only is the last of its stages, which are sequences of messages of the history.
LEMMA OnlyIs ==
    ASSUME NEW T, NEW s \in Seq(T), NEW some
    PROVE  \E f \in [0 .. Len(s) -> Seq(T)] : Picks(f, s, some) /\ Only(s, some) = f[Len(s)]
<1>1. PICK step : step = [p \in Seq(T) \X Nat |->
                             IF p[2] \in 1 .. Len(s) /\ s[p[2]] \in some
                             THEN Append(p[1], s[p[2]]) ELSE p[1]]
  OBVIOUS
<1>2. step \in [Seq(T) \X Nat -> Seq(T)]
  <2>1. ASSUME NEW x \in Seq(T), NEW i \in Nat
        PROVE  (IF i \in 1 .. Len(s) /\ s[i] \in some THEN Append(x, s[i]) ELSE x) \in Seq(T)
    OBVIOUS
  <2> QED BY <1>1, <2>1
<1>3. <<>> \in Seq(T) /\ Len(s) \in Nat OBVIOUS
<1>4. PICK f \in [0 .. Len(s) -> Seq(T)] : Stages(f, Len(s), <<>>, step)
  BY <1>2, <1>3, StagesExist
<1>5. ASSUME NEW i \in 1 .. Len(s)
      PROVE  f[i] = IF s[i] \in some THEN Append(f[i - 1], s[i]) ELSE f[i - 1]
  <2>1. f[i - 1] \in Seq(T) /\ i \in Nat BY <1>3
  <2>2. f[i] = step[<<f[i - 1], i>>] BY <1>4 DEF Stages
  <2>3. PICK x : x = f[i - 1] OBVIOUS
  <2>4. <<x, i>> \in Seq(T) \X Nat BY <2>1, <2>3
  <2>5. step[<<x, i>>] = IF s[i] \in some THEN Append(x, s[i]) ELSE x BY <1>1, <2>4
  <2> QED BY <2>2, <2>3, <2>5
<1>6. Picks(f, s, some) BY <1>4, <1>5 DEF Picks, Stages
<1>7. f = [n \in 0 .. Len(s) |->
              IF n = 0 THEN <<>>
              ELSE IF s[n] \in some THEN Append(f[n - 1], s[n]) ELSE f[n - 1]]
  <2>1. ASSUME NEW n \in 0 .. Len(s)
        PROVE  f[n] = IF n = 0 THEN <<>>
                      ELSE IF s[n] \in some THEN Append(f[n - 1], s[n]) ELSE f[n - 1]
    <3>1. CASE n = 0 BY <1>6, <3>1 DEF Picks
    <3>2. CASE n # 0
      <4>1. n \in 1 .. Len(s) BY <3>2
      <4> QED BY <1>5, <3>2, <4>1
    <3> QED BY <3>1, <3>2
  <2> QED BY <2>1
<1>8. PICK g : /\ g = [n \in 0 .. Len(s) |->
                          IF n = 0 THEN <<>>
                          ELSE IF s[n] \in some THEN Append(g[n - 1], s[n]) ELSE g[n - 1]]
               /\ Only(s, some) = g[Len(s)]
  BY <1>7 DEF Only
<1>9. PICK L : L = {n \in Nat : n <= Len(s) => g[n] = f[n]} OBVIOUS
<1>10. 0 \in L
  <2>1. 0 \in 0 .. Len(s) BY <1>3
  <2>2. g[0] = <<>> BY <1>8, <2>1
  <2> QED BY <1>6, <1>9, <2>2 DEF Picks
<1>11. ASSUME NEW n \in Nat, n \in L PROVE n + 1 \in L
  <2>1. CASE n + 1 <= Len(s)
    <3>1. n + 1 \in 1 .. Len(s) /\ n + 1 \in 0 .. Len(s) /\ n + 1 # 0 /\ (n + 1) - 1 = n
      BY <1>3, <2>1
    <3>2. g[n] = f[n] BY <1>3, <1>9, <1>11, <2>1
    <3>3. g[n + 1] = IF s[n + 1] \in some THEN Append(g[n], s[n + 1]) ELSE g[n]
      BY <1>8, <3>1
    <3>4. f[n + 1] = IF s[n + 1] \in some THEN Append(f[n], s[n + 1]) ELSE f[n]
      BY <1>5, <3>1
    <3>5. g[n + 1] = f[n + 1] BY <3>2, <3>3, <3>4
    <3> QED BY <1>9, <3>5
  <2> QED BY <1>9, <2>1
<1>12. Nat \subseteq L BY <1>10, <1>11, Induction
<1>13. g[Len(s)] = f[Len(s)] BY <1>3, <1>9, <1>12
<1> QED BY <1>6, <1>8, <1>13

\* A concatenation, element by element.
LEMMA ConcatIs ==
    ASSUME NEW T, NEW s \in Seq(T), NEW t \in Seq(T)
    PROVE  /\ s \o t \in Seq(T) /\ Len(s \o t) = Len(s) + Len(t)
           /\ \A k \in 1 .. Len(s) : (s \o t)[k] = s[k]
           /\ \A k \in 1 .. Len(t) : (s \o t)[Len(s) + k] = t[k]
OBVIOUS

(* One sequence and then another, element by element.                      *)
Follows(u, s, t) ==
    /\ Len(u) = Len(s) + Len(t)
    /\ \A k \in 1 .. Len(s) : u[k] = s[k]
    /\ \A k \in 1 .. Len(t) : u[Len(s) + k] = t[k]

\* That is their concatenation.
LEMMA FollowsIs ==
    ASSUME NEW T, NEW u \in Seq(T), NEW s \in Seq(T), NEW t \in Seq(T), Follows(u, s, t)
    PROVE  u = s \o t
<1>1. PICK h : h = s \o t OBVIOUS
<1>2. h \in Seq(T) /\ Follows(h, s, t) BY <1>1, ConcatIs DEF Follows
<1>3. Len(s) \in Nat /\ Len(t) \in Nat OBVIOUS
<1>4. Len(u) = Len(h) /\ Len(h) = Len(s) + Len(t) BY <1>2 DEF Follows
<1>5. ASSUME NEW i \in 1 .. Len(u) PROVE u[i] = h[i]
  <2>1. CASE i <= Len(s)
    <3>1. i \in 1 .. Len(s) BY <1>3, <2>1
    <3> QED BY <1>2, <3>1 DEF Follows
  <2>2. CASE ~ (i <= Len(s))
    <3>1. i - Len(s) \in 1 .. Len(t) /\ Len(s) + (i - Len(s)) = i BY <1>3, <1>4, <2>2
    <3>2. u[Len(s) + (i - Len(s))] = t[i - Len(s)] BY <3>1 DEF Follows
    <3>3. h[Len(s) + (i - Len(s))] = t[i - Len(s)] BY <1>2, <3>1 DEF Follows
    <3> QED BY <3>1, <3>2, <3>3
  <2> QED BY <2>1, <2>2
<1>6. u = h
  <2>1. h \in Seq(T) BY <1>2
  <2> QED BY <1>4, <1>5, <2>1, SeqEqual
<1> QED BY <1>1, <1>6

\* Another element comes at its end.
LEMMA AppendFollows ==
    ASSUME NEW T, NEW u \in Seq(T), NEW s \in Seq(T), NEW t \in Seq(T), NEW m \in T,
           Follows(u, s, t)
    PROVE  Follows(Append(u, m), s, Append(t, m))
<1>1. PICK a, b : a = Append(u, m) /\ b = Append(t, m) OBVIOUS
<1>2. /\ Len(a) = Len(u) + 1 /\ a[Len(u) + 1] = m
      /\ \A k \in 1 .. Len(u) : a[k] = u[k]
  BY <1>1
<1>3. /\ Len(b) = Len(t) + 1 /\ b[Len(t) + 1] = m
      /\ \A k \in 1 .. Len(t) : b[k] = t[k]
  BY <1>1
<1>4. PICK x, y : x = Len(s) /\ y = Len(t) OBVIOUS
<1>5. x \in Nat /\ y \in Nat /\ Len(u) = x + y BY <1>4 DEF Follows
<1>6. Len(a) = x + Len(b) BY <1>2, <1>3, <1>4, <1>5
<1>7. ASSUME NEW k \in 1 .. x PROVE a[k] = s[k]
  <2>1. k \in 1 .. Len(u) BY <1>5
  <2>2. u[k] = s[k] BY <1>4 DEF Follows
  <2> QED BY <1>2, <2>1, <2>2
<1>8. ASSUME NEW k \in 1 .. Len(b) PROVE a[x + k] = b[k]
  <2>1. CASE k <= y
    <3>1. k \in 1 .. Len(t) /\ x + k \in 1 .. Len(u) BY <1>3, <1>4, <1>5, <2>1
    <3>2. u[x + k] = t[k] BY <1>4, <3>1 DEF Follows
    <3> QED BY <1>2, <1>3, <3>1, <3>2
  <2>2. CASE ~ (k <= y)
    <3>1. Len(b) = y + 1 BY <1>3, <1>4
    <3>2. k = y + 1 /\ x + k = Len(u) + 1 BY <1>5, <2>2, <3>1
    <3> QED BY <1>2, <1>3, <1>4, <3>2
  <2> QED BY <2>1, <2>2
<1> QED BY <1>1, <1>4, <1>6, <1>7, <1>8 DEF Follows

Joined(s, t) == s \o t

\* Joining is putting one after the other.
LEMMA JoinedIs ==
    ASSUME NEW T, NEW s \in Seq(T), NEW t \in Seq(T)
    PROVE  Joined(s, t) \in Seq(T) /\ Follows(Joined(s, t), s, t)
BY ConcatIs DEF Joined, Follows

\* Only, of one history after another.
LEMMA OnlyJoined ==
    ASSUME NEW T, NEW s \in Seq(T), NEW t \in Seq(T), NEW some
    PROVE  /\ Only(s, some) \in Seq(T) /\ Only(t, some) \in Seq(T)
           /\ Only(Joined(s, t), some) = Joined(Only(s, some), Only(t, some))
<1>1. PICK h : h = Joined(s, t) OBVIOUS
<1>2. /\ h \in Seq(T) /\ Len(h) = Len(s) + Len(t)
      /\ \A k \in 1 .. Len(s) : h[k] = s[k]
      /\ \A k \in 1 .. Len(t) : h[Len(s) + k] = t[k]
  BY <1>1, ConcatIs DEF Joined
<1>3. PICK f \in [0 .. Len(s) -> Seq(T)] : Picks(f, s, some) /\ Only(s, some) = f[Len(s)]
  BY OnlyIs
<1>4. PICK g \in [0 .. Len(t) -> Seq(T)] : Picks(g, t, some) /\ Only(t, some) = g[Len(t)]
  BY OnlyIs
<1>5. PICK e \in [0 .. Len(h) -> Seq(T)] : Picks(e, h, some) /\ Only(h, some) = e[Len(h)]
  <2>1. h \in Seq(T) BY <1>2
  <2> QED BY <2>1, OnlyIs
<1>6. PICK a, b : a = Len(s) /\ b = Len(t) OBVIOUS
<1>7. a \in Nat /\ b \in Nat /\ Len(h) = a + b BY <1>2, <1>6
<1>8. \A n \in 0 .. a : e[n] = f[n]
  <2>1. PICK L : L = {n \in Nat : n <= a => e[n] = f[n]} OBVIOUS
  <2>2. 0 \in L BY <1>3, <1>5, <2>1 DEF Picks
  <2>3. ASSUME NEW n \in Nat, n \in L PROVE n + 1 \in L
    <3>1. CASE n + 1 <= a
      <4>1. n + 1 \in 1 .. Len(s) /\ n + 1 \in 1 .. Len(h) /\ (n + 1) - 1 = n
        BY <1>6, <1>7, <3>1
      <4>2. e[n] = f[n] BY <1>7, <2>1, <2>3, <3>1
      <4>3. h[n + 1] = s[n + 1] BY <1>2, <4>1
      <4>4. e[n + 1] = IF h[n + 1] \in some THEN Append(e[n], h[n + 1]) ELSE e[n]
        BY <1>5, <4>1 DEF Picks
      <4>5. f[n + 1] = IF s[n + 1] \in some THEN Append(f[n], s[n + 1]) ELSE f[n]
        BY <1>3, <4>1 DEF Picks
      <4>6. e[n + 1] = f[n + 1] BY <4>2, <4>3, <4>4, <4>5
      <4> QED BY <2>1, <4>6
    <3> QED BY <2>1, <3>1
  <2>4. Nat \subseteq L BY <2>2, <2>3, Induction
  <2> QED BY <1>7, <2>1, <2>4
<1>9. PICK x : x = f[a] OBVIOUS
<1>10. x \in Seq(T) /\ x = Only(s, some) BY <1>3, <1>6, <1>7, <1>9
<1>11. \A n \in 0 .. b : Follows(e[a + n], x, g[n])
  <2>1. PICK L : L = {n \in Nat : n <= b => Follows(e[a + n], x, g[n])} OBVIOUS
  <2>2. 0 \in L
    <3>1. a \in 0 .. a /\ a + 0 = a BY <1>7
    <3>2. e[a + 0] = x BY <1>8, <1>9, <3>1
    <3>3. g[0] = <<>> BY <1>4 DEF Picks
    <3>4. Follows(x, x, <<>>) BY <1>10 DEF Follows
    <3> QED BY <2>1, <3>2, <3>3, <3>4
  <2>3. ASSUME NEW n \in Nat, n \in L PROVE n + 1 \in L
    <3>1. CASE n + 1 <= b
      <4>1. /\ n + 1 \in 1 .. Len(t) /\ a + (n + 1) \in 1 .. Len(h)
            /\ (n + 1) - 1 = n /\ (a + (n + 1)) - 1 = a + n
            /\ n \in 0 .. Len(t) /\ a + n \in 0 .. Len(h)
        BY <1>6, <1>7, <3>1
      <4>2. PICK y, z, m : y = g[n] /\ z = e[a + n] /\ m = t[n + 1] OBVIOUS
      <4>3. y \in Seq(T) BY <4>1, <4>2
      <4>4. z \in Seq(T) BY <4>1, <4>2
      <4>5. m \in T BY <4>1, <4>2
      <4>6. Follows(z, x, y) BY <1>7, <2>1, <2>3, <3>1, <4>2
      <4>7. h[a + (n + 1)] = m BY <1>2, <1>6, <4>1, <4>2
      <4>8. e[a + (n + 1)] = IF m \in some THEN Append(z, m) ELSE z
        BY <1>5, <4>1, <4>2, <4>7 DEF Picks
      <4>9. g[n + 1] = IF m \in some THEN Append(y, m) ELSE y
        BY <1>4, <4>1, <4>2 DEF Picks
      <4>10. x \in Seq(T) BY <1>10
      <4>11. Follows(Append(z, m), x, Append(y, m))
        BY <4>3, <4>4, <4>5, <4>6, <4>10, AppendFollows
      <4>12. Follows(e[a + (n + 1)], x, g[n + 1]) BY <4>6, <4>8, <4>9, <4>11
      <4> QED BY <2>1, <4>12
    <3> QED BY <2>1, <3>1
  <2>4. Nat \subseteq L BY <2>2, <2>3, Induction
  <2>5. ASSUME NEW n \in 0 .. b PROVE Follows(e[a + n], x, g[n])
    <3>1. n \in L /\ n <= b BY <1>7, <2>4
    <3> QED BY <2>1, <3>1
  <2> QED BY <2>5
<1>12. Follows(Only(h, some), Only(s, some), Only(t, some))
  <2>1. b \in 0 .. b /\ Len(t) = b /\ Len(h) = a + b BY <1>6, <1>7
  <2>2. Follows(e[a + b], x, g[b]) BY <1>11, <2>1
  <2> QED BY <1>4, <1>5, <1>10, <2>1, <2>2
<1>13. Only(t, some) \in Seq(T)
  <2>1. Len(t) \in 0 .. Len(t) BY <1>6, <1>7
  <2> QED BY <1>4, <2>1
<1>14. Only(h, some) \in Seq(T)
  <2>1. Len(h) \in 0 .. Len(h) BY <1>7
  <2> QED BY <1>5, <2>1
<1>15. Only(s, some) \in Seq(T) BY <1>10
<1>16. Only(h, some) = Joined(Only(s, some), Only(t, some))
  BY <1>12, <1>13, <1>14, <1>15, FollowsIs DEF Joined
<1> QED BY <1>1, <1>13, <1>15, <1>16

\* All of a history, and nothing of it.
LEMMA OnlyAll ==
    ASSUME NEW T, NEW s \in Seq(T), NEW some, \A i \in 1 .. Len(s) : s[i] \in some
    PROVE  Only(s, some) = s
<1>1. PICK f \in [0 .. Len(s) -> Seq(T)] : Picks(f, s, some) /\ Only(s, some) = f[Len(s)]
  BY OnlyIs
<1>2. PICK L : L = {n \in Nat : n <= Len(s) =>
                       Len(f[n]) = n /\ \A k \in 1 .. n : f[n][k] = s[k]}
  OBVIOUS
<1>3. 0 \in L
  <2>1. f[0] = <<>> BY <1>1 DEF Picks
  <2> QED BY <1>2, <2>1
<1>4. ASSUME NEW n \in Nat, n \in L PROVE n + 1 \in L
  <2>1. CASE n + 1 <= Len(s)
    <3>1. n + 1 \in 1 .. Len(s) /\ (n + 1) - 1 = n /\ n \in 0 .. Len(s) BY <2>1
    <3>2. f[n + 1] = Append(f[n], s[n + 1]) BY <1>1, <3>1 DEF Picks
    <3>3. PICK x, m : x = f[n] /\ m = s[n + 1] OBVIOUS
    <3>4. x \in Seq(T) /\ m \in T BY <1>1, <3>1, <3>3
    <3>5. Len(x) = n /\ \A k \in 1 .. n : x[k] = s[k] BY <1>2, <1>4, <3>1, <3>3
    <3>6. PICK y : y = Append(x, m) OBVIOUS
    <3>7. Len(y) = n + 1 /\ (\A k \in 1 .. n : y[k] = x[k]) /\ y[n + 1] = m
      BY <3>4, <3>5, <3>6
    <3>8. \A k \in 1 .. n + 1 : y[k] = s[k] BY <3>3, <3>5, <3>7
    <3>9. f[n + 1] = y BY <3>2, <3>3, <3>6
    <3> QED BY <1>2, <3>7, <3>8, <3>9
  <2> QED BY <1>2, <2>1
<1>5. Nat \subseteq L BY <1>3, <1>4, Induction
<1>6. PICK y : y = f[Len(s)] OBVIOUS
<1>7. Len(s) \in Nat /\ y \in Seq(T) BY <1>1, <1>6
<1>8. Len(y) = Len(s) /\ \A k \in 1 .. Len(s) : y[k] = s[k] BY <1>2, <1>5, <1>6, <1>7
<1>9. y = s BY <1>7, <1>8, SeqEqual
<1> QED BY <1>1, <1>6, <1>9

\* Nothing of a history, when none of its messages is wanted.
LEMMA OnlyNone ==
    ASSUME NEW T, NEW s \in Seq(T), NEW some, \A i \in 1 .. Len(s) : s[i] \notin some
    PROVE  Only(s, some) = <<>>
<1>1. PICK f \in [0 .. Len(s) -> Seq(T)] : Picks(f, s, some) /\ Only(s, some) = f[Len(s)]
  BY OnlyIs
<1>2. PICK L : L = {n \in Nat : n <= Len(s) => f[n] = <<>>} OBVIOUS
<1>3. 0 \in L BY <1>1, <1>2 DEF Picks
<1>4. ASSUME NEW n \in Nat, n \in L PROVE n + 1 \in L
  <2>1. CASE n + 1 <= Len(s)
    <3>1. n + 1 \in 1 .. Len(s) /\ (n + 1) - 1 = n BY <2>1
    <3>2. f[n + 1] = f[n] BY <1>1, <3>1 DEF Picks
    <3> QED BY <1>2, <1>4, <3>1, <3>2
  <2> QED BY <1>2, <2>1
<1>5. Nat \subseteq L BY <1>3, <1>4, Induction
<1> QED BY <1>1, <1>2, <1>5

(* The stages of Cost.                                                     *)
Adds(f, s) == f[0] = 0 /\ \A i \in 1 .. Len(s) : f[i] = f[i - 1] + s[i].size

Sized(T) == \A m \in T : m.size \in Nat \ {0}

\* Cost is the last of its stages.
LEMMA CostIs ==
    ASSUME NEW T, Sized(T), NEW s \in Seq(T)
    PROVE  \E f \in [0 .. Len(s) -> Nat] : Adds(f, s) /\ Cost(s) = f[Len(s)]
<1>1. PICK step : step = [p \in Nat \X Nat |->
                             IF p[2] \in 1 .. Len(s) THEN p[1] + s[p[2]].size ELSE p[1]]
  OBVIOUS
<1>2. step \in [Nat \X Nat -> Nat]
  <2>1. ASSUME NEW x \in Nat, NEW i \in Nat
        PROVE  (IF i \in 1 .. Len(s) THEN x + s[i].size ELSE x) \in Nat
    <3>1. CASE i \in 1 .. Len(s)
      <4>1. s[i] \in T BY <3>1
      <4>2. s[i].size \in Nat BY <4>1 DEF Sized
      <4> QED BY <3>1, <4>2
    <3> QED BY <3>1
  <2> QED BY <1>1, <2>1
<1>3. 0 \in Nat /\ Len(s) \in Nat OBVIOUS
<1>4. PICK f \in [0 .. Len(s) -> Nat] : Stages(f, Len(s), 0, step)
  BY <1>2, <1>3, StagesExist
<1>5. ASSUME NEW i \in 1 .. Len(s) PROVE f[i] = f[i - 1] + s[i].size
  <2>1. f[i - 1] \in Nat /\ i \in Nat BY <1>3
  <2>2. f[i] = step[<<f[i - 1], i>>] BY <1>4 DEF Stages
  <2>3. PICK x : x = f[i - 1] OBVIOUS
  <2>4. <<x, i>> \in Nat \X Nat BY <2>1, <2>3
  <2>5. step[<<x, i>>] = x + s[i].size BY <1>1, <2>4
  <2> QED BY <2>2, <2>3, <2>5
<1>6. Adds(f, s) BY <1>4, <1>5 DEF Adds, Stages
<1>7. f = [n \in 0 .. Len(s) |-> IF n = 0 THEN 0 ELSE f[n - 1] + s[n].size]
  <2>1. ASSUME NEW n \in 0 .. Len(s)
        PROVE  f[n] = IF n = 0 THEN 0 ELSE f[n - 1] + s[n].size
    <3>1. CASE n = 0 BY <1>6, <3>1 DEF Adds
    <3>2. CASE n # 0
      <4>1. n \in 1 .. Len(s) BY <3>2
      <4> QED BY <1>5, <3>2, <4>1
    <3> QED BY <3>1, <3>2
  <2> QED BY <2>1
<1>8. PICK g : /\ g = [n \in 0 .. Len(s) |-> IF n = 0 THEN 0 ELSE g[n - 1] + s[n].size]
               /\ Cost(s) = g[Len(s)]
  BY <1>7 DEF Cost
<1>9. PICK L : L = {n \in Nat : n <= Len(s) => g[n] = f[n]} OBVIOUS
<1>10. 0 \in L
  <2>1. 0 \in 0 .. Len(s) BY <1>3
  <2>2. g[0] = 0 BY <1>8, <2>1
  <2> QED BY <1>6, <1>9, <2>2 DEF Adds
<1>11. ASSUME NEW n \in Nat, n \in L PROVE n + 1 \in L
  <2>1. CASE n + 1 <= Len(s)
    <3>1. n + 1 \in 1 .. Len(s) /\ n + 1 \in 0 .. Len(s) /\ n + 1 # 0 /\ (n + 1) - 1 = n
      BY <1>3, <2>1
    <3>2. g[n] = f[n] BY <1>3, <1>9, <1>11, <2>1
    <3>3. g[n + 1] = g[n] + s[n + 1].size BY <1>8, <3>1
    <3>4. f[n + 1] = f[n] + s[n + 1].size BY <1>5, <3>1
    <3>5. g[n + 1] = f[n + 1] BY <3>2, <3>3, <3>4
    <3> QED BY <1>9, <3>5
  <2> QED BY <1>9, <2>1
<1>12. Nat \subseteq L BY <1>10, <1>11, Induction
<1>13. g[Len(s)] = f[Len(s)] BY <1>3, <1>9, <1>12
<1> QED BY <1>6, <1>8, <1>13

\* The tokens of one history after another; no message is without.
LEMMA CostJoined ==
    ASSUME NEW T, Sized(T), NEW s \in Seq(T), NEW t \in Seq(T)
    PROVE  /\ Cost(s) \in Nat /\ Cost(t) \in Nat
           /\ Cost(Joined(s, t)) = Cost(s) + Cost(t)
           /\ t # <<>> => Cost(t) > 0
<1>1. PICK h : h = Joined(s, t) OBVIOUS
<1>2. /\ h \in Seq(T) /\ Len(h) = Len(s) + Len(t)
      /\ \A k \in 1 .. Len(s) : h[k] = s[k]
      /\ \A k \in 1 .. Len(t) : h[Len(s) + k] = t[k]
  BY <1>1, ConcatIs DEF Joined
<1>3. PICK f \in [0 .. Len(s) -> Nat] : Adds(f, s) /\ Cost(s) = f[Len(s)] BY CostIs
<1>4. PICK g \in [0 .. Len(t) -> Nat] : Adds(g, t) /\ Cost(t) = g[Len(t)] BY CostIs
<1>5. PICK e \in [0 .. Len(h) -> Nat] : Adds(e, h) /\ Cost(h) = e[Len(h)] BY <1>2, CostIs
<1>6. PICK a, b : a = Len(s) /\ b = Len(t) OBVIOUS
<1>7. a \in Nat /\ b \in Nat /\ Len(h) = a + b BY <1>2, <1>6
<1>8. \A n \in 0 .. a : e[n] = f[n]
  <2>1. PICK L : L = {n \in Nat : n <= a => e[n] = f[n]} OBVIOUS
  <2>2. 0 \in L BY <1>3, <1>5, <2>1 DEF Adds
  <2>3. ASSUME NEW n \in Nat, n \in L PROVE n + 1 \in L
    <3>1. CASE n + 1 <= a
      <4>1. n + 1 \in 1 .. Len(s) /\ n + 1 \in 1 .. Len(h) /\ (n + 1) - 1 = n
        BY <1>6, <1>7, <3>1
      <4>2. e[n] = f[n] BY <1>7, <2>1, <2>3, <3>1
      <4>3. h[n + 1] = s[n + 1] BY <1>2, <4>1
      <4>4. e[n + 1] = e[n] + h[n + 1].size BY <1>5, <4>1 DEF Adds
      <4>5. f[n + 1] = f[n] + s[n + 1].size BY <1>3, <4>1 DEF Adds
      <4>6. e[n + 1] = f[n + 1] BY <4>2, <4>3, <4>4, <4>5
      <4> QED BY <2>1, <4>6
    <3> QED BY <2>1, <3>1
  <2>4. Nat \subseteq L BY <2>2, <2>3, Induction
  <2> QED BY <1>7, <2>1, <2>4
<1>9. PICK x : x = f[a] OBVIOUS
<1>10. x \in Nat /\ x = Cost(s) BY <1>3, <1>6, <1>7, <1>9
<1>11. \A n \in 0 .. b : e[a + n] = x + g[n] /\ g[n] >= n
  <2>1. PICK L : L = {n \in Nat : n <= b => e[a + n] = x + g[n] /\ g[n] >= n} OBVIOUS
  <2>2. 0 \in L
    <3>1. a \in 0 .. a /\ a + 0 = a BY <1>7
    <3>2. e[a + 0] = x BY <1>8, <1>9, <3>1
    <3>3. g[0] = 0 BY <1>4 DEF Adds
    <3>4. x + 0 = x BY <1>10
    <3> QED BY <2>1, <3>2, <3>3, <3>4
  <2>3. ASSUME NEW n \in Nat, n \in L PROVE n + 1 \in L
    <3>1. CASE n + 1 <= b
      <4>1. /\ n + 1 \in 1 .. Len(t) /\ a + (n + 1) \in 1 .. Len(h)
            /\ (n + 1) - 1 = n /\ (a + (n + 1)) - 1 = a + n /\ n \in 0 .. Len(t)
        BY <1>6, <1>7, <3>1
      <4>2. e[a + n] = x + g[n] /\ g[n] >= n BY <1>7, <2>1, <2>3, <3>1
      <4>3. h[a + (n + 1)] = t[n + 1] BY <1>2, <1>6, <4>1
      <4>4. e[a + (n + 1)] = e[a + n] + h[a + (n + 1)].size BY <1>5, <4>1 DEF Adds
      <4>5. g[n + 1] = g[n] + t[n + 1].size BY <1>4, <4>1 DEF Adds
      <4>6. PICK y, z : y = g[n] /\ z = t[n + 1].size OBVIOUS
      <4>7. y \in Nat /\ z \in Nat \ {0}
        <5>1. t[n + 1] \in T BY <4>1
        <5> QED BY <1>4, <4>1, <4>6, <5>1 DEF Sized
      <4>8. e[a + (n + 1)] = (x + y) + z BY <4>2, <4>3, <4>4, <4>6
      <4>9. g[n + 1] = y + z /\ y >= n BY <4>2, <4>5, <4>6
      <4>10. (x + y) + z = x + (y + z) /\ y + z >= n + 1 BY <1>10, <4>7, <4>9
      <4> QED BY <2>1, <4>8, <4>9, <4>10
    <3> QED BY <2>1, <3>1
  <2>4. Nat \subseteq L BY <2>2, <2>3, Induction
  <2> QED BY <1>7, <2>1, <2>4
<1>12. e[a + b] = x + g[b] /\ g[b] >= b BY <1>7, <1>11
<1>13. Cost(h) = Cost(s) + Cost(t) BY <1>4, <1>5, <1>6, <1>7, <1>10, <1>12
<1>14. Cost(s) \in Nat /\ Cost(t) \in Nat
  <2>1. Len(t) \in 0 .. Len(t) BY <1>6, <1>7
  <2>2. g[Len(t)] \in Nat BY <2>1
  <2>3. Cost(t) \in Nat BY <1>4, <2>2
  <2> QED BY <1>10, <2>3
<1>15. t # <<>> => Cost(t) > 0
  <2>1. t # <<>> => b > 0 BY <1>6, <1>7, EmptySeq
  <2> QED BY <1>4, <1>6, <1>7, <1>12, <1>14, <2>1
<1> QED BY <1>1, <1>13, <1>14, <1>15

-----------------------------------------------------------------------------
(* What is left of a history is accepted when the calls in it are answered *)

(* What one message asks of those around it, and an answer is of the turn  *)
(* it answers in.                                                          *)
Fits(h, i) ==
    /\ h[i].role = "assistant" =>
          /\ i + h[i].calls <= Len(h)
          /\ \A k \in 1 .. h[i].calls :
                /\ h[i + k].role = "tool"
                /\ h[i + k].turn = h[i].turn /\ h[i + k].calls = k
    /\ h[i].role = "tool" =>
          /\ h[i].calls < i
          /\ h[i - h[i].calls].role = "assistant"
          /\ h[i].calls <= h[i - h[i].calls].calls
          /\ h[i - h[i].calls].turn = h[i].turn

Paired(h, excepted) == \A i \in 1 .. Len(h) : h[i].turn \in excepted \/ Fits(h, i)

MessageType == [role : Roles, turn : Nat, calls : Nat, size : Nat \ {0}]

(* Each stage begins with the earlier ones.                                *)
Growing(f, s) ==
    \A n \in 0 .. Len(s) : \A i \in 0 .. n :
        Len(f[i]) <= Len(f[n]) /\ \A j \in 1 .. Len(f[i]) : f[n][j] = f[i][j]

\* The stages of Only do.
LEMMA PicksGrow ==
    ASSUME NEW T, NEW s \in Seq(T), NEW some,
           NEW f \in [0 .. Len(s) -> Seq(T)], Picks(f, s, some)
    PROVE  Growing(f, s)
<1> DEFINE Begins(n) == \A i \in 0 .. n :
               Len(f[i]) <= Len(f[n]) /\ \A j \in 1 .. Len(f[i]) : f[n][j] = f[i][j]
<1>1. PICK L : L = {n \in Nat : n <= Len(s) => Begins(n)} OBVIOUS
<1>2. 0 \in L
  <2>1. f[0] \in Seq(T) OBVIOUS
  <2>2. Len(f[0]) \in Nat BY <2>1
  <2>3. Begins(0) BY <2>2
  <2> QED BY <1>1, <2>3
<1>3. ASSUME NEW n \in Nat, n \in L PROVE n + 1 \in L
  <2>1. CASE n + 1 <= Len(s)
    <3>1. n + 1 \in 1 .. Len(s) /\ (n + 1) - 1 = n /\ n \in 0 .. Len(s) BY <2>1
    <3>2. PICK x, y, m : x = f[n] /\ y = f[n + 1] /\ m = s[n + 1] OBVIOUS
    <3>3. x \in Seq(T) BY <3>1, <3>2
    <3>4. m \in T BY <3>1, <3>2
    <3>5. y = IF m \in some THEN Append(x, m) ELSE x BY <3>1, <3>2 DEF Picks
    <3>6. Len(x) \in Nat /\ Len(y) \in Nat BY <3>3, <3>4, <3>5
    <3>7. Len(x) <= Len(y) /\ \A j \in 1 .. Len(x) : y[j] = x[j] BY <3>3, <3>4, <3>5
    <3>8. Begins(n) BY <1>1, <1>3, <3>1
    <3>9. ASSUME NEW i \in 0 .. n + 1
          PROVE  Len(f[i]) <= Len(y) /\ \A j \in 1 .. Len(f[i]) : y[j] = f[i][j]
      <4>1. CASE i = n + 1 BY <3>2, <3>6, <4>1
      <4>2. CASE i # n + 1
        <5>1. i \in 0 .. n /\ i \in 0 .. Len(s) BY <3>1, <4>2
        <5>2. PICK z : z = f[i] OBVIOUS
        <5>3. z \in Seq(T) BY <5>1, <5>2
        <5>4. Len(z) \in Nat BY <5>3
        <5>5. Len(z) <= Len(x) /\ \A j \in 1 .. Len(z) : x[j] = z[j]
          BY <3>2, <3>8, <5>1, <5>2
        <5>6. \A j \in 1 .. Len(z) : y[j] = z[j] BY <3>6, <3>7, <5>4, <5>5
        <5>7. Len(z) <= Len(y) BY <3>6, <3>7, <5>4, <5>5
        <5> QED BY <5>2, <5>6, <5>7
      <4> QED BY <4>1, <4>2
    <3>10. Begins(n + 1) BY <3>2, <3>9
    <3> QED BY <1>1, <3>10
  <2> QED BY <1>1, <2>1
<1>4. Nat \subseteq L
  <2> HIDE DEF Begins
  <2> QED BY <1>2, <1>3, Induction
<1>5. ASSUME NEW n \in 0 .. Len(s) PROVE Begins(n)
  <2> HIDE DEF Begins
  <2>1. n \in L /\ n <= Len(s) BY <1>4
  <2> QED BY <1>1, <2>1
<1> QED BY <1>5 DEF Growing

\* A message that is picked stands last then, and in the end where it stood then.
LEMMA PickedAt ==
    ASSUME NEW T, NEW s \in Seq(T), NEW some,
           NEW f \in [0 .. Len(s) -> Seq(T)], Picks(f, s, some),
           NEW i \in 1 .. Len(s), s[i] \in some
    PROVE  /\ Len(f[i]) \in Nat /\ Len(f[i - 1]) \in Nat
           /\ Len(f[i]) = Len(f[i - 1]) + 1
           /\ Len(f[i]) \in 1 .. Len(f[Len(s)])
           /\ f[Len(s)][Len(f[i])] = s[i]
<1>1. i - 1 \in 0 .. Len(s) /\ i \in 0 .. Len(s) /\ Len(s) \in 0 .. Len(s) OBVIOUS
<1>2. PICK x, y, z, m : x = f[i - 1] /\ y = f[i] /\ z = f[Len(s)] /\ m = s[i] OBVIOUS
<1>3. x \in Seq(T) BY <1>1, <1>2
<1>4. m \in T BY <1>2
<1>5. y = Append(x, m) BY <1>2 DEF Picks
<1>6. Len(x) \in Nat /\ Len(y) = Len(x) + 1 /\ y[Len(x) + 1] = m BY <1>3, <1>4, <1>5
<1>7. z \in Seq(T) BY <1>1, <1>2
<1>8. Len(z) \in Nat BY <1>7
<1>9. i \in 0 .. Len(s) /\ Len(s) \in 0 .. Len(s) BY <1>1
<1>10. Len(y) <= Len(z) /\ \A j \in 1 .. Len(y) : z[j] = y[j]
  <2>1. Growing(f, s) BY PicksGrow
  <2> QED BY <1>2, <1>9, <2>1 DEF Growing
<1>11. Len(y) \in 1 .. Len(y) /\ Len(y) \in 1 .. Len(z) BY <1>6, <1>8, <1>10
<1>12. z[Len(y)] = m BY <1>6, <1>10, <1>11
<1> QED BY <1>2, <1>6, <1>11, <1>12

\* Every message that is left was picked.
LEMMA PickedFrom ==
    ASSUME NEW T, NEW s \in Seq(T), NEW some,
           NEW f \in [0 .. Len(s) -> Seq(T)], Picks(f, s, some),
           NEW j \in 1 .. Len(f[Len(s)])
    PROVE  \E i \in 1 .. Len(s) : s[i] \in some /\ Len(f[i]) = j
<1> DEFINE All(n) == \A k \in 1 .. Len(f[n]) : \E i \in 1 .. n : s[i] \in some /\ Len(f[i]) = k
<1>1. PICK L : L = {n \in Nat : n <= Len(s) => All(n)} OBVIOUS
<1>2. 0 \in L
  <2>1. f[0] = <<>> BY DEF Picks
  <2>2. All(0) BY <2>1
  <2> QED BY <1>1, <2>2
<1>3. ASSUME NEW n \in Nat, n \in L PROVE n + 1 \in L
  <2>1. CASE n + 1 <= Len(s)
    <3>1. n + 1 \in 1 .. Len(s) /\ (n + 1) - 1 = n /\ n \in 0 .. Len(s) BY <2>1
    <3>2. PICK x, y, m : x = f[n] /\ y = f[n + 1] /\ m = s[n + 1] OBVIOUS
    <3>3. x \in Seq(T) BY <3>1, <3>2
    <3>4. m \in T BY <3>1, <3>2
    <3>5. y = IF m \in some THEN Append(x, m) ELSE x BY <3>1, <3>2 DEF Picks
    <3>6. Len(x) \in Nat BY <3>3
    <3>7. m \in some => Len(y) = Len(x) + 1 BY <3>3, <3>4, <3>5
    <3>8. All(n) BY <1>1, <1>3, <3>1
    <3>9. ASSUME NEW k \in 1 .. Len(y)
          PROVE  \E i \in 1 .. n + 1 : s[i] \in some /\ Len(f[i]) = k
      <4>1. CASE k \in 1 .. Len(x)
        <5>1. PICK i \in 1 .. n : s[i] \in some /\ Len(f[i]) = k BY <3>2, <3>8, <4>1
        <5>2. i \in 1 .. n + 1 OBVIOUS
        <5> QED BY <5>1, <5>2
      <4>2. CASE k \notin 1 .. Len(x)
        <5>1. m \in some BY <3>5, <4>2
        <5>2. k = Len(y) BY <3>6, <3>7, <4>2, <5>1
        <5>3. n + 1 \in 1 .. n + 1 OBVIOUS
        <5> QED BY <3>2, <5>1, <5>2, <5>3
      <4> QED BY <4>1, <4>2
    <3>10. All(n + 1) BY <3>2, <3>9
    <3> QED BY <1>1, <3>10
  <2> QED BY <1>1, <2>1
<1>4. Nat \subseteq L
  <2> HIDE DEF All
  <2> QED BY <1>2, <1>3, Induction
<1>5. All(Len(s))
  <2> HIDE DEF All
  <2>1. Len(s) \in L /\ Len(s) <= Len(s) BY <1>4
  <2> QED BY <1>1, <2>1
<1> QED BY <1>5

\* The same, of all of them.
LEMMA AllPickedAt ==
    ASSUME NEW T, NEW s \in Seq(T), NEW some,
           NEW f \in [0 .. Len(s) -> Seq(T)], Picks(f, s, some)
    PROVE  \A i \in 1 .. Len(s) : s[i] \in some =>
               /\ Len(f[i]) \in Nat /\ Len(f[i - 1]) \in Nat
               /\ Len(f[i]) = Len(f[i - 1]) + 1
               /\ Len(f[i]) \in 1 .. Len(f[Len(s)])
               /\ f[Len(s)][Len(f[i])] = s[i]
BY PickedAt

(* Messages that are picked one after the other are left one after the     *)
(* other.                                                                  *)
Steady(f, s, some) ==
    \A i \in 1 .. Len(s) : \A c \in Nat :
        i + c <= Len(s) /\ s[i] \in some /\ (\A k \in 1 .. c : s[i + k] \in some) =>
            \A k \in 0 .. c : Len(f[i + k]) = Len(f[i]) + k

\* The stages of Only are so.
LEMMA PickedTogether ==
    ASSUME NEW T, NEW s \in Seq(T), NEW some,
           NEW f \in [0 .. Len(s) -> Seq(T)], Picks(f, s, some)
    PROVE  Steady(f, s, some)
<1>1. \A n \in 1 .. Len(s) : s[n] \in some =>
          Len(f[n]) \in Nat /\ Len(f[n]) = Len(f[n - 1]) + 1
  BY AllPickedAt
<1> SUFFICES ASSUME NEW i \in 1 .. Len(s), NEW c \in Nat, i + c <= Len(s),
                    s[i] \in some, \A k \in 1 .. c : s[i + k] \in some
             PROVE  \A k \in 0 .. c : Len(f[i + k]) = Len(f[i]) + k
  BY DEF Steady
<1>2. PICK d : d = Len(f[i]) OBVIOUS
<1>3. d \in Nat BY <1>2, <1>1
<1>4. PICK L : L = {k \in Nat : k <= c => Len(f[i + k]) = d + k} OBVIOUS
<1>5. 0 \in L
  <2>1. i + 0 = i /\ d + 0 = d BY <1>3
  <2> QED BY <1>2, <1>4, <2>1
<1>6. ASSUME NEW k \in Nat, k \in L PROVE k + 1 \in L
  <2>1. CASE k + 1 <= c
    <3>1. k + 1 \in 1 .. c /\ k <= c BY <2>1
    <3>2. PICK n : n = i + (k + 1) OBVIOUS
    <3>3. n \in 1 .. Len(s) /\ n - 1 = i + k BY <2>1, <3>2
    <3>4. s[n] \in some BY <3>1, <3>2
    <3>5. Len(f[n]) = Len(f[n - 1]) + 1 BY <1>1, <3>3, <3>4
    <3>6. Len(f[i + k]) = d + k BY <1>4, <1>6, <3>1
    <3>7. (d + k) + 1 = d + (k + 1) BY <1>3
    <3>8. Len(f[n]) = d + (k + 1) BY <3>3, <3>5, <3>6, <3>7
    <3> QED BY <1>4, <3>2, <3>8
  <2> QED BY <1>4, <2>1
<1>7. Nat \subseteq L BY <1>5, <1>6, Induction
<1>8. ASSUME NEW k \in 0 .. c PROVE Len(f[i + k]) = Len(f[i]) + k
  <2>1. k \in L /\ k <= c BY <1>7
  <2> QED BY <1>2, <1>4, <2>1
<1> QED BY <1>8

\* What is left when some turns are taken out is accepted, if the messages of the other
\* turns fit.
LEMMA OnlyAccepted ==
    ASSUME NEW s \in Seq(MessageType), NEW excepted, Paired(s, excepted)
    PROVE  Accepted(Only(s, {m \in Range(s) : m.turn \notin excepted}))
<1>1. PICK some : some = {m \in Range(s) : m.turn \notin excepted} OBVIOUS
<1>2. PICK f \in [0 .. Len(s) -> Seq(MessageType)] :
          Picks(f, s, some) /\ Only(s, some) = f[Len(s)]
  BY OnlyIs
<1>3. PICK r : r = f[Len(s)] OBVIOUS
<1>4. \A i \in 1 .. Len(s) : s[i] \in some <=> s[i].turn \notin excepted
  BY <1>1 DEF Range
<1>5. \A i \in 1 .. Len(s) : s[i] \in some => Fits(s, i) BY <1>4 DEF Paired
<1>6. \A i \in 1 .. Len(s) : s[i] \in MessageType OBVIOUS
<1>7. \A i \in 1 .. Len(s) : s[i].calls \in Nat BY <1>6 DEF MessageType
<1>8. \A i \in 1 .. Len(s) : s[i] \in some =>
          /\ Len(f[i]) \in Nat /\ Len(f[i]) \in 1 .. Len(r)
          /\ r[Len(f[i])] = s[i]
  BY <1>2, <1>3, AllPickedAt
<1>9. \A i \in 1 .. Len(s) : \A c \in Nat :
          i + c <= Len(s) /\ s[i] \in some /\ (\A k \in 1 .. c : s[i + k] \in some) =>
              \A k \in 0 .. c : Len(f[i + k]) = Len(f[i]) + k
  <2>1. Steady(f, s, some) BY <1>2, PickedTogether
  <2> QED BY <2>1 DEF Steady
\* The answers to a response that is left are left with it.
<1>10. ASSUME NEW i \in 1 .. Len(s), s[i] \in some, s[i].role = "assistant"
       PROVE  /\ \A k \in 1 .. s[i].calls : i + k \in 1 .. Len(s) /\ s[i + k] \in some
              /\ \A k \in 0 .. s[i].calls : Len(f[i + k]) = Len(f[i]) + k
  <2>1. PICK c : c = s[i].calls OBVIOUS
  <2>2. c \in Nat BY <1>7, <2>1
  <2>3. /\ i + c <= Len(s)
        /\ \A k \in 1 .. c : s[i + k].turn = s[i].turn
    BY <1>5, <1>10, <2>1 DEF Fits
  <2>4. \A k \in 1 .. c : i + k \in 1 .. Len(s) BY <2>2, <2>3
  <2>5. \A k \in 1 .. c : s[i + k] \in some BY <1>4, <1>10, <2>3, <2>4
  <2>6. \A k \in 0 .. c : Len(f[i + k]) = Len(f[i]) + k BY <1>9, <1>10, <2>2, <2>3, <2>5
  <2> QED BY <2>1, <2>4, <2>5, <2>6
<1>11. ASSUME NEW j \in 1 .. Len(r), r[j].role = "assistant"
       PROVE  /\ j + r[j].calls <= Len(r)
              /\ \A k \in 1 .. r[j].calls :
                    /\ r[j + k].role = "tool"
                    /\ r[j + k].turn = r[j].turn /\ r[j + k].calls = k
  <2>1. PICK i \in 1 .. Len(s) : s[i] \in some /\ Len(f[i]) = j
    BY <1>2, <1>3, PickedFrom
  <2>2. r[j] = s[i] BY <1>8, <2>1
  <2>3. PICK c : c = s[i].calls OBVIOUS
  <2>4. c \in Nat /\ j \in Nat BY <1>7, <2>3
  <2>5. /\ \A k \in 1 .. c : i + k \in 1 .. Len(s) /\ s[i + k] \in some
        /\ \A k \in 0 .. c : Len(f[i + k]) = j + k
    BY <1>10, <1>11, <2>1, <2>2, <2>3
  <2>6. \A k \in 1 .. c : j + k <= Len(r) /\ r[j + k] = s[i + k]
    <3>1. ASSUME NEW k \in 1 .. c PROVE j + k <= Len(r) /\ r[j + k] = s[i + k]
      <4>1. k \in 0 .. c BY <2>4
      <4>2. i + k \in 1 .. Len(s) /\ s[i + k] \in some /\ Len(f[i + k]) = j + k
        BY <2>5, <4>1
      <4>3. j + k \in 1 .. Len(r) /\ r[j + k] = s[i + k] BY <1>8, <4>2
      <4> QED BY <4>3
    <3> QED BY <3>1
  <2>7. j + c <= Len(r)
    <3>1. CASE c = 0 BY <2>4, <3>1
    <3>2. CASE c # 0
      <4>1. c \in 1 .. c BY <2>4, <3>2
      <4> QED BY <2>6, <4>1
    <3> QED BY <3>1, <3>2
  <2>8. \A k \in 1 .. c : /\ s[i + k].role = "tool"
                          /\ s[i + k].turn = s[i].turn /\ s[i + k].calls = k
    BY <1>5, <1>11, <2>1, <2>2, <2>3 DEF Fits
  <2> QED BY <2>2, <2>3, <2>6, <2>7, <2>8
<1>12. ASSUME NEW j \in 1 .. Len(r), r[j].role = "tool"
       PROVE  /\ r[j].calls < j
              /\ r[j - r[j].calls].role = "assistant"
              /\ r[j].calls <= r[j - r[j].calls].calls
  <2>1. PICK i \in 1 .. Len(s) : s[i] \in some /\ Len(f[i]) = j
    BY <1>2, <1>3, PickedFrom
  <2>2. r[j] = s[i] BY <1>8, <2>1
  <2>3. PICK c : c = s[i].calls OBVIOUS
  <2>4. c \in Nat /\ j \in Nat BY <1>7, <2>3
  <2>5. PICK a : a = i - c OBVIOUS
  <2>6. /\ c < i /\ s[a].role = "assistant" /\ c <= s[a].calls /\ s[a].turn = s[i].turn
    BY <1>5, <1>12, <2>1, <2>2, <2>3, <2>5 DEF Fits
  <2>7. a \in 1 .. Len(s) /\ a + c = i BY <2>4, <2>5, <2>6
  <2>8. s[a] \in some BY <1>4, <2>1, <2>6, <2>7
  <2>9. \A k \in 0 .. s[a].calls : Len(f[a + k]) = Len(f[a]) + k
    BY <1>10, <2>6, <2>7, <2>8
  <2>10. c \in 0 .. s[a].calls
    <3>1. s[a].calls \in Nat BY <1>7, <2>7
    <3> QED BY <2>4, <2>6, <3>1
  <2>11. j = Len(f[a]) + c BY <2>1, <2>7, <2>9, <2>10
  <2>12. /\ Len(f[a]) \in Nat /\ Len(f[a]) \in 1 .. Len(r) /\ r[Len(f[a])] = s[a]
    BY <1>8, <2>7, <2>8
  <2>13. c < j /\ j - c = Len(f[a]) BY <2>4, <2>11, <2>12
  <2> QED BY <2>2, <2>3, <2>6, <2>12, <2>13
<1>13. Accepted(r) BY <1>11, <1>12 DEF Accepted
<1> QED BY <1>1, <1>2, <1>3, <1>13

-----------------------------------------------------------------------------
(* A history: the system's message, what was kept, and the last turn *)

Speech == {m \in MessageType : m.role # "system"}
SystemMessage == {m \in MessageType : m.role = "system" /\ m.turn = 0}

Begun(system, talk) == Joined(<<system>>, talk)

Earlier(talk, t) == \A i \in 1 .. Len(talk) : talk[i].turn < t
OfTurn(talk, t) == talk # <<>> /\ \A i \in 1 .. Len(talk) : talk[i].turn = t

\* Joining is associative, with the empty history for its unit.
LEMMA JoinedLaws ==
    ASSUME NEW T, NEW s \in Seq(T), NEW t \in Seq(T), NEW u \in Seq(T)
    PROVE  /\ Joined(Joined(s, t), u) = Joined(s, Joined(t, u))
           /\ Joined(<<>>, s) = s /\ Joined(s, <<>>) = s
BY DEF Joined

\* What is beyond the system's message.
LEMMA BegunJoined ==
    ASSUME NEW system \in SystemMessage, NEW s \in Seq(Speech), NEW t \in Seq(Speech)
    PROVE  /\ Begun(system, s) \in Seq(MessageType)
           /\ s \in Seq(MessageType) /\ t \in Seq(MessageType)
           /\ Begun(system, Joined(s, t)) = Joined(Begun(system, s), t)
<1>1. system \in MessageType /\ Speech \subseteq MessageType BY DEF SystemMessage, Speech
<1>2. s \in Seq(MessageType) /\ t \in Seq(MessageType) BY <1>1
<1>3. PICK first : first = <<system>> OBVIOUS
<1>4. first \in Seq(MessageType) BY <1>1, <1>3
<1>5. Joined(first, s) \in Seq(MessageType) BY <1>2, <1>4 DEF Joined
<1>6. first \o (s \o t) = (first \o s) \o t BY <1>2, <1>4
<1> QED BY <1>2, <1>3, <1>5, <1>6 DEF Begun, Joined

\* Of two histories, the first alone is wanted.
LEMMA OnlyFirst ==
    ASSUME NEW T, NEW s \in Seq(T), NEW t \in Seq(T), NEW some,
           \A i \in 1 .. Len(s) : s[i] \in some, \A i \in 1 .. Len(t) : t[i] \notin some
    PROVE  Only(Joined(s, t), some) = s
<1>1. Only(s, some) = s BY OnlyAll
<1>2. Only(t, some) = <<>> BY OnlyNone
<1>3. Only(Joined(s, t), some) = Joined(Only(s, some), Only(t, some)) BY OnlyJoined
<1>4. Joined(s, <<>>) = s BY DEF Joined
<1> QED BY <1>1, <1>2, <1>3, <1>4

\* Of two histories, the second alone is wanted.
LEMMA OnlySecond ==
    ASSUME NEW T, NEW s \in Seq(T), NEW t \in Seq(T), NEW some,
           \A i \in 1 .. Len(s) : s[i] \notin some, \A i \in 1 .. Len(t) : t[i] \in some
    PROVE  Only(Joined(s, t), some) = t
<1>1. Only(s, some) = <<>> BY OnlyNone
<1>2. Only(t, some) = t BY OnlyAll
<1>3. Only(Joined(s, t), some) = Joined(Only(s, some), Only(t, some)) BY OnlyJoined
<1>4. Joined(<<>>, t) = t BY DEF Joined
<1> QED BY <1>1, <1>2, <1>3, <1>4

\* The messages of two histories are those of both.
LEMMA RangeJoined ==
    ASSUME NEW T, NEW s \in Seq(T), NEW t \in Seq(T)
    PROVE  /\ \A i \in 1 .. Len(s) : s[i] \in Range(Joined(s, t))
           /\ \A i \in 1 .. Len(t) : t[i] \in Range(Joined(s, t))
<1>1. PICK h : h = Joined(s, t) OBVIOUS
<1>2. /\ h \in Seq(T) /\ Len(h) = Len(s) + Len(t)
      /\ \A k \in 1 .. Len(s) : h[k] = s[k]
      /\ \A k \in 1 .. Len(t) : h[Len(s) + k] = t[k]
  BY <1>1, ConcatIs DEF Joined
<1>3. Len(s) \in Nat /\ Len(t) \in Nat /\ Len(h) \in Nat BY <1>2
<1>4. \A k \in 1 .. Len(h) : h[k] \in Range(h) BY <1>2 DEF Range
<1>5. \A i \in 1 .. Len(s) : i \in 1 .. Len(h) BY <1>2, <1>3
<1>6. \A i \in 1 .. Len(t) : Len(s) + i \in 1 .. Len(h) BY <1>2, <1>3
<1>7. \A i \in 1 .. Len(s) : s[i] \in Range(h) BY <1>2, <1>4, <1>5
<1>8. \A i \in 1 .. Len(t) : t[i] \in Range(h) BY <1>2, <1>4, <1>6
<1> QED BY <1>1, <1>7, <1>8

\* The system's message and the talk of a history.
LEMMA BegunIs ==
    ASSUME NEW system \in SystemMessage, NEW talk \in Seq(Speech)
    PROVE  /\ System(Begun(system, talk)) = <<system>>
           /\ Talk(Begun(system, talk)) = talk
           /\ Begun(system, talk) \in Seq(MessageType)
           /\ Len(Begun(system, talk)) = Len(talk) + 1
           /\ Begun(system, talk)[1] = system
           /\ \A k \in 1 .. Len(talk) : Begun(system, talk)[k + 1] = talk[k]
<1>1. system \in MessageType /\ Speech \subseteq MessageType BY DEF SystemMessage, Speech
<1>2. PICK first : first = <<system>> OBVIOUS
<1>3. first \in Seq(MessageType) /\ Len(first) = 1 /\ first[1] = system BY <1>1, <1>2
<1>4. talk \in Seq(MessageType) BY <1>1
<1>5. PICK h : h = Joined(first, talk) OBVIOUS
<1>6. /\ h \in Seq(MessageType) /\ Len(h) = 1 + Len(talk)
      /\ h[1] = system /\ \A k \in 1 .. Len(talk) : h[1 + k] = talk[k]
  <2>1. first \in Seq(MessageType) BY <1>3
  <2>2. /\ h \in Seq(MessageType) /\ Len(h) = Len(first) + Len(talk)
        /\ \A k \in 1 .. Len(first) : h[k] = first[k]
        /\ \A k \in 1 .. Len(talk) : h[Len(first) + k] = talk[k]
    <3>1. h \in Seq(MessageType) /\ Follows(h, first, talk) BY <1>4, <1>5, <2>1, JoinedIs
    <3> QED BY <3>1 DEF Follows
  <2>3. 1 \in 1 .. Len(first) BY <1>3
  <2> QED BY <1>3, <2>2, <2>3
<1>7. /\ \A i \in 1 .. Len(first) : first[i] \in Range(h) /\ first[i].role = "system"
      /\ \A i \in 1 .. Len(talk) : talk[i] \in Range(h) /\ talk[i].role # "system"
  <2>1. first \in Seq(MessageType) BY <1>3
  <2>2. /\ \A i \in 1 .. Len(first) : first[i] \in Range(h)
        /\ \A i \in 1 .. Len(talk) : talk[i] \in Range(h)
    BY <1>4, <1>5, <2>1, RangeJoined
  <2>3. \A i \in 1 .. Len(first) : first[i].role = "system" BY <1>3 DEF SystemMessage
  <2>4. \A i \in 1 .. Len(talk) : talk[i] \in Speech OBVIOUS
  <2>5. \A i \in 1 .. Len(talk) : talk[i].role # "system" BY <2>4 DEF Speech
  <2> QED BY <2>2, <2>3, <2>5
<1>8. System(h) = first
  <2>1. PICK some : some = {m \in Range(h) : m.role = "system"} OBVIOUS
  <2>2. /\ \A i \in 1 .. Len(first) : first[i] \in some
        /\ \A i \in 1 .. Len(talk) : talk[i] \notin some
    BY <1>7, <2>1
  <2>3. first \in Seq(MessageType) BY <1>3
  <2>4. Only(Joined(first, talk), some) = first BY <1>4, <2>2, <2>3, OnlyFirst
  <2> QED BY <1>5, <2>1, <2>4 DEF System
<1>9. Talk(h) = talk
  <2>1. PICK some : some = {m \in Range(h) : m.role # "system"} OBVIOUS
  <2>2. /\ \A i \in 1 .. Len(first) : first[i] \notin some
        /\ \A i \in 1 .. Len(talk) : talk[i] \in some
    BY <1>7, <2>1
  <2>3. first \in Seq(MessageType) BY <1>3
  <2>4. Only(Joined(first, talk), some) = talk BY <1>4, <2>2, <2>3, OnlySecond
  <2> QED BY <1>5, <2>1, <2>4 DEF Talk
<1>10. Begun(system, talk) = h BY <1>2, <1>5 DEF Begun
<1>11. \A k \in 1 .. Len(talk) : h[k + 1] = talk[k] BY <1>6
<1> QED BY <1>2, <1>6, <1>8, <1>9, <1>10, <1>11

\* Every message has some tokens.
LEMMA MessagesAreSized == Sized(MessageType)
BY DEF Sized, MessageType

\* The tokens of a history, and of what is added to it.
LEMMA CostBegun ==
    ASSUME NEW system \in SystemMessage, NEW s \in Seq(Speech), NEW t \in Seq(Speech)
    PROVE  /\ Cost(Begun(system, s)) \in Nat /\ Cost(s) \in Nat /\ Cost(t) \in Nat
           /\ Cost(<<system>>) \in Nat
           /\ Cost(Begun(system, s)) = Cost(<<system>>) + Cost(s)
           /\ Cost(Begun(system, Joined(s, t))) = Cost(Begun(system, s)) + Cost(t)
           /\ t # <<>> => Cost(t) > 0
<1>1. PICK first, h : first = <<system>> /\ h = Begun(system, s) OBVIOUS
<1>2. first \in Seq(MessageType) BY <1>1 DEF SystemMessage
<1>3. s \in Seq(MessageType) BY BegunJoined
<1>4. t \in Seq(MessageType) BY BegunJoined
<1>5. h \in Seq(MessageType) BY <1>1, BegunJoined
<1>6. Begun(system, Joined(s, t)) = Joined(h, t) BY <1>1, BegunJoined
<1>7. h = Joined(first, s) BY <1>1 DEF Begun
<1>8. /\ Cost(first) \in Nat /\ Cost(s) \in Nat
      /\ Cost(Joined(first, s)) = Cost(first) + Cost(s)
  BY <1>2, <1>3, CostJoined, MessagesAreSized
<1>9. /\ Cost(h) \in Nat /\ Cost(t) \in Nat
      /\ Cost(Joined(h, t)) = Cost(h) + Cost(t)
      /\ t # <<>> => Cost(t) > 0
  BY <1>4, <1>5, CostJoined, MessagesAreSized
<1> QED BY <1>1, <1>6, <1>7, <1>8, <1>9

\* The messages of the last turn, and what there was before it.
LEMMA TurnIs ==
    ASSUME NEW system \in SystemMessage, NEW s \in Seq(Speech), NEW now \in Seq(Speech),
           NEW t \in Nat \ {0}, Earlier(s, t), OfTurn(now, t),
           NEW h, h = Begun(system, Joined(s, now))
    PROVE  /\ Before(h) = Begun(system, s)
           /\ Only(h, {m \in Range(h) : m.turn = t}) = now
           /\ h # <<>>
<1>1. PICK b : b = Begun(system, s) OBVIOUS
<1>2. b \in Seq(MessageType) BY <1>1, BegunJoined
<1>3. now \in Seq(MessageType) BY BegunJoined
<1>4. h = Joined(b, now) BY <1>1, BegunJoined
<1>5. \A i \in 1 .. Len(b) : b[i].turn \in Nat /\ b[i].turn < t
  <2>1. /\ Len(b) = Len(s) + 1 /\ b[1] = system
        /\ \A k \in 1 .. Len(s) : b[k + 1] = s[k]
    BY <1>1, BegunIs
  <2>2. ASSUME NEW i \in 1 .. Len(b) PROVE b[i].turn < t
    <3>1. CASE i = 1 BY <2>1, <3>1 DEF SystemMessage
    <3>2. CASE i # 1
      <4>1. Len(s) \in Nat OBVIOUS
      <4>2. i - 1 \in 1 .. Len(s) /\ (i - 1) + 1 = i BY <2>1, <3>2, <4>1
      <4>3. b[i] = s[i - 1] BY <2>1, <4>2
      <4> QED BY <4>2, <4>3 DEF Earlier
    <3> QED BY <3>1, <3>2
  <2>3. ASSUME NEW i \in 1 .. Len(b) PROVE b[i].turn \in Nat
    <3>1. b[i] \in MessageType BY <1>2
    <3> QED BY <3>1 DEF MessageType
  <2> QED BY <2>2, <2>3
<1>6. \A i \in 1 .. Len(now) : now[i].turn = t BY DEF OfTurn
<1>7. /\ \A i \in 1 .. Len(b) : b[i] \in Range(h)
      /\ \A i \in 1 .. Len(now) : now[i] \in Range(h)
  BY <1>2, <1>3, <1>4, RangeJoined
<1>8. Only(h, {m \in Range(h) : m.turn = t}) = now
  <2>1. PICK some : some = {m \in Range(h) : m.turn = t} OBVIOUS
  <2>2. /\ \A i \in 1 .. Len(b) : b[i] \notin some
        /\ \A i \in 1 .. Len(now) : now[i] \in some
    BY <1>5, <1>6, <1>7, <2>1
  <2>3. Only(Joined(b, now), some) = now BY <1>2, <1>3, <2>2, OnlySecond
  <2> QED BY <1>4, <2>1, <2>3
<1>9. h # <<>> /\ Last(h).turn = t
  <2>1. h \in Seq(MessageType) /\ Follows(h, b, now) BY <1>2, <1>3, <1>4, JoinedIs
  <2>2. Len(b) \in Nat /\ Len(now) \in Nat /\ Len(now) # 0 BY <1>2, EmptySeq DEF OfTurn
  <2>3. Len(now) \in 1 .. Len(now) BY <2>2
  <2>4. Len(h) = Len(b) + Len(now) /\ h[Len(b) + Len(now)] = now[Len(now)]
    BY <2>1, <2>3 DEF Follows
  <2>5. h[Len(h)].turn = t BY <1>6, <2>3, <2>4
  <2>6. Len(h) # 0 BY <2>2, <2>4
  <2> QED BY <2>5, <2>6 DEF Last
<1>10. Before(h) = b
  <2>1. PICK some : some = {m \in Range(h) : m.turn < Last(h).turn} OBVIOUS
  <2>2. /\ \A i \in 1 .. Len(b) : b[i] \in some
        /\ \A i \in 1 .. Len(now) : now[i] \notin some
    BY <1>5, <1>6, <1>7, <1>9, <2>1
  <2>3. Only(Joined(b, now), some) = b BY <1>2, <1>3, <2>2, OnlyFirst
  <2> QED BY <1>4, <2>1, <2>3 DEF Before
<1> QED BY <1>1, <1>8, <1>9, <1>10

-----------------------------------------------------------------------------
(* What compaction keeps *)

(* What a turn t begins with: what is kept, after what is kept no longer.  *)
Recent(system, older, kept, t) ==
    /\ system \in SystemMessage /\ older \in Seq(Speech) /\ kept \in Seq(Speech)
    /\ t \in Nat \ {0} /\ Earlier(older, t) /\ Earlier(kept, t)
    /\ kept = <<>> \/ kept[1].role = "user"
    /\ Cost(Begun(system, Joined(older, kept))) <= MaxTokens => older = <<>>
    /\ Cost(Begun(system, kept)) > MaxTokens => Cuts(kept) \subseteq {1}

(* What a turn has added so far.                                           *)
Current(now, t) == now \in Seq(Speech) /\ OfTurn(now, t) /\ now[1].role = "user"

\* The least of some numbers.
LEMMA LeastIs ==
    ASSUME NEW I, I \subseteq Nat, I # {}
    PROVE  Min(I) \in I /\ \A m \in I : Min(I) <= m
<1>1. PICK n \in I : \A m \in I : <<m, n>> \notin OpToRel(<, Nat)
  BY NatLessThanWellFounded, WFMin
<1>2. \A m \in I : ~ (m < n) BY <1>1 DEF OpToRel
<1>3. \A m \in I : n <= m BY <1>2
<1> QED BY <1>3 DEF Min

\* The greatest of some numbers up to a bound.
LEMMA GreatestIs ==
    ASSUME NEW n \in Nat, NEW I, I \subseteq 1 .. n, I # {}
    PROVE  Max(I) \in I /\ \A m \in I : m <= Max(I)
<1>1. PICK J : J = {k \in Nat : \E i \in I : k = n - i} OBVIOUS
<1>2. J \subseteq Nat BY <1>1
<1>3. J # {}
  <2>1. PICK i \in I : TRUE OBVIOUS
  <2>2. n - i \in J BY <1>1, <2>1
  <2> QED BY <2>2
<1>4. Min(J) \in J /\ \A m \in J : Min(J) <= m BY <1>2, <1>3, LeastIs
<1>5. PICK i \in I : Min(J) = n - i BY <1>1, <1>4
<1>6. ASSUME NEW m \in I PROVE i >= m
  <2>1. n - m \in J BY <1>1
  <2>2. n - i <= n - m BY <1>4, <1>5, <2>1
  <2> QED BY <2>2
<1>7. Max(I) \in I /\ \A m \in I : Max(I) >= m BY <1>6 DEF Max
<1> QED BY <1>7

\* A talk, cut at one of its messages.
LEMMA FromIs ==
    ASSUME NEW talk \in Seq(Speech), NEW i \in 1 .. Len(talk)
    PROVE  \E dropped, recent \in Seq(Speech) :
               /\ recent = From(talk, i) /\ talk = Joined(dropped, recent)
               /\ recent # <<>> /\ Len(recent) = Len(talk) - i + 1
               /\ \A j \in 1 .. Len(recent) : recent[j] = talk[i + j - 1]
<1>1. PICK n : n = Len(talk) OBVIOUS
<1>2. n \in Nat /\ i \in Nat /\ i <= n /\ i >= 1 BY <1>1
<1>3. PICK recent : recent = SubSeq(talk, i, n) OBVIOUS
<1>4. PICK dropped : dropped = SubSeq(talk, 1, i - 1) OBVIOUS
<1>5. /\ recent \in Seq(Speech) /\ Len(recent) = n - i + 1
      /\ \A j \in 1 .. n - i + 1 : recent[j] = talk[i + j - 1]
  BY <1>1, <1>2, <1>3
<1>6. /\ dropped \in Seq(Speech) /\ Len(dropped) = i - 1
      /\ \A j \in 1 .. i - 1 : dropped[j] = talk[j]
  BY <1>1, <1>2, <1>4
<1>7. Follows(talk, dropped, recent)
  <2>1. Len(talk) = Len(dropped) + Len(recent) BY <1>1, <1>2, <1>5, <1>6
  <2>2. \A k \in 1 .. Len(dropped) : talk[k] = dropped[k] BY <1>6
  <2>3. ASSUME NEW k \in 1 .. Len(recent) PROVE talk[Len(dropped) + k] = recent[k]
    <3>1. k \in 1 .. n - i + 1 BY <1>5
    <3>2. (i - 1) + k = i + k - 1 BY <1>2, <3>1
    <3> QED BY <1>5, <1>6, <3>1, <3>2
  <2> QED BY <2>1, <2>2, <2>3 DEF Follows
<1>8. talk = Joined(dropped, recent)
  <2>1. recent \in Seq(Speech) BY <1>5
  <2>2. dropped \in Seq(Speech) BY <1>6
  <2> QED BY <1>7, <2>1, <2>2, FollowsIs DEF Joined
<1>9. recent # <<>> BY <1>2, <1>5
<1>10. recent = From(talk, i) BY <1>1, <1>3 DEF From
<1> QED BY <1>1, <1>5, <1>6, <1>8, <1>9, <1>10

(* The chunks that compaction keeps.                                       *)
Kept(talk, budget) == {i \in Cuts(talk) : Keeps(talk, i, budget)}

\* Something is always kept: from a user's message on, and that is the last one or the
\* budget holds what is kept.
LEMMA KeptIs ==
    ASSUME NEW talk \in Seq(Speech), talk # <<>>, talk[1].role = "user", NEW budget
    PROVE  /\ Kept(talk, budget) # {}
           /\ Min(Kept(talk, budget)) \in Cuts(talk)
           /\ Keeps(talk, Min(Kept(talk, budget)), budget)
           /\ Max(Cuts(talk)) \in Cuts(talk) /\ \A j \in Cuts(talk) : j <= Max(Cuts(talk))
<1>1. Len(talk) \in Nat /\ Len(talk) # 0 BY EmptySeq
<1>2. 1 \in Cuts(talk) BY <1>1 DEF Cuts
<1>3. Cuts(talk) \subseteq 1 .. Len(talk) BY DEF Cuts
<1>4. Max(Cuts(talk)) \in Cuts(talk) /\ \A j \in Cuts(talk) : j <= Max(Cuts(talk))
  BY <1>1, <1>2, <1>3, GreatestIs
<1>5. Max(Cuts(talk)) \in Kept(talk, budget) BY <1>4 DEF Kept, Keeps
<1>6. Kept(talk, budget) \subseteq Cuts(talk) BY DEF Kept
<1>7. Kept(talk, budget) \subseteq Nat BY <1>3, <1>6
<1>8. Min(Kept(talk, budget)) \in Kept(talk, budget) BY <1>5, <1>7, LeastIs
<1>9. Keeps(talk, Min(Kept(talk, budget)), budget) BY <1>8 DEF Kept
<1> QED BY <1>4, <1>5, <1>6, <1>8, <1>9

\* What is kept from the last user's message on has no other.
LEMMA LatestCut ==
    ASSUME NEW talk \in Seq(Speech), NEW i \in 1 .. Len(talk), \A j \in Cuts(talk) : j <= i,
           NEW recent \in Seq(Speech), Len(recent) = Len(talk) - i + 1,
           \A j \in 1 .. Len(recent) : recent[j] = talk[i + j - 1]
    PROVE  Cuts(recent) \subseteq {1}
<1> SUFFICES ASSUME NEW j \in Cuts(recent) PROVE j = 1 OBVIOUS
<1>1. j \in 1 .. Len(recent) /\ recent[j].role = "user" BY DEF Cuts
<1>2. Len(talk) \in Nat BY SMT
<1>3. i + j - 1 \in 1 .. Len(talk) /\ j \in Nat /\ j >= 1 BY <1>1, <1>2
<1>4. talk[i + j - 1].role = "user" BY <1>1
<1>5. i + j - 1 \in Cuts(talk) BY <1>3, <1>4 DEF Cuts
<1>6. i + j - 1 <= i BY <1>5
<1> QED BY <1>3, <1>6

\* A talk of earlier turns begins, from any of its messages on, with earlier turns.
LEMMA EarlierJoined ==
    ASSUME NEW s \in Seq(Speech), NEW t \in Seq(Speech), NEW n \in Nat
    PROVE  Earlier(Joined(s, t), n) <=> Earlier(s, n) /\ Earlier(t, n)
<1>1. PICK h : h = Joined(s, t) OBVIOUS
<1>2. h \in Seq(Speech) /\ Follows(h, s, t) BY <1>1, JoinedIs
<1>3. PICK a, b : a = Len(s) /\ b = Len(t) OBVIOUS
<1>4. a \in Nat /\ b \in Nat BY <1>3
<1>5. /\ Len(h) = a + b /\ \A k \in 1 .. a : h[k] = s[k]
      /\ \A k \in 1 .. b : h[a + k] = t[k]
  BY <1>2, <1>3 DEF Follows
<1>6. ASSUME Earlier(h, n) PROVE Earlier(s, n) /\ Earlier(t, n)
  <2>1. ASSUME NEW k \in 1 .. a PROVE s[k].turn < n
    <3>1. k \in 1 .. Len(h) BY <1>4, <1>5
    <3> QED BY <1>5, <1>6, <3>1 DEF Earlier
  <2>2. ASSUME NEW k \in 1 .. b PROVE t[k].turn < n
    <3>1. a + k \in 1 .. Len(h) BY <1>4, <1>5
    <3>2. h[a + k].turn < n BY <1>6, <3>1 DEF Earlier
    <3> QED BY <1>5, <3>2
  <2> QED BY <1>3, <2>1, <2>2 DEF Earlier
<1>7. ASSUME Earlier(s, n), Earlier(t, n) PROVE Earlier(h, n)
  <2> SUFFICES ASSUME NEW k \in 1 .. Len(h) PROVE h[k].turn < n BY DEF Earlier
  <2>1. CASE k \in 1 .. a BY <1>3, <1>5, <1>7, <2>1 DEF Earlier
  <2>2. CASE k \notin 1 .. a
    <3>1. k - a \in 1 .. b /\ a + (k - a) = k BY <1>4, <1>5, <2>2
    <3>2. h[k] = t[k - a] BY <1>5, <3>1
    <3> QED BY <1>3, <1>7, <3>1, <3>2 DEF Earlier
  <2> QED BY <2>1, <2>2
<1> QED BY <1>1, <1>6, <1>7

\* A turn is over by the next one.
LEMMA TurnIsEarlier ==
    ASSUME NEW now \in Seq(Speech), NEW n \in Nat, NEW t \in Nat, n < t,
           OfTurn(now, n) \/ Earlier(now, n)
    PROVE  Earlier(now, t)
<1> SUFFICES ASSUME NEW k \in 1 .. Len(now) PROVE now[k].turn < t BY DEF Earlier
<1>1. now[k] \in Speech OBVIOUS
<1>2. now[k].turn \in Nat BY <1>1 DEF Speech, MessageType
<1> QED BY <1>2 DEF OfTurn, Earlier

\* What was kept and the last turn: a talk that begins with a user's message.
LEMMA TalkIs ==
    ASSUME NEW system, NEW older, NEW kept, NEW now, NEW n, NEW t \in Nat,
           Recent(system, older, kept, n), Current(now, n), n < t
    PROVE  /\ Joined(kept, now) \in Seq(Speech) /\ Joined(kept, now) # <<>>
           /\ Joined(kept, now)[1].role = "user"
           /\ Earlier(Joined(kept, now), t) /\ Earlier(older, t)
<1>1. /\ kept \in Seq(Speech) /\ older \in Seq(Speech) /\ n \in Nat
      /\ Earlier(kept, n) /\ Earlier(older, n) /\ (kept = <<>> \/ kept[1].role = "user")
  BY DEF Recent
<1>2. now \in Seq(Speech) /\ OfTurn(now, n) /\ now[1].role = "user" /\ now # <<>>
  BY DEF Current, OfTurn
<1>3. PICK h : h = Joined(kept, now) OBVIOUS
<1>4. h \in Seq(Speech) /\ Follows(h, kept, now) BY <1>1, <1>2, <1>3, JoinedIs
<1>5. Len(kept) \in Nat /\ Len(now) \in Nat /\ Len(now) # 0 BY <1>1, <1>2, EmptySeq
<1>6. h[1].role = "user"
  <2>1. CASE kept = <<>>
    <3>1. Len(kept) = 0 /\ 1 \in 1 .. Len(now) BY <1>5, <2>1
    <3>2. h[0 + 1] = now[1] BY <1>4, <3>1 DEF Follows
    <3> QED BY <1>2, <3>2
  <2>2. CASE kept # <<>>
    <3>1. 1 \in 1 .. Len(kept) BY <1>1, <1>5, <2>2, EmptySeq
    <3>2. h[1] = kept[1] BY <1>4, <3>1 DEF Follows
    <3> QED BY <1>1, <2>2, <3>2
  <2> QED BY <2>1, <2>2
<1>7. h # <<>>
  <2>1. Len(h) # 0 BY <1>4, <1>5 DEF Follows
  <2> QED BY <2>1
<1>8. Earlier(kept, t) /\ Earlier(older, t) BY <1>1, TurnIsEarlier
<1>9. Earlier(now, t) BY <1>1, <1>2, TurnIsEarlier
<1>10. Earlier(h, t) BY <1>1, <1>2, <1>3, <1>8, <1>9, EarlierJoined
<1> QED BY <1>3, <1>4, <1>6, <1>7, <1>8, <1>10

\* What is left of the target is for the talk, if anything is left.
LEMMA BudgetIs ==
    ASSUME NEW x \in Int
    PROVE  Max({0, x}) = IF x >= 0 THEN x ELSE 0
<1>1. PICK b : b = IF x >= 0 THEN x ELSE 0 OBVIOUS
<1>2. b \in {0, x} /\ \A y \in {0, x} : b >= y BY <1>1
<1>3. Max({0, x}) \in {0, x} /\ \A y \in {0, x} : Max({0, x}) >= y BY <1>2 DEF Max
<1> QED BY <1>3

(* A history as it is compacted for a turn: none of the talk is lost but   *)
(* the beginning.                                                          *)
Compacted(system, older, talk, history, t) ==
    \E dropped, recent \in Seq(Speech) :
        /\ history = Begun(system, recent) /\ talk = Joined(dropped, recent)
        /\ Recent(system, Joined(older, dropped), recent, t)

\* Compaction keeps a recent part of what is said, and leaves none of it out as long as
\* it is not too long.
LEMMA CompactIs ==
    ASSUME NEW system, NEW older, NEW kept, NEW now, NEW n, NEW t \in Nat,
           Recent(system, older, kept, n), Current(now, n), n < t
    PROVE  Compacted(system, older, Joined(kept, now),
                     Compact(Begun(system, Joined(kept, now))), t)
<1>1. /\ system \in SystemMessage /\ older \in Seq(Speech) /\ kept \in Seq(Speech)
      /\ n \in Nat \ {0}
      /\ Cost(Begun(system, Joined(older, kept))) <= MaxTokens => older = <<>>
  BY DEF Recent
<1>2. now \in Seq(Speech) BY DEF Current
<1>3. PICK talk : talk = Joined(kept, now) OBVIOUS
<1>4. /\ talk \in Seq(Speech) /\ talk # <<>> /\ talk[1].role = "user"
      /\ Earlier(talk, t) /\ Earlier(older, t)
  BY <1>3, TalkIs
<1>5. t \in Nat \ {0} BY <1>1
<1>6. PICK h : h = Begun(system, talk) OBVIOUS
<1>7. System(h) = <<system>> /\ Talk(h) = talk BY <1>1, <1>4, <1>6, BegunIs
<1>8. Cost(h) \in Nat /\ Cost(<<system>>) \in Nat BY <1>1, <1>4, <1>6, CostBegun
<1>9. MaxTokens \in Nat /\ TargetTokens \in Nat /\ TargetTokens <= MaxTokens
  BY TokensAssumption
\* Nothing has been left out if it is not too long.
<1>10. PICK whole : whole = Cost(Begun(system, Joined(older, talk))) OBVIOUS
<1>11. whole \in Nat /\ (whole <= MaxTokens => older = <<>>)
  <2>1. PICK before : before = Joined(older, kept) OBVIOUS
  <2>2. before \in Seq(Speech) BY <1>1, <2>1, JoinedIs
  <2>3. Joined(older, talk) = Joined(before, now) BY <1>1, <1>2, <1>3, <2>1, JoinedLaws
  <2>4. /\ Cost(Begun(system, before)) \in Nat /\ Cost(now) \in Nat
        /\ Cost(Begun(system, Joined(before, now))) = Cost(Begun(system, before)) + Cost(now)
    BY <1>1, <1>2, <2>2, CostBegun
  <2> QED BY <1>1, <1>9, <1>10, <2>1, <2>3, <2>4
<1>12. older = <<>> => whole = Cost(h) BY <1>4, <1>6, <1>10, JoinedLaws
<1>13. PICK budget : budget = Max({0, TargetTokens - Cost(System(h))}) OBVIOUS
<1>14. budget = IF TargetTokens - Cost(<<system>>) >= 0
                THEN TargetTokens - Cost(<<system>>) ELSE 0
  BY <1>7, <1>8, <1>9, <1>13, BudgetIs
<1>15. Compact(h) = IF Cost(h) <= MaxTokens \/ Kept(talk, budget) = {}
                    THEN h
                    ELSE <<system>> \o From(talk, Min(Kept(talk, budget)))
  BY <1>7, <1>13 DEF Compact, Kept
<1>16. PICK i : i = Min(Kept(talk, budget)) OBVIOUS
<1>17. /\ Kept(talk, budget) # {} /\ i \in Cuts(talk) /\ Keeps(talk, i, budget)
       /\ Max(Cuts(talk)) \in Cuts(talk) /\ \A j \in Cuts(talk) : j <= Max(Cuts(talk))
  BY <1>4, <1>16, KeptIs
<1>18. CASE Cost(h) <= MaxTokens
  <2>1. Compact(h) = Begun(system, talk) BY <1>6, <1>15, <1>18
  <2>2. <<>> \in Seq(Speech) /\ talk = Joined(<<>>, talk) /\ Joined(older, <<>>) = older
    BY <1>1, <1>4, JoinedLaws
  <2>3. Recent(system, older, talk, t)
    BY <1>1, <1>4, <1>5, <1>6, <1>8, <1>9, <1>10, <1>11, <1>18 DEF Recent
  <2>4. Compacted(system, older, talk, Compact(h), t)
    BY <1>4, <2>1, <2>2, <2>3 DEF Compacted
  <2> QED BY <1>3, <1>6, <2>4
<1>19. CASE ~ (Cost(h) <= MaxTokens)
  <2>1. Compact(h) = <<system>> \o From(talk, i) BY <1>15, <1>16, <1>17, <1>19
  <2>2. i \in 1 .. Len(talk) /\ talk[i].role = "user" BY <1>17 DEF Cuts
  <2>3. PICK dropped \in Seq(Speech), recent \in Seq(Speech) :
            /\ recent = From(talk, i) /\ talk = Joined(dropped, recent)
            /\ recent # <<>> /\ Len(recent) = Len(talk) - i + 1
            /\ \A j \in 1 .. Len(recent) : recent[j] = talk[i + j - 1]
    BY <1>4, <2>2, FromIs
  <2>4. Compact(h) = Begun(system, recent) BY <2>1, <2>3 DEF Begun, Joined
  <2>5. recent[1].role = "user"
    <3>1. Len(recent) \in Nat /\ Len(recent) # 0 BY <2>3, EmptySeq
    <3>2. recent[1] = talk[i + 1 - 1] /\ i + 1 - 1 = i BY <2>2, <2>3, <3>1
    <3> QED BY <2>2, <3>2
  <2>6. Joined(older, dropped) \in Seq(Speech) BY <1>1, JoinedIs
  <2>7. Joined(Joined(older, dropped), recent) = Joined(older, talk)
    BY <1>1, <2>3, JoinedLaws
  <2>8. Earlier(dropped, t) /\ Earlier(recent, t) BY <1>4, <2>3, EarlierJoined
  <2>9. Earlier(Joined(older, dropped), t) BY <1>1, <1>4, <2>8, EarlierJoined
  <2>10. Cost(Begun(system, Joined(Joined(older, dropped), recent))) <= MaxTokens =>
             Joined(older, dropped) = <<>>
    BY <1>8, <1>9, <1>10, <1>11, <1>12, <1>19, <2>7
  <2>11. /\ Cost(recent) \in Nat /\ Cost(recent) > 0
         /\ Cost(Begun(system, recent)) = Cost(<<system>>) + Cost(recent)
    BY <1>1, <2>3, CostBegun
  <2>12. Cost(Begun(system, recent)) > MaxTokens => Cuts(recent) \subseteq {1}
    <3>1. CASE i = Max(Cuts(talk))
      <4>1. \A j \in Cuts(talk) : j <= i BY <1>17, <3>1
      <4>2. recent \in Seq(Speech) /\ Len(recent) = Len(talk) - i + 1 BY <2>3
      <4>3. \A j \in 1 .. Len(recent) : recent[j] = talk[i + j - 1] BY <2>3
      <4>4. talk \in Seq(Speech) /\ i \in 1 .. Len(talk) BY <1>4, <2>2
      <4>5. Cuts(recent) \subseteq {1} BY <4>1, <4>2, <4>3, <4>4, LatestCut
      <4> QED BY <4>5
    <3>2. CASE i # Max(Cuts(talk))
      <4>1. Cost(recent) <= budget BY <1>17, <2>3, <3>2 DEF Keeps
      <4> QED BY <1>8, <1>9, <1>14, <2>11, <4>1
    <3> QED BY <3>1, <3>2
  <2>13. Recent(system, Joined(older, dropped), recent, t)
    BY <1>1, <1>5, <2>5, <2>6, <2>8, <2>9, <2>10, <2>12 DEF Recent
  <2>14. Compacted(system, older, talk, Compact(h), t) BY <2>3, <2>4, <2>13 DEF Compacted
  <2> QED BY <1>3, <1>6, <2>14
<1> QED BY <1>18, <1>19

-----------------------------------------------------------------------------
(* The inductive invariant *)

(* What was said, and what of it is written: the last turn, what was kept  *)
(* when it began, and that was a recent part of the rest.                  *)
Lasting(whole, written, latest) ==
    \/ whole = <<>> /\ written = <<>>
    \/ \E system, older, kept, now, n :
          /\ n <= latest /\ Recent(system, older, kept, n) /\ Current(now, n)
          /\ whole = Begun(system, Joined(Joined(older, kept), now))
          /\ written = Begun(system, Joined(kept, now))

(* The history of a turn: what was kept of what was said, if there was     *)
(* anything, and what the turn has added.                                  *)
Handled(whole, history, t) ==
    \E system, older, kept, now :
        /\ Recent(system, older, kept, t) /\ Current(now, t)
        /\ history = Begun(system, Joined(kept, now))
        /\ \/ whole = <<>> /\ older = <<>> /\ kept = <<>>
           \/ whole = Begun(system, Joined(older, kept))

(* A response comes last, with the calls it is about to be answered or     *)
(* with none of them.                                                      *)
Asked(history, excepted, n, t) ==
    \E past \in Seq(MessageType), m \in MessageType :
        /\ history = Append(past, m) /\ Paired(past, excepted)
        /\ m.role = "assistant" /\ m.turn = t /\ m.calls \in {0, n}

TypeInv ==
    /\ file \in [Chats -> Seq(MessageType)] /\ said \in [Chats -> Seq(MessageType)]
    /\ pc \in {"listening", "querying", "acting", "saving"}
    /\ turn \in Nat /\ calls \in Nat
    /\ pc # "listening" => chat \in Chats /\ messages \in Seq(MessageType)

RecentInv ==
    /\ \A c \in Chats : Lasting(said[c], file[c], turn)
    /\ pc # "listening" => Handled(said[chat], messages, turn)

PairedInv ==
    /\ \A c \in Chats : Paired(file[c], broken)
    /\ pc \in {"querying", "saving"} => Paired(messages, broken)
    /\ pc = "acting" => Asked(messages, broken, calls, turn)

HistoryInv == TypeInv /\ RecentInv /\ PairedInv

-----------------------------------------------------------------------------
(* What was said *)

\* A turn begins with what compaction keeps.
LEMMA ReceivedNext ==
    ASSUME NEW whole, NEW written, NEW latest \in Nat, Lasting(whole, written, latest),
           written # <<>>,
           NEW m \in Speech, m.role = "user", m.turn = latest + 1
    PROVE  Handled(whole, Append(Compact(written), m), latest + 1)
<1>1. PICK system, older, kept, now, n :
          /\ n <= latest /\ Recent(system, older, kept, n) /\ Current(now, n)
          /\ whole = Begun(system, Joined(Joined(older, kept), now))
          /\ written = Begun(system, Joined(kept, now))
  BY DEF Lasting
<1>2. PICK t : t = latest + 1 OBVIOUS
<1>3. t \in Nat /\ t \in Nat \ {0} BY <1>2
<1>4. system \in SystemMessage /\ older \in Seq(Speech) /\ kept \in Seq(Speech) /\ n \in Nat
  BY <1>1 DEF Recent
<1>5. now \in Seq(Speech) BY <1>1 DEF Current
<1>6. n < t BY <1>1, <1>2, <1>4
<1>7. Compacted(system, older, Joined(kept, now), Compact(written), t)
  BY <1>1, <1>3, <1>6, CompactIs
<1>8. PICK dropped \in Seq(Speech), recent \in Seq(Speech) :
          /\ Compact(written) = Begun(system, recent)
          /\ Joined(kept, now) = Joined(dropped, recent)
          /\ Recent(system, Joined(older, dropped), recent, t)
  BY <1>7 DEF Compacted
<1>9. whole = Begun(system, Joined(Joined(older, dropped), recent))
  <2>1. Joined(Joined(older, kept), now) = Joined(older, Joined(kept, now))
    BY <1>4, <1>5, JoinedLaws
  <2>2. Joined(Joined(older, dropped), recent) = Joined(older, Joined(dropped, recent))
    BY <1>4, <1>8, JoinedLaws
  <2> QED BY <1>1, <1>8, <2>1, <2>2
<1>10. PICK first : first = <<m>> OBVIOUS
<1>11. first \in Seq(Speech) /\ Len(first) = 1 /\ first[1] = m /\ first # <<>> BY <1>10
<1>12. Current(first, t) BY <1>2, <1>11 DEF Current, OfTurn
<1>13. Append(Compact(written), m) = Begun(system, Joined(recent, first))
  <2>1. PICK h : h = Begun(system, recent) OBVIOUS
  <2>2. h \in Seq(MessageType) BY <1>4, <2>1, BegunJoined
  <2>3. m \in MessageType BY DEF Speech
  <2>4. Append(h, m) = h \o <<m>> BY <2>2, <2>3
  <2>5. Begun(system, Joined(recent, first)) = Joined(h, first)
    BY <1>4, <1>11, <2>1, BegunJoined
  <2> QED BY <1>8, <1>10, <2>1, <2>4, <2>5 DEF Joined
<1> QED BY <1>2, <1>8, <1>9, <1>12, <1>13 DEF Handled

\* The first turn begins with the system's message.
LEMMA ReceivedFirst ==
    ASSUME NEW system \in SystemMessage, NEW t \in Nat \ {0},
           NEW m \in Speech, m.role = "user", m.turn = t
    PROVE  Handled(<<>>, Append(<<system>>, m), t)
<1>1. PICK none : none = <<>> OBVIOUS
<1>2. none \in Seq(Speech) /\ Len(none) = 0 BY <1>1
<1>3. Joined(none, none) = none BY <1>1, <1>2, JoinedLaws
<1>4. Cuts(none) \subseteq {1} BY <1>2 DEF Cuts
<1>5. Recent(system, none, none, t) BY <1>1, <1>2, <1>4 DEF Recent, Earlier
<1>6. PICK first : first = <<m>> OBVIOUS
<1>7. first \in Seq(Speech) /\ Len(first) = 1 /\ first[1] = m /\ first # <<>> BY <1>6
<1>8. Current(first, t) BY <1>7 DEF Current, OfTurn
<1>9. Append(<<system>>, m) = Begun(system, Joined(none, first))
  <2>1. Joined(none, first) = first BY <1>1, <1>7, JoinedLaws
  <2>2. system \in MessageType /\ m \in MessageType BY DEF SystemMessage, Speech
  <2>3. Append(<<system>>, m) = <<system>> \o <<m>> BY <2>2
  <2> QED BY <1>6, <2>1, <2>3 DEF Begun, Joined
<1> QED BY <1>1, <1>5, <1>8, <1>9 DEF Handled

\* A turn adds messages of its own.
LEMMA HandledGrows ==
    ASSUME NEW whole, NEW history, NEW t, Handled(whole, history, t),
           NEW more \in Seq(Speech), \A i \in 1 .. Len(more) : more[i].turn = t
    PROVE  Handled(whole, Joined(history, more), t)
<1>1. PICK system, older, kept, now :
          /\ Recent(system, older, kept, t) /\ Current(now, t)
          /\ history = Begun(system, Joined(kept, now))
          /\ \/ whole = <<>> /\ older = <<>> /\ kept = <<>>
             \/ whole = Begun(system, Joined(older, kept))
  BY DEF Handled
<1>2. system \in SystemMessage /\ kept \in Seq(Speech) BY <1>1 DEF Recent
<1>3. now \in Seq(Speech) BY <1>1 DEF Current
<1>4. PICK next : next = Joined(now, more) OBVIOUS
<1>5. next \in Seq(Speech) /\ Follows(next, now, more) BY <1>3, <1>4, JoinedIs
<1>6. Len(now) \in Nat /\ Len(now) # 0 /\ Len(more) \in Nat
  BY <1>1, <1>3, EmptySeq DEF Current, OfTurn
<1>7. Current(next, t)
  <2>1. next[1] = now[1] /\ Len(next) # 0 BY <1>5, <1>6 DEF Follows
  <2>2. ASSUME NEW k \in 1 .. Len(next) PROVE next[k].turn = t
    <3>1. CASE k \in 1 .. Len(now) BY <1>1, <1>5, <3>1 DEF Follows, Current, OfTurn
    <3>2. CASE k \notin 1 .. Len(now)
      <4>1. Len(next) = Len(now) + Len(more) BY <1>5 DEF Follows
      <4>2. k - Len(now) \in 1 .. Len(more) /\ Len(now) + (k - Len(now)) = k
        BY <1>6, <3>2, <4>1
      <4>3. next[k] = more[k - Len(now)] BY <1>5, <4>2 DEF Follows
      <4> QED BY <4>2, <4>3
    <3> QED BY <3>1, <3>2
  <2>3. next # <<>> BY <2>1
  <2> QED BY <1>1, <1>5, <2>1, <2>2, <2>3 DEF Current, OfTurn
<1>8. Joined(history, more) = Begun(system, Joined(kept, next))
  <2>1. PICK talk : talk = Joined(kept, now) OBVIOUS
  <2>2. talk \in Seq(Speech) BY <1>2, <1>3, <2>1, JoinedIs
  <2>3. Begun(system, Joined(talk, more)) = Joined(Begun(system, talk), more)
    BY <1>2, <2>2, BegunJoined
  <2>4. Joined(talk, more) = Joined(kept, next) BY <1>2, <1>3, <1>4, <2>1, JoinedLaws
  <2> QED BY <1>1, <2>1, <2>3, <2>4
<1> QED BY <1>1, <1>7, <1>8 DEF Handled

\* What is saved adds the turn to what was said.
LEMMA SavedIs ==
    ASSUME NEW whole, NEW history, NEW t \in Nat, Handled(whole, history, t),
           NEW after,
           after = IF whole = <<>> THEN history
                   ELSE whole \o Only(history, {m \in Range(history) : m.turn = t})
    PROVE  Lasting(after, history, t)
<1>1. PICK system, older, kept, now :
          /\ Recent(system, older, kept, t) /\ Current(now, t)
          /\ history = Begun(system, Joined(kept, now))
          /\ \/ whole = <<>> /\ older = <<>> /\ kept = <<>>
             \/ whole = Begun(system, Joined(older, kept))
  BY DEF Handled
<1>2. /\ system \in SystemMessage /\ older \in Seq(Speech) /\ kept \in Seq(Speech)
      /\ Earlier(kept, t) /\ t \in Nat \ {0}
  BY <1>1 DEF Recent
<1>3. now \in Seq(Speech) /\ OfTurn(now, t) BY <1>1 DEF Current
<1>4. Only(history, {m \in Range(history) : m.turn = t}) = now BY <1>1, <1>2, <1>3, TurnIs
<1>5. after = Begun(system, Joined(Joined(older, kept), now))
  <2>1. CASE whole = <<>> /\ older = <<>> /\ kept = <<>>
    <3>1. Joined(older, kept) = kept BY <1>2, <2>1, JoinedLaws
    <3> QED BY <1>1, <2>1, <3>1
  <2>2. CASE whole = Begun(system, Joined(older, kept))
    <3>1. PICK talk : talk = Joined(older, kept) OBVIOUS
    <3>2. talk \in Seq(Speech) BY <1>2, <3>1, JoinedIs
    <3>3. Begun(system, Joined(talk, now)) = Joined(whole, now)
      BY <1>2, <1>3, <2>2, <3>1, <3>2, BegunJoined
    <3>4. whole # <<>>
      <4>1. Len(whole) = Len(talk) + 1 BY <1>2, <2>2, <3>1, <3>2, BegunIs
      <4>2. Len(talk) \in Nat BY <3>2
      <4> QED BY <4>1, <4>2
    <3> QED BY <1>4, <3>1, <3>3, <3>4 DEF Joined
  <2> QED BY <1>1, <2>1, <2>2
<1>6. t <= t BY <1>2
<1> QED BY <1>1, <1>5, <1>6 DEF Lasting

-----------------------------------------------------------------------------
(* Calls and their answers *)

\* A message that fits still does when others are added.
LEMMA FitsKept ==
    ASSUME NEW h \in Seq(MessageType), NEW g \in Seq(MessageType), Len(h) <= Len(g),
           \A k \in 1 .. Len(h) : g[k] = h[k],
           NEW i \in 1 .. Len(h), Fits(h, i)
    PROVE  Fits(g, i)
<1>1. PICK m, c : m = h[i] /\ c = h[i].calls OBVIOUS
<1>2. c \in Nat
  <2>1. h[i] \in MessageType OBVIOUS
  <2> QED BY <1>1, <2>1 DEF MessageType
<1>3. Len(h) \in Nat /\ Len(g) \in Nat /\ g[i] = m BY <1>1
<1>4. ASSUME m.role = "assistant"
      PROVE  /\ i + c <= Len(g)
             /\ \A k \in 1 .. c : /\ g[i + k].role = "tool"
                                  /\ g[i + k].turn = m.turn /\ g[i + k].calls = k
  <2>1. /\ i + c <= Len(h)
        /\ \A k \in 1 .. c : /\ h[i + k].role = "tool"
                             /\ h[i + k].turn = m.turn /\ h[i + k].calls = k
    BY <1>1, <1>4 DEF Fits
  <2>2. \A k \in 1 .. c : i + k \in 1 .. Len(h) BY <1>2, <1>3, <2>1
  <2>3. \A k \in 1 .. c : g[i + k] = h[i + k] BY <2>2
  <2>4. i + c <= Len(g) BY <1>2, <1>3, <2>1
  <2>5. ASSUME NEW k \in 1 .. c
        PROVE  /\ g[i + k].role = "tool" /\ g[i + k].turn = m.turn /\ g[i + k].calls = k
    <3>1. g[i + k] = h[i + k] BY <2>3
    <3> QED BY <2>1, <3>1
  <2> QED BY <2>4, <2>5
<1>5. ASSUME m.role = "tool"
      PROVE  /\ c < i /\ g[i - c].role = "assistant"
             /\ c <= g[i - c].calls /\ g[i - c].turn = m.turn
  <2>1. /\ c < i /\ h[i - c].role = "assistant"
        /\ c <= h[i - c].calls /\ h[i - c].turn = m.turn
    BY <1>1, <1>5 DEF Fits
  <2>2. i - c \in 1 .. Len(h) BY <1>2, <1>3, <2>1
  <2> QED BY <2>1, <2>2
<1> QED BY <1>1, <1>3, <1>4, <1>5 DEF Fits

\* The calls that are excepted are excepted with others.
LEMMA PairedWeaker ==
    ASSUME NEW h, NEW few, NEW many, few \subseteq many, Paired(h, few)
    PROVE  Paired(h, many)
BY DEF Paired

\* What is added is paired when it is excepted or fits there.
LEMMA PairedGrows ==
    ASSUME NEW h \in Seq(MessageType), NEW more \in Seq(MessageType), NEW excepted,
           Paired(h, excepted),
           NEW g, g = Joined(h, more),
           \A k \in 1 .. Len(more) : more[k].turn \in excepted \/ Fits(g, Len(h) + k)
    PROVE  g \in Seq(MessageType) /\ Paired(g, excepted)
<1>1. g \in Seq(MessageType) /\ Follows(g, h, more) BY JoinedIs
<1>2. PICK a, b : a = Len(h) /\ b = Len(more) OBVIOUS
<1>3. a \in Nat /\ b \in Nat BY <1>2
<1>4. /\ Len(g) = a + b /\ \A k \in 1 .. a : g[k] = h[k]
      /\ \A k \in 1 .. b : g[a + k] = more[k]
  BY <1>1, <1>2 DEF Follows
<1>5. ASSUME NEW i \in 1 .. Len(g) PROVE g[i].turn \in excepted \/ Fits(g, i)
  <2>1. CASE i \in 1 .. a
    <3>1. h[i].turn \in excepted \/ Fits(h, i) BY <1>2, <2>1 DEF Paired
    <3>2. Fits(h, i) => Fits(g, i) BY <1>1, <1>2, <1>3, <1>4, <2>1, FitsKept
    <3> QED BY <1>4, <2>1, <3>1, <3>2
  <2>2. CASE i \notin 1 .. a
    <3>1. i - a \in 1 .. b /\ a + (i - a) = i BY <1>3, <1>4, <2>2
    <3>2. more[i - a].turn \in excepted \/ Fits(g, a + (i - a)) BY <1>2, <3>1
    <3>3. g[a + (i - a)] = more[i - a] BY <1>4, <3>1
    <3> QED BY <3>1, <3>2, <3>3
  <2> QED BY <2>1, <2>2
<1> QED BY <1>1, <1>5 DEF Paired

\* A message that has no calls and is no answer fits, and so does one that is excepted.
LEMMA PairedAppend ==
    ASSUME NEW h \in Seq(MessageType), NEW m \in MessageType, NEW excepted,
           Paired(h, excepted),
           m.turn \in excepted \/ m.role = "user" \/ (m.role = "assistant" /\ m.calls = 0)
    PROVE  Paired(Append(h, m), excepted)
<1>1. PICK one : one = <<m>> OBVIOUS
<1>2. one \in Seq(MessageType) /\ Len(one) = 1 /\ one[1] = m BY <1>1
<1>3. PICK g : g = Joined(h, one) OBVIOUS
<1>4. Append(h, m) = h \o <<m>> OBVIOUS
<1>5. g = Append(h, m) BY <1>1, <1>3, <1>4 DEF Joined
<1>6. Len(h) \in Nat /\ Len(g) = Len(h) + 1 /\ g[Len(h) + 1] = m BY <1>5
<1>7. ASSUME NEW k \in 1 .. Len(one) PROVE one[k].turn \in excepted \/ Fits(g, Len(h) + k)
  <2>1. k = 1 BY <1>2
  <2>2. ASSUME m.role = "user" \/ (m.role = "assistant" /\ m.calls = 0)
        PROVE  Fits(g, Len(h) + 1)
    <3>1. CASE m.role = "user" BY <1>6, <3>1 DEF Fits
    <3>2. CASE m.role = "assistant" /\ m.calls = 0
      <4>1. Len(h) + 1 + m.calls <= Len(g) /\ 1 .. m.calls = {} BY <1>6, <3>2
      <4> QED BY <1>6, <3>2, <4>1 DEF Fits
    <3> QED BY <2>2, <3>1, <3>2
  <2> QED BY <1>2, <2>1, <2>2
<1>8. g \in Seq(MessageType) /\ Paired(g, excepted)
  BY <1>2, <1>3, <1>7, PairedGrows
<1> QED BY <1>5, <1>8

\* The answers a turn's response asks for fit behind it.
LEMMA PairedAnswered ==
    ASSUME NEW past \in Seq(MessageType), NEW m \in MessageType, NEW excepted,
           Paired(past, excepted), m.role = "assistant",
           NEW n \in Nat, NEW answers \in Seq(MessageType), Len(answers) = n,
           \A k \in 1 .. n : /\ answers[k].role = "tool" /\ answers[k].turn = m.turn
                             /\ answers[k].calls = k,
           m.calls = n \/ (m.calls = 0 /\ m.turn \in excepted)
    PROVE  Paired(Joined(Append(past, m), answers), excepted)
<1>1. PICK one : one = <<m>> OBVIOUS
<1>2. one \in Seq(MessageType) /\ Len(one) = 1 /\ one[1] = m BY <1>1
<1>3. PICK h : h = Append(past, m) OBVIOUS
<1>4. /\ h \in Seq(MessageType) /\ Len(h) = Len(past) + 1 /\ h[Len(past) + 1] = m
      /\ \A k \in 1 .. Len(past) : h[k] = past[k] /\ Len(past) \in Nat
  BY <1>3
<1>5. CASE m.calls = 0 /\ m.turn \in excepted
  <2>1. h \in Seq(MessageType) /\ Paired(h, excepted) BY <1>3, <1>4, <1>5, PairedAppend
  <2>2. \A k \in 1 .. Len(answers) : answers[k].turn \in excepted BY <1>5
  <2>3. Paired(Joined(h, answers), excepted) BY <2>1, <2>2, PairedGrows
  <2> QED BY <1>3, <2>3
<1>6. CASE m.calls = n
  <2>1. PICK g : g = Joined(h, answers) OBVIOUS
  <2>2. h \in Seq(MessageType) BY <1>4
  <2>3. g \in Seq(MessageType) /\ Follows(g, h, answers) BY <2>1, <2>2, JoinedIs
  <2>4. PICK p : p = Len(past) OBVIOUS
  <2>5. p \in Nat /\ Len(h) = p + 1 /\ h[p + 1] = m BY <1>4, <2>4
  <2>6. Len(g) = (p + 1) + n /\ g[p + 1] = m
    <3>1. p + 1 \in 1 .. Len(h) BY <2>5
    <3> QED BY <2>3, <2>5, <3>1 DEF Follows
  <2>7. \A k \in 1 .. n : g[(p + 1) + k] = answers[k] BY <2>3, <2>5 DEF Follows
  <2>8. Fits(g, p + 1)
    <3>1. (p + 1) + n <= Len(g) BY <2>5, <2>6
    <3> QED BY <1>6, <2>6, <2>7, <3>1 DEF Fits
  <2>9. ASSUME NEW k \in 1 .. n PROVE Fits(g, (p + 1) + k)
    <3>1. PICK i : i = (p + 1) + k OBVIOUS
    <3>2. /\ g[i].role = "tool" /\ g[i].turn = m.turn /\ g[i].calls = k
      BY <2>7, <3>1
    <3>3. k < i /\ i - k = p + 1 /\ k <= n BY <2>5, <3>1
    <3>4. g[i - k] = m BY <2>6, <3>3
    <3> QED BY <1>6, <3>1, <3>2, <3>3, <3>4 DEF Fits
  <2>10. PICK more : more = Joined(one, answers) OBVIOUS
  <2>11. more \in Seq(MessageType) /\ Follows(more, one, answers) BY <1>2, <2>10, JoinedIs
  <2>12. g = Joined(past, more)
    <3>1. Append(past, m) = past \o <<m>> OBVIOUS
    <3>2. h = Joined(past, one) BY <1>1, <1>3, <3>1 DEF Joined
    <3> QED BY <1>2, <2>1, <2>10, <3>2, JoinedLaws
  <2>13. ASSUME NEW k \in 1 .. Len(more) PROVE Fits(g, Len(past) + k)
    <3>1. Len(more) = 1 + n BY <1>2, <2>11 DEF Follows
    <3>2. CASE k = 1 BY <2>4, <2>8, <3>2
    <3>3. CASE k # 1
      <4>1. k - 1 \in 1 .. n /\ (p + 1) + (k - 1) = p + k BY <2>5, <3>1, <3>3
      <4>2. Fits(g, (p + 1) + (k - 1)) BY <2>9, <4>1
      <4> QED BY <2>4, <4>1, <4>2
    <3> QED BY <3>2, <3>3
  <2>14. Paired(g, excepted) BY <2>11, <2>12, <2>13, PairedGrows
  <2> QED BY <1>3, <2>1, <2>14
<1> QED BY <1>5, <1>6

\* An answer that fits stands behind its response.
LEMMA AnswerFits ==
    ASSUME NEW h, NEW p, NEW q, NEW c,
           Fits(h, p), h[p].role = "tool", c = h[p].calls, q = p - c
    PROVE  /\ c < p /\ h[q].role = "assistant"
           /\ c <= h[q].calls /\ h[q].turn = h[p].turn
BY DEF Fits

\* What is left of a talk from a user's message on is paired as it was: no answer in it is
\* to a call before it.
LEMMA PairedSuffix ==
    ASSUME NEW system \in SystemMessage,
           NEW dropped \in Seq(Speech), NEW recent \in Seq(Speech),
           recent = <<>> \/ recent[1].role = "user", NEW excepted,
           Paired(Begun(system, Joined(dropped, recent)), excepted)
    PROVE  Paired(Begun(system, recent), excepted)
<1>1. PICK talk, h, g : /\ talk = Joined(dropped, recent)
                        /\ h = Begun(system, talk) /\ g = Begun(system, recent)
  OBVIOUS
<1>2. talk \in Seq(Speech) /\ Follows(talk, dropped, recent) BY <1>1, JoinedIs
<1>3. PICK a, b : a = Len(dropped) /\ b = Len(recent) OBVIOUS
<1>4. a \in Nat /\ b \in Nat /\ Len(talk) = a + b BY <1>2, <1>3 DEF Follows
<1>5. /\ h \in Seq(MessageType) /\ Len(h) = Len(talk) + 1 /\ h[1] = system
      /\ \A k \in 1 .. Len(talk) : h[k + 1] = talk[k]
  BY <1>1, <1>2, BegunIs
<1>6. /\ g \in Seq(MessageType) /\ Len(g) = b + 1 /\ g[1] = system
      /\ \A k \in 1 .. b : g[k + 1] = recent[k]
  BY <1>1, <1>3, BegunIs
<1>7. \A k \in 2 .. b + 1 : g[k] = h[a + k]
  <2>1. ASSUME NEW k \in 2 .. b + 1 PROVE g[k] = h[a + k]
    <3>1. k - 1 \in 1 .. b /\ (k - 1) + 1 = k BY <1>4
    <3>2. g[k] = recent[k - 1] BY <1>6, <3>1
    <3>3. talk[a + (k - 1)] = recent[k - 1] BY <1>2, <1>3, <3>1 DEF Follows
    <3>4. a + (k - 1) \in 1 .. Len(talk) /\ (a + (k - 1)) + 1 = a + k BY <1>4, <3>1
    <3>5. h[a + k] = talk[a + (k - 1)] BY <1>5, <3>4
    <3> QED BY <3>2, <3>3, <3>5
  <2> QED BY <2>1
<1>8. \A i \in 1 .. Len(h) : h[i].calls \in Nat
  <2>1. ASSUME NEW i \in 1 .. Len(h) PROVE h[i].calls \in Nat
    <3>1. h[i] \in MessageType BY <1>5
    <3> QED BY <3>1 DEF MessageType
  <2> QED BY <2>1
<1>9. Len(h) = a + b + 1 BY <1>4, <1>5
<1>10. \A i \in 1 .. Len(h) : h[i].turn \in excepted \/ Fits(h, i) BY <1>1 DEF Paired
<1>11. a \in Nat /\ b \in Nat /\ Len(g) = b + 1 /\ Len(h) = a + b + 1 BY <1>4, <1>6, <1>9
<1>12. ASSUME NEW i \in 1 .. Len(g), g[i].turn \notin excepted PROVE Fits(g, i)
  <2>1. CASE i = 1
    <3>1. g[1].role = "system" BY <1>6 DEF SystemMessage
    <3> QED BY <2>1, <3>1 DEF Fits
  <2>2. CASE i # 1
    <3>1. PICK p : p = a + i OBVIOUS
    <3>2. i \in 2 .. b + 1 /\ p \in 1 .. Len(h) /\ p \in Nat BY <1>11, <2>2, <3>1
    <3>3. PICK m, c : m = h[p] /\ c = h[p].calls OBVIOUS
    <3>4. g[i] = m /\ m.calls = c /\ c \in Nat BY <1>7, <1>8, <3>1, <3>2, <3>3
    <3>5. Fits(h, p) BY <1>10, <1>12, <3>2, <3>3, <3>4
    <3>6. ASSUME m.role = "assistant"
          PROVE  /\ i + c <= Len(g)
                 /\ \A k \in 1 .. c : /\ g[i + k].role = "tool"
                                      /\ g[i + k].turn = m.turn /\ g[i + k].calls = k
      <4>1. /\ p + c <= Len(h)
            /\ \A k \in 1 .. c : /\ h[p + k].role = "tool"
                                 /\ h[p + k].turn = m.turn /\ h[p + k].calls = k
        BY <3>3, <3>5, <3>6 DEF Fits
      <4>2. i + c <= Len(g) BY <1>11, <3>1, <3>2, <3>4, <4>1
      <4>3. ASSUME NEW k \in 1 .. c
            PROVE  /\ g[i + k].role = "tool"
                   /\ g[i + k].turn = m.turn /\ g[i + k].calls = k
        <5>1. i + k \in 2 .. b + 1 /\ a + (i + k) = p + k
          BY <1>11, <3>1, <3>2, <3>4, <4>2
        <5>2. g[i + k] = h[p + k] BY <1>7, <5>1
        <5> QED BY <4>1, <5>2
      <4> QED BY <4>2, <4>3
    <3>7. ASSUME m.role = "tool"
          PROVE  /\ c < i /\ g[i - c].role = "assistant"
                 /\ c <= g[i - c].calls /\ g[i - c].turn = m.turn
      <4>1. PICK q : q = p - c OBVIOUS
      <4>2. /\ c < p /\ h[q].role = "assistant"
            /\ c <= h[q].calls /\ h[q].turn = m.turn
        BY <3>3, <3>5, <3>7, <4>1, AnswerFits
      <4>3. q \in 1 .. Len(h) BY <1>11, <3>2, <3>4, <4>1, <4>2
      <4>4. Fits(h, q) BY <1>10, <1>12, <3>4, <4>2, <4>3
      \* A user's message is no answer.
      <4>5. q >= a + 2
        <5> SUFFICES ASSUME ~ (q >= a + 2) PROVE FALSE OBVIOUS
        <5>1. recent # <<>> /\ 1 \in 1 .. b BY <1>3, <1>4, <3>2, EmptySeq
        <5>2. h[a + 2].role = "user"
          <6>1. 2 \in 2 .. b + 1 /\ 1 + 1 = 2 BY <1>4, <5>1
          <6>2. g[2] = recent[1] BY <1>6, <5>1, <6>1
          <6> QED BY <1>7, <5>1, <6>1, <6>2
        <5>3. PICK k : k = a + 2 - q OBVIOUS
        <5>4. k \in 1 .. c /\ q + k = a + 2 BY <1>11, <3>1, <3>2, <3>4, <4>1, <4>3, <5>3
        <5>5. k \in 1 .. h[q].calls BY <1>8, <3>4, <4>2, <4>3, <5>4
        <5>6. h[q + k].role = "tool" BY <4>2, <4>4, <5>5 DEF Fits
        <5> QED BY <5>2, <5>4, <5>6
      <4>6. i - c \in 2 .. b + 1 /\ a + (i - c) = q /\ c < i
        BY <1>11, <3>1, <3>2, <3>4, <4>1, <4>5
      <4>7. g[i - c] = h[q] BY <1>7, <4>6
      <4> QED BY <4>2, <4>6, <4>7
    <3> QED BY <3>4, <3>6, <3>7 DEF Fits
  <2> QED BY <2>1, <2>2
<1> QED BY <1>1, <1>12 DEF Paired

\* What compaction leaves is paired as it was.
LEMMA PairedCompact ==
    ASSUME NEW whole, NEW written, NEW latest \in Nat, Lasting(whole, written, latest),
           written # <<>>, NEW excepted, Paired(written, excepted)
    PROVE  Compact(written) \in Seq(MessageType) /\ Paired(Compact(written), excepted)
<1>1. PICK system, older, kept, now, n :
          /\ n <= latest /\ Recent(system, older, kept, n) /\ Current(now, n)
          /\ written = Begun(system, Joined(kept, now))
  BY DEF Lasting
<1>2. PICK t : t = latest + 1 OBVIOUS
<1>3. system \in SystemMessage /\ n \in Nat BY <1>1 DEF Recent
<1>4. n < t /\ t \in Nat BY <1>1, <1>2, <1>3
<1>5. Compacted(system, older, Joined(kept, now), Compact(written), t)
  BY <1>1, <1>4, CompactIs
<1>6. PICK dropped \in Seq(Speech), recent \in Seq(Speech) :
          /\ Compact(written) = Begun(system, recent)
          /\ Joined(kept, now) = Joined(dropped, recent)
          /\ Recent(system, Joined(older, dropped), recent, t)
  BY <1>5 DEF Compacted
<1>7. recent = <<>> \/ recent[1].role = "user" BY <1>6 DEF Recent
<1>8. Paired(Begun(system, Joined(dropped, recent)), excepted) BY <1>1, <1>6
<1>9. Paired(Begun(system, recent), excepted) BY <1>3, <1>7, <1>8, PairedSuffix
<1>10. Begun(system, recent) \in Seq(MessageType) BY <1>3, BegunJoined
<1> QED BY <1>6, <1>9, <1>10

-----------------------------------------------------------------------------
(* Steps *)

\* A message, of some role and size.
LEMMA MessageIs ==
    ASSUME NEW role \in Roles, NEW t \in Nat, NEW n \in Nat, NEW size \in Sizes[role],
           NEW m, m = Message(role, t, n, size)
    PROVE  /\ m \in MessageType /\ m.role = role /\ m.turn = t /\ m.calls = n
           /\ role # "system" => m \in Speech
           /\ role = "system" /\ t = 0 => m \in SystemMessage
<1>1. size \in Nat \ {0} BY SizesAssumption
<1>2. /\ m = [role |-> role, turn |-> t, calls |-> n, size |-> size]
      /\ m \in MessageType
  BY <1>1 DEF Message, MessageType
<1> QED BY <1>2 DEF Speech, SystemMessage

\* Nothing is written exactly when nothing was said.
LEMMA LastingEmpty ==
    ASSUME NEW whole, NEW written, NEW latest, Lasting(whole, written, latest)
    PROVE  (whole = <<>> <=> written = <<>>)
<1>1. CASE whole = <<>> /\ written = <<>> BY <1>1
<1>2. ASSUME NEW system, NEW older, NEW kept, NEW now, NEW n,
             Recent(system, older, kept, n), Current(now, n),
             whole = Begun(system, Joined(Joined(older, kept), now)),
             written = Begun(system, Joined(kept, now))
      PROVE  whole # <<>> /\ written # <<>>
  <2>1. system \in SystemMessage /\ older \in Seq(Speech) /\ kept \in Seq(Speech)
    BY <1>2 DEF Recent
  <2>2. now \in Seq(Speech) BY <1>2 DEF Current
  <2>3. Joined(older, kept) \in Seq(Speech) BY <2>1, JoinedIs
  <2>4. ASSUME NEW talk \in Seq(Speech) PROVE Begun(system, talk) # <<>>
    <3>1. Len(Begun(system, talk)) = Len(talk) + 1 /\ Len(talk) \in Nat BY <2>1, BegunIs
    <3> QED BY <3>1
  <2>5. Joined(Joined(older, kept), now) \in Seq(Speech) BY <2>2, <2>3, JoinedIs
  <2>6. Joined(kept, now) \in Seq(Speech) BY <2>1, <2>2, JoinedIs
  <2> QED BY <1>2, <2>4, <2>5, <2>6
<1> QED BY <1>1, <1>2 DEF Lasting

\* What was said by then was said by later.
LEMMA LastingLater ==
    ASSUME NEW whole, NEW written, NEW t \in Nat, Lasting(whole, written, t)
    PROVE  Lasting(whole, written, t + 1)
<1>1. CASE whole = <<>> /\ written = <<>> BY <1>1 DEF Lasting
<1>2. CASE ~ (whole = <<>> /\ written = <<>>)
  <2>1. PICK system, older, kept, now, n :
            /\ n <= t /\ Recent(system, older, kept, n) /\ Current(now, n)
            /\ whole = Begun(system, Joined(Joined(older, kept), now))
            /\ written = Begun(system, Joined(kept, now))
    BY <1>2 DEF Lasting
  <2>2. n \in Nat BY <2>1 DEF Recent
  <2>3. n <= t + 1 BY <2>1, <2>2
  <2> QED BY <2>1, <2>3 DEF Lasting
<1> QED BY <1>1, <1>2

\* The history of a turn is a sequence of messages.
LEMMA HandledType ==
    ASSUME NEW whole, NEW history, NEW t, Handled(whole, history, t)
    PROVE  history \in Seq(MessageType)
<1>1. PICK system, older, kept, now :
          /\ Recent(system, older, kept, t) /\ Current(now, t)
          /\ history = Begun(system, Joined(kept, now))
  BY DEF Handled
<1>2. system \in SystemMessage /\ kept \in Seq(Speech) BY <1>1 DEF Recent
<1>3. now \in Seq(Speech) BY <1>1 DEF Current
<1>4. Joined(kept, now) \in Seq(Speech) BY <1>2, <1>3, JoinedIs
<1> QED BY <1>1, <1>2, <1>4, BegunJoined

\* What was said and what is written are sequences of messages.
LEMMA LastingType ==
    ASSUME NEW whole, NEW written, NEW t, Lasting(whole, written, t)
    PROVE  whole \in Seq(MessageType) /\ written \in Seq(MessageType)
<1>1. CASE whole = <<>> /\ written = <<>> BY <1>1
<1>2. CASE ~ (whole = <<>> /\ written = <<>>)
  <2>1. PICK system, older, kept, now, n :
            /\ n <= t /\ Recent(system, older, kept, n) /\ Current(now, n)
            /\ whole = Begun(system, Joined(Joined(older, kept), now))
            /\ written = Begun(system, Joined(kept, now))
    BY <1>2 DEF Lasting
  <2>2. system \in SystemMessage /\ older \in Seq(Speech) /\ kept \in Seq(Speech)
    BY <2>1 DEF Recent
  <2>3. now \in Seq(Speech) BY <2>1 DEF Current
  <2>4. Joined(older, kept) \in Seq(Speech) BY <2>2, JoinedIs
  <2>5. Joined(Joined(older, kept), now) \in Seq(Speech) BY <2>3, <2>4, JoinedIs
  <2>6. Joined(kept, now) \in Seq(Speech) BY <2>2, <2>3, JoinedIs
  <2> QED BY <2>1, <2>2, <2>5, <2>6, BegunJoined
<1> QED BY <1>1, <1>2

\* A message more.
LEMMA HandledAppend ==
    ASSUME NEW whole, NEW history, NEW t, Handled(whole, history, t),
           NEW m \in Speech, m.turn = t
    PROVE  Handled(whole, Append(history, m), t)
<1>1. history \in Seq(MessageType) BY HandledType
<1>2. PICK one : one = <<m>> OBVIOUS
<1>3. one \in Seq(Speech) /\ Len(one) = 1 /\ one[1] = m BY <1>2
<1>4. m \in MessageType BY DEF Speech
<1>5. Append(history, m) = history \o <<m>> BY <1>1, <1>4
<1>6. Append(history, m) = Joined(history, one) BY <1>2, <1>5 DEF Joined
<1>7. \A i \in 1 .. Len(one) : one[i].turn = t BY <1>3
<1> QED BY <1>3, <1>6, <1>7, HandledGrows

\* A message that calls nothing fits: a user's, or a response without calls.
LEMMA PairedPlain ==
    ASSUME NEW h \in Seq(MessageType), NEW m \in MessageType, NEW excepted,
           Paired(h, excepted),
           m.role = "user" \/ (m.role = "assistant" /\ m.calls = 0),
           NEW g, g = Append(h, m)
    PROVE  Paired(g, excepted)
BY PairedAppend

\* A response comes last.
LEMMA LastIs ==
    ASSUME NEW past \in Seq(MessageType), NEW m \in MessageType,
           NEW h, h = Append(past, m)
    PROVE  h \in Seq(MessageType) /\ Last(h) = m
BY DEF Last

-----------------------------------------------------------------------------
(* The invariant is inductive *)

\* At first nothing is said or written.
LEMMA InvStart == Init => HistoryInv
<1> SUFFICES ASSUME Init PROVE HistoryInv OBVIOUS
<1>1. <<>> \in Seq(MessageType) /\ Len(<<>>) = 0 OBVIOUS
<1>2. TypeInv BY <1>1 DEF Init, TypeInv
<1>3. RecentInv BY DEF Init, RecentInv, Lasting
<1>4. \A c \in Chats : Paired(file[c], broken) BY DEF Init, Paired
<1>5. PairedInv BY <1>4 DEF Init, PairedInv
<1> QED BY <1>2, <1>3, <1>5 DEF HistoryInv

\* The first message, or what is left of the transcript and the message.
LEMMA ReceiveStep ==
    ASSUME NEW c \in Chats, HistoryInv, Receive(c)
    PROVE  HistoryInv'
<1>1. PICK size \in Sizes["user"], system \in Sizes["system"] :
          messages' = Append(IF file[c] = <<>>
                             THEN <<Message("system", 0, 0, system)>>
                             ELSE Compact(file[c]),
                             Message("user", turn', 0, size))
  BY DEF Receive
<1>2. /\ turn \in Nat /\ turn' = turn + 1 /\ chat' = c /\ pc' = "querying" /\ calls' = 0
      /\ file' = file /\ said' = said /\ broken' = broken
  BY DEF Receive, HistoryInv, TypeInv
<1>3. PICK t : t = turn + 1 OBVIOUS
<1>4. t \in Nat /\ t \in Nat \ {0} BY <1>2, <1>3
<1>5. PICK m, first : /\ m = Message("user", t, 0, size)
                      /\ first = Message("system", 0, 0, system)
  OBVIOUS
<1>6. m \in MessageType /\ m.role = "user" /\ m.turn = t /\ m \in Speech
  <2>1. "user" \in Roles /\ 0 \in Nat BY DEF Roles
  <2> QED BY <1>4, <1>5, <2>1, MessageIs
<1>7. first \in SystemMessage /\ first \in MessageType /\ first.role = "system"
  <2>1. "system" \in Roles /\ 0 \in Nat BY DEF Roles
  <2> QED BY <1>5, <2>1, MessageIs
<1>8. Lasting(said[c], file[c], turn) /\ Paired(file[c], broken)
  BY DEF HistoryInv, RecentInv, PairedInv
<1>9. Handled(said[c], messages', t) /\ Paired(messages', broken)
  <2>1. CASE file[c] = <<>>
    <3>1. messages' = Append(<<first>>, m) BY <1>1, <1>2, <1>3, <1>5, <2>1
    <3>2. said[c] = <<>> BY <1>8, <2>1, LastingEmpty
    <3>3. Handled(<<>>, Append(<<first>>, m), t) BY <1>4, <1>6, <1>7, ReceivedFirst
    <3>4. PICK one, b : one = <<first>> /\ b = broken OBVIOUS
    <3>5. one \in Seq(MessageType) BY <1>7, <3>4
    <3>6. Len(one) = 1 /\ one[1] = first BY <3>4
    <3>7. Paired(one, b) BY <1>7, <3>6 DEF Paired, Fits
    <3>8. m \in MessageType BY <1>6
    <3>9. m.role = "user" BY <1>6
    <3>10. PICK g : g = Append(one, m) OBVIOUS
    <3>11. Paired(g, b) BY <3>5, <3>7, <3>8, <3>9, <3>10, PairedPlain
    <3> QED BY <3>1, <3>2, <3>3, <3>4, <3>10, <3>11
  <2>2. CASE file[c] # <<>>
    <3>1. messages' = Append(Compact(file[c]), m) BY <1>1, <1>2, <1>3, <1>5, <2>2
    <3>2. Handled(said[c], Append(Compact(file[c]), m), turn + 1)
      BY <1>2, <1>3, <1>6, <1>8, <2>2, ReceivedNext
    <3>3. Compact(file[c]) \in Seq(MessageType) /\ Paired(Compact(file[c]), broken)
      BY <1>2, <1>8, <2>2, PairedCompact
    <3>4. PICK h, b : h = Compact(file[c]) /\ b = broken OBVIOUS
    <3>5. h \in Seq(MessageType) BY <3>3, <3>4
    <3>6. Paired(h, b) BY <3>3, <3>4
    <3>7. m \in MessageType BY <1>6
    <3>8. m.role = "user" BY <1>6
    <3>9. PICK g : g = Append(h, m) OBVIOUS
    <3>10. Paired(g, b) BY <3>5, <3>6, <3>7, <3>8, <3>9, PairedPlain
    <3> QED BY <1>3, <3>1, <3>2, <3>4, <3>9, <3>10
  <2> QED BY <2>1, <2>2
<1>10. messages' \in Seq(MessageType) BY <1>9, HandledType
<1>11. TypeInv' BY <1>2, <1>10 DEF HistoryInv, TypeInv
<1>12. RecentInv'
  <2>1. \A d \in Chats : Lasting(said[d], file[d], turn) BY DEF HistoryInv, RecentInv
  <2>2. \A d \in Chats : Lasting(said[d], file[d], turn + 1) BY <1>2, <2>1, LastingLater
  <2> QED BY <1>2, <1>3, <1>9, <2>2 DEF RecentInv
<1>13. PairedInv' BY <1>2, <1>9 DEF HistoryInv, PairedInv
<1> QED BY <1>11, <1>12, <1>13 DEF HistoryInv

\* What a step of a turn leaves alone.
LEMMA TurnTaken ==
    ASSUME HistoryInv, pc # "listening", Turn
    PROVE  /\ file' = file /\ said' = said /\ chat' = chat /\ turn' = turn
           /\ chat \in Chats /\ messages \in Seq(MessageType)
           /\ turn \in Nat /\ Handled(said[chat], messages, turn)
<1>1. file' = file /\ said' = said /\ chat' = chat /\ turn' = turn
  BY DEF Turn, Respond, QueryRaises, Answer, CallRaises, EndTurn
<1> QED BY <1>1 DEF HistoryInv, TypeInv, RecentInv

\* A step of a turn keeps what was said and what is written; so it keeps the invariant if
\* the history grows as it should.
LEMMA TurnGoesOn ==
    ASSUME HistoryInv, pc # "listening", Turn,
           pc' \in {"querying", "acting", "saving"}, calls' \in Nat,
           Handled(said[chat], messages', turn), broken \subseteq broken',
           pc' # "acting" => Paired(messages', broken'),
           pc' = "acting" => Asked(messages', broken', calls', turn)
    PROVE  HistoryInv'
<1>1. /\ file' = file /\ said' = said /\ chat' = chat /\ turn' = turn
      /\ chat \in Chats /\ turn \in Nat
  BY TurnTaken
<1>2. messages' \in Seq(MessageType) BY HandledType
<1>3. TypeInv' BY <1>1, <1>2 DEF HistoryInv, TypeInv
<1>4. RecentInv' BY <1>1 DEF HistoryInv, RecentInv
<1>5. PairedInv'
  <2>1. \A c \in Chats : Paired(file[c], broken') BY PairedWeaker DEF HistoryInv, PairedInv
  <2> QED BY <1>1, <2>1 DEF PairedInv
<1> QED BY <1>3, <1>4, <1>5 DEF HistoryInv

\* A response, behind a history in which everything is answered.
LEMMA RespondStep ==
    ASSUME NEW n \in 0 .. MaxCalls, HistoryInv, Respond(n)
    PROVE  HistoryInv'
<1>1. PICK structured \in {0, n}, size \in Sizes["assistant"] :
          messages' = Append(messages, Message("assistant", turn, structured, size))
  BY DEF Respond
<1>2. /\ pc = "querying" /\ calls' = n /\ broken' = broken
      /\ pc' = IF n = 0 THEN "saving" ELSE "acting"
  BY DEF Respond, EndTurn
<1>3. n \in Nat /\ structured \in Nat BY BoundsAssumption
<1>4. Turn BY DEF Turn
<1>5. /\ messages \in Seq(MessageType) /\ turn \in Nat
      /\ Handled(said[chat], messages, turn)
  BY <1>2, <1>4, TurnTaken
<1>6. PICK m, past, b : /\ m = Message("assistant", turn, structured, size)
                        /\ past = messages /\ b = broken
  OBVIOUS
<1>7. /\ m \in MessageType /\ m.role = "assistant" /\ m.turn = turn /\ m.calls = structured
      /\ m \in Speech
  <2>1. "assistant" \in Roles BY DEF Roles
  <2> QED BY <1>3, <1>5, <1>6, <2>1, MessageIs
<1>8. PICK next : next = Append(past, m) OBVIOUS
<1>9. messages' = next /\ past \in Seq(MessageType) BY <1>1, <1>5, <1>6, <1>8
<1>10. Handled(said[chat], next, turn)
  <2>1. Handled(said[chat], past, turn) BY <1>5, <1>6
  <2>2. Handled(said[chat], Append(past, m), turn) BY <1>7, <2>1, HandledAppend
  <2> QED BY <1>8, <2>2
<1>11. Paired(past, b) BY <1>2, <1>6 DEF HistoryInv, PairedInv
<1>12. ASSUME n = 0 PROVE Paired(next, b)
  <2>1. m.role = "assistant" /\ m.calls = 0 BY <1>7, <1>12
  <2> QED BY <1>7, <1>8, <1>9, <1>11, <2>1, PairedPlain
<1>13. Asked(next, b, n, turn)
  <2>1. m.calls \in {0, n} BY <1>7
  <2> QED BY <1>7, <1>8, <1>9, <1>11, <2>1 DEF Asked
<1>14. pc' = "acting" => Asked(messages', broken', calls', turn)
  BY <1>2, <1>6, <1>9, <1>13
<1>15. pc' # "acting" => Paired(messages', broken') BY <1>2, <1>6, <1>9, <1>12
<1>16. Handled(said[chat], messages', turn) BY <1>9, <1>10
<1> QED BY <1>2, <1>3, <1>4, <1>14, <1>15, <1>16, TurnGoesOn

\* Without a response the history is what it was.
LEMMA QueryRaisesStep ==
    ASSUME HistoryInv, QueryRaises
    PROVE  HistoryInv'
<1>1. /\ pc = "querying" /\ pc' = "saving" /\ messages' = messages
      /\ calls' = calls /\ broken' = broken
  BY DEF QueryRaises, EndTurn
<1>2. Turn BY DEF Turn
<1>3. Handled(said[chat], messages, turn) BY <1>1, <1>2, TurnTaken
<1>4. calls \in Nat /\ Paired(messages, broken)
  BY <1>1 DEF HistoryInv, TypeInv, PairedInv
<1> QED BY <1>1, <1>2, <1>3, <1>4, TurnGoesOn

\* The answers, behind the response that asks for them, or to calls in its text: then the
\* turn is excepted.
LEMMA AnswerStep ==
    ASSUME HistoryInv, Answer
    PROVE  HistoryInv'
<1>1. PICK size \in Sizes["tool"] :
          messages' = messages \o [k \in 1 .. calls |-> Message("tool", turn, k, size)]
  BY DEF Answer
<1>2. /\ pc = "acting" /\ pc' \in {"querying", "saving"} /\ calls' = calls
      /\ broken' = IF Last(messages).calls = calls THEN broken ELSE broken \cup {turn}
  BY DEF Answer, EndTurn
<1>3. Turn BY DEF Turn
<1>4. /\ messages \in Seq(MessageType) /\ turn \in Nat
      /\ Handled(said[chat], messages, turn)
  BY <1>2, <1>3, TurnTaken
<1>5. calls \in Nat BY DEF HistoryInv, TypeInv
<1>6. PICK n, t, b : n = calls /\ t = turn /\ b = broken' OBVIOUS
<1>7. PICK past \in Seq(MessageType), m \in MessageType :
          /\ messages = Append(past, m) /\ Paired(past, broken)
          /\ m.role = "assistant" /\ m.turn = turn /\ m.calls \in {0, calls}
  BY <1>2 DEF HistoryInv, PairedInv, Asked
<1>8. Last(messages) = m BY <1>7, LastIs
<1>9. PICK answers : answers = [k \in 1 .. n |-> Message("tool", t, k, size)] OBVIOUS
<1>10. \A k \in 1 .. n : /\ Message("tool", t, k, size) \in Speech
                         /\ Message("tool", t, k, size) \in MessageType
                         /\ Message("tool", t, k, size).role = "tool"
                         /\ Message("tool", t, k, size).turn = t
                         /\ Message("tool", t, k, size).calls = k
  <2>1. "tool" \in Roles BY DEF Roles
  <2>2. ASSUME NEW k \in 1 .. n
        PROVE  /\ Message("tool", t, k, size) \in Speech
               /\ Message("tool", t, k, size) \in MessageType
               /\ Message("tool", t, k, size).role = "tool"
               /\ Message("tool", t, k, size).turn = t
               /\ Message("tool", t, k, size).calls = k
    <3>1. k \in Nat BY <1>5, <1>6
    <3> QED BY <1>4, <1>6, <2>1, <3>1, MessageIs
  <2> QED BY <2>2
<1>11. /\ n \in Nat /\ t \in Nat /\ Len(answers) = n
       /\ answers \in Seq(Speech) /\ answers \in Seq(MessageType)
       /\ \A k \in 1 .. n : /\ answers[k].role = "tool" /\ answers[k].turn = t
                            /\ answers[k].calls = k
  BY <1>4, <1>5, <1>6, <1>9, <1>10
<1>12. messages' = Joined(messages, answers) BY <1>1, <1>6, <1>9 DEF Joined
<1>13. Handled(said[chat], messages', turn)
  <2>1. \A k \in 1 .. Len(answers) : answers[k].turn = turn BY <1>6, <1>11
  <2> QED BY <1>4, <1>11, <1>12, <2>1, HandledGrows
<1>14. broken \subseteq broken' BY <1>2
<1>15. Paired(messages', broken')
  <2>1. Paired(past, b) BY <1>6, <1>7, <1>14, PairedWeaker
  <2>2. m.calls = n \/ (m.calls = 0 /\ m.turn \in b) BY <1>2, <1>6, <1>7, <1>8
  <2>3. \A k \in 1 .. n : /\ answers[k].role = "tool" /\ answers[k].turn = m.turn
                          /\ answers[k].calls = k
    BY <1>6, <1>7, <1>11
  <2>4. m.role = "assistant" /\ n \in Nat /\ answers \in Seq(MessageType)
        /\ Len(answers) = n
    BY <1>7, <1>11
  <2>5. Paired(Joined(Append(past, m), answers), b)
    BY <2>1, <2>2, <2>3, <2>4, PairedAnswered
  <2> QED BY <1>6, <1>7, <1>12, <2>5
<1> QED BY <1>2, <1>3, <1>5, <1>13, <1>14, <1>15, TurnGoesOn

\* Calls that are not answered: the turn is excepted.
LEMMA CallRaisesStep ==
    ASSUME HistoryInv, CallRaises
    PROVE  HistoryInv'
<1>1. /\ pc = "acting" /\ pc' = "saving" /\ messages' = messages /\ calls' = calls
      /\ broken' = IF Last(messages).calls = 0 THEN broken ELSE broken \cup {turn}
  BY DEF CallRaises, EndTurn
<1>2. Turn BY DEF Turn
<1>3. Handled(said[chat], messages, turn) BY <1>1, <1>2, TurnTaken
<1>4. calls \in Nat BY DEF HistoryInv, TypeInv
<1>5. PICK past \in Seq(MessageType), m \in MessageType :
          /\ messages = Append(past, m) /\ Paired(past, broken)
          /\ m.role = "assistant" /\ m.turn = turn /\ m.calls \in {0, calls}
  BY <1>1 DEF HistoryInv, PairedInv, Asked
<1>6. Last(messages) = m BY <1>5, LastIs
<1>7. broken \subseteq broken' BY <1>1
<1>8. PICK b, h : b = broken' /\ h = messages OBVIOUS
<1>9. Paired(past, b) BY <1>5, <1>7, <1>8, PairedWeaker
<1>10. m.turn \in b \/ m.role = "user" \/ (m.role = "assistant" /\ m.calls = 0)
  BY <1>1, <1>5, <1>6, <1>8
<1>11. Paired(Append(past, m), b) BY <1>9, <1>10, PairedAppend
<1>12. Paired(messages', broken') BY <1>1, <1>5, <1>8, <1>11
<1> QED BY <1>1, <1>2, <1>3, <1>4, <1>7, <1>12, TurnGoesOn

\* The turn is added to what was said, and the history takes the transcript's place.
LEMMA SaveStep ==
    ASSUME HistoryInv, Save
    PROVE  HistoryInv'
<1>1. /\ pc = "saving" /\ pc' = "listening" /\ calls' = 0
      /\ turn' = turn /\ broken' = broken
      /\ file' = [file EXCEPT ![chat] = messages]
      /\ said' = [said EXCEPT ![chat] =
                     IF @ = <<>> THEN messages
                     ELSE @ \o Only(messages, {m \in Range(messages) : m.turn = turn})]
  BY DEF Save, Forget
<1>2. /\ chat \in Chats /\ messages \in Seq(MessageType) /\ turn \in Nat
      /\ file \in [Chats -> Seq(MessageType)] /\ said \in [Chats -> Seq(MessageType)]
      /\ Handled(said[chat], messages, turn)
  BY <1>1 DEF HistoryInv, TypeInv, RecentInv
<1>3. PICK after :
          after = IF said[chat] = <<>> THEN messages
                  ELSE said[chat] \o Only(messages, {m \in Range(messages) : m.turn = turn})
  OBVIOUS
<1>4. said' = [said EXCEPT ![chat] = after] BY <1>1, <1>2, <1>3
<1>5. Lasting(after, messages, turn) BY <1>2, <1>3, SavedIs
<1>6. after \in Seq(MessageType) BY <1>5, LastingType
<1>7. TypeInv' BY <1>1, <1>2, <1>4, <1>6 DEF HistoryInv, TypeInv
<1>8. \A c \in Chats : Lasting(said'[c], file'[c], turn')
  <2>1. \A c \in Chats : Lasting(said[c], file[c], turn) BY DEF HistoryInv, RecentInv
  <2> QED BY <1>1, <1>2, <1>4, <1>5, <2>1
<1>9. RecentInv' BY <1>1, <1>8 DEF RecentInv
<1>10. Paired(messages, broken) BY <1>1 DEF HistoryInv, PairedInv
<1>11. \A c \in Chats : Paired(file'[c], broken')
  <2>1. \A c \in Chats : Paired(file[c], broken) BY DEF HistoryInv, PairedInv
  <2> QED BY <1>1, <1>2, <1>10, <2>1
<1>12. PairedInv' BY <1>1, <1>11 DEF PairedInv
<1> QED BY <1>7, <1>9, <1>12 DEF HistoryInv

\* What is not saved is neither said nor written.
LEMMA CrashStep ==
    ASSUME HistoryInv, Crash
    PROVE  HistoryInv'
BY DEF Crash, Forget, HistoryInv, TypeInv, RecentInv, PairedInv

\* Every step of the application preserves the invariant.
LEMMA InvStep == HistoryInv /\ [Next]_vars => HistoryInv'
<1> SUFFICES ASSUME HistoryInv, [Next]_vars PROVE HistoryInv' OBVIOUS
<1>1. ASSUME NEW c \in Chats, Receive(c) PROVE HistoryInv' BY <1>1, ReceiveStep
<1>2. ASSUME NEW n \in 0 .. MaxCalls, Respond(n) PROVE HistoryInv' BY <1>2, RespondStep
<1>3. CASE QueryRaises BY <1>3, QueryRaisesStep
<1>4. CASE Answer BY <1>4, AnswerStep
<1>5. CASE CallRaises BY <1>5, CallRaisesStep
<1>6. CASE Save BY <1>6, SaveStep
<1>7. CASE Crash BY <1>7, CrashStep
<1>8. CASE UNCHANGED vars BY <1>8 DEF vars, HistoryInv, TypeInv, RecentInv, PairedInv
<1> QED BY <1>1, <1>2, <1>3, <1>4, <1>5, <1>6, <1>7, <1>8 DEF Next, Turn

\* The invariant holds: the histories are sequences of messages, each transcript is what
\* was kept of what was said, and every message but the excepted ones is answered.
THEOREM HistorySafe == Spec => []HistoryInv
<1>1. Init => HistoryInv BY InvStart
<1>2. HistoryInv /\ [Next]_vars => HistoryInv' BY InvStep
<1> QED BY <1>1, <1>2, PTL DEF Spec

-----------------------------------------------------------------------------
(* The properties *)

\* A history without messages has no tokens.
LEMMA NothingWritten ==
    ASSUME NEW written, written = <<>>
    PROVE  Cost(Before(written)) = 0
<1>1. written \in Seq(MessageType) /\ \A i \in 1 .. Len(written) : FALSE OBVIOUS
<1>2. PICK some : some = {m \in Range(written) : m.turn < Last(written).turn} OBVIOUS
<1>3. Only(written, some) = <<>> BY <1>1, OnlyNone
<1>4. Before(written) = <<>> BY <1>2, <1>3 DEF Before
<1>5. PICK none : none = <<>> OBVIOUS
<1>6. none \in Seq(MessageType) /\ Len(none) = 0 BY <1>5
<1>7. PICK f \in [0 .. Len(none) -> Nat] : Adds(f, none) /\ Cost(none) = f[Len(none)]
  BY <1>6, CostIs, MessagesAreSized
<1>8. Cost(none) = 0 BY <1>6, <1>7 DEF Adds
<1> QED BY <1>4, <1>5, <1>8

\* The end of a talk is what stands from there on.
LEMMA EndIs ==
    ASSUME NEW older \in Seq(Speech), NEW talk \in Seq(Speech), talk # <<>>,
           NEW whole, whole = Joined(older, talk)
    PROVE  /\ Len(talk) \in 1 .. Len(whole)
           /\ talk = From(whole, Len(whole) - Len(talk) + 1)
<1>1. whole \in Seq(Speech) /\ Follows(whole, older, talk) BY JoinedIs
<1>2. PICK a, b : a = Len(older) /\ b = Len(talk) OBVIOUS
<1>3. a \in Nat /\ b \in Nat /\ b # 0 BY <1>2, EmptySeq
<1>4. Len(whole) = a + b BY <1>1, <1>2 DEF Follows
<1>5. \A k \in 1 .. b : whole[a + k] = talk[k] BY <1>1, <1>2 DEF Follows
<1>6. PICK i : i = a + 1 OBVIOUS
<1>7. i \in 1 .. Len(whole) /\ Len(whole) - Len(talk) + 1 = i /\ Len(whole) - i + 1 = b
  BY <1>2, <1>3, <1>4, <1>6
<1>8. PICK dropped \in Seq(Speech), recent \in Seq(Speech) :
          /\ recent = From(whole, i) /\ Len(recent) = Len(whole) - i + 1
          /\ \A j \in 1 .. Len(recent) : recent[j] = whole[i + j - 1]
  BY <1>1, <1>7, FromIs
<1>9. Len(recent) = b BY <1>7, <1>8
<1>10. ASSUME NEW k \in 1 .. b PROVE recent[k] = talk[k]
  <2>1. i + k - 1 = a + k BY <1>3, <1>6
  <2>2. recent[k] = whole[i + k - 1] BY <1>8, <1>9
  <2> QED BY <1>5, <2>1, <2>2
<1>11. recent = talk BY <1>2, <1>8, <1>9, <1>10
<1>12. Len(talk) \in 1 .. Len(whole) BY <1>2, <1>3, <1>4
<1> QED BY <1>7, <1>8, <1>11, <1>12

\* What there is of a transcript that lasts: the end of what was said.
LEMMA LastingIsRecent ==
    ASSUME NEW whole, NEW written, NEW latest \in Nat, Lasting(whole, written, latest),
           whole # <<>>
    PROVE  /\ System(written) = System(whole)
           /\ Len(Talk(written)) \in 1 .. Len(Talk(whole))
           /\ Talk(written) = From(Talk(whole), Len(Talk(whole)) - Len(Talk(written)) + 1)
           /\ Talk(written)[1].role = "user"
           /\ Cost(Before(whole)) <= MaxTokens => written = whole
           /\ Cost(Before(written)) > MaxTokens => Cuts(Talk(Before(written))) \subseteq {1}
<1>1. PICK system, older, kept, now, n :
          /\ n <= latest /\ Recent(system, older, kept, n) /\ Current(now, n)
          /\ whole = Begun(system, Joined(Joined(older, kept), now))
          /\ written = Begun(system, Joined(kept, now))
  BY DEF Lasting
<1>2. /\ system \in SystemMessage /\ older \in Seq(Speech) /\ kept \in Seq(Speech)
      /\ n \in Nat \ {0} /\ Earlier(older, n) /\ Earlier(kept, n)
      /\ Cost(Begun(system, Joined(older, kept))) <= MaxTokens => older = <<>>
      /\ Cost(Begun(system, kept)) > MaxTokens => Cuts(kept) \subseteq {1}
  BY <1>1 DEF Recent
<1>3. now \in Seq(Speech) /\ OfTurn(now, n) BY <1>1 DEF Current
<1>4. PICK talk, past, all : /\ talk = Joined(kept, now) /\ past = Joined(older, kept)
                             /\ all = Joined(past, now)
  OBVIOUS
<1>5. n + 1 \in Nat /\ n < n + 1 BY <1>2
<1>6. talk \in Seq(Speech) /\ talk # <<>> /\ talk[1].role = "user"
  BY <1>1, <1>4, <1>5, TalkIs
<1>7. past \in Seq(Speech) BY <1>2, <1>4, JoinedIs
<1>8. all \in Seq(Speech) BY <1>3, <1>4, <1>7, JoinedIs
<1>9. all = Joined(older, talk) BY <1>2, <1>3, <1>4, JoinedLaws
<1>10. /\ System(whole) = <<system>> /\ Talk(whole) = all
       /\ System(written) = <<system>> /\ Talk(written) = talk
  <2>1. whole = Begun(system, all) /\ written = Begun(system, talk) BY <1>1, <1>4
  <2> QED BY <1>2, <1>6, <1>8, <2>1, BegunIs
<1>11. Len(talk) \in 1 .. Len(all) /\ talk = From(all, Len(all) - Len(talk) + 1)
  BY <1>2, <1>6, <1>9, EndIs
<1>12. Before(whole) = Begun(system, past) /\ Before(written) = Begun(system, kept)
  <2>1. Earlier(past, n) BY <1>2, <1>4, EarlierJoined
  <2>2. Earlier(kept, n) BY <1>2
  <2>3. OfTurn(now, n) BY <1>3
  <2>4. whole = Begun(system, Joined(past, now)) BY <1>1, <1>4
  <2>5. written = Begun(system, Joined(kept, now)) BY <1>1
  <2>6. Before(whole) = Begun(system, past)
    BY <1>2, <1>3, <1>7, <2>1, <2>3, <2>4, TurnIs
  <2>7. Before(written) = Begun(system, kept)
    BY <1>2, <1>3, <2>2, <2>3, <2>5, TurnIs
  <2> QED BY <2>6, <2>7
<1>13. Cost(Before(whole)) <= MaxTokens => written = whole
  <2>1. older = <<>> => past = kept BY <1>2, <1>4, JoinedLaws
  <2> QED BY <1>1, <1>2, <1>4, <1>12, <2>1
<1>14. Talk(Before(written)) = kept BY <1>2, <1>12, BegunIs
<1>15. Cost(Before(written)) > MaxTokens => Cuts(Talk(Before(written))) \subseteq {1}
  BY <1>2, <1>12, <1>14
<1> QED BY <1>6, <1>10, <1>11, <1>13, <1>15

\* The model is asked with a history it accepts, but for the turns whose calls nobody
\* answered or whose answers are to calls in a text: whatever was compacted, whichever
\* turns failed and whenever the process was stopped.
THEOREM AcceptedRequests == Spec => []RequestsAreAccepted
<1>1. HistoryInv => RequestsAreAccepted
  <2> SUFFICES ASSUME HistoryInv, pc = "querying"
               PROVE  Accepted(Only(messages, {m \in Range(messages) : m.turn \notin broken}))
    BY DEF RequestsAreAccepted
  <2>1. messages \in Seq(MessageType) /\ Paired(messages, broken)
    BY DEF HistoryInv, TypeInv, PairedInv
  <2> QED BY <2>1, OnlyAccepted
<1> QED BY <1>1, HistorySafe, PTL

\* A transcript is the end of what was said, from a user's message on; all of it, as long
\* as it never was too long; and what is kept of it is within the limits when a turn begins.
THEOREM RecentHistory == Spec => []HistoryIsRecent
<1>1. ASSUME HistoryInv, NEW c \in Chats, said[c] # <<>>
      PROVE  /\ System(file[c]) = System(said[c])
             /\ Len(Talk(file[c])) \in 1 .. Len(Talk(said[c]))
             /\ Talk(file[c])
                   = From(Talk(said[c]), Len(Talk(said[c])) - Len(Talk(file[c])) + 1)
             /\ Talk(file[c])[1].role = "user"
             /\ Cost(Before(said[c])) <= MaxTokens => file[c] = said[c]
             /\ Cost(Before(file[c])) > MaxTokens =>
                   Cuts(Talk(Before(file[c]))) \subseteq {1}
  <2>1. turn \in Nat /\ Lasting(said[c], file[c], turn)
    BY <1>1 DEF HistoryInv, TypeInv, RecentInv
  <2> QED BY <1>1, <2>1, LastingIsRecent
<1>2. HistoryInv => NothingForgotten BY <1>1 DEF NothingForgotten
<1>3. ASSUME HistoryInv, NEW c \in Chats, Cost(Before(file[c])) > MaxTokens
      PROVE  Cardinality(Cuts(Talk(Before(file[c])))) <= 1
  <2>1. MaxTokens \in Nat BY TokensAssumption
  <2>2. turn \in Nat /\ Lasting(said[c], file[c], turn)
    BY <1>3 DEF HistoryInv, TypeInv, RecentInv
  <2>3. file[c] # <<>> BY <1>3, <2>1, NothingWritten
  <2>4. said[c] # <<>> BY <2>2, <2>3, LastingEmpty
  <2>5. PICK I : I = Cuts(Talk(Before(file[c]))) OBVIOUS
  <2>6. I \subseteq {1} BY <1>1, <1>3, <2>4, <2>5
  <2>7. IsFiniteSet({1}) /\ Cardinality({1}) = 1 BY FS_Singleton
  <2>8. Cardinality(I) <= 1 BY <2>6, <2>7, FS_Subset
  <2> QED BY <2>5, <2>8
<1>4. HistoryInv => NothingHoarded BY <1>3 DEF NothingHoarded
<1>5. HistoryInv => HistoryIsRecent BY <1>2, <1>4 DEF HistoryIsRecent
<1> QED BY <1>5, HistorySafe, PTL
============================================================================
