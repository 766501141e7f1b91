------------------------- MODULE SearchServiceProofs -------------------------
(***************************************************************************)
(* SearchService's safety for every number of requests, workers, actors,   *)
(* queries and passages: what is batched twice and cut twice comes back to *)
(* those it belongs to.  The first half is about sequences: where a part   *)
(* lies in what was joined, and what a prefix of a query's documents is.   *)
(* The inductive invariant says where each worker stands in the queries of *)
(* its batch, and that the calls the actors hold are the awaited ones.     *)
(***************************************************************************)
EXTENDS SearchService, FiniteSetTheorems, SequenceTheorems, TLAPS

-----------------------------------------------------------------------------
(* Joining sequences, and cutting what was joined *)

\* A set that holds 0 and every successor of its members holds every number.
LEMMA Induction ==
    ASSUME NEW G, 0 \in G, \A n \in Nat : n \in G => n + 1 \in G
    PROVE  Nat \subseteq G
<1> SUFFICES ASSUME NEW T, T = Nat \ G, T # {} PROVE FALSE OBVIOUS
<1>1. PICK R : R = {p \in Nat \X Nat : p[1] < p[2]} OBVIOUS
<1>2. IsWellFoundedOn(R, Nat) BY <1>1, NatLessThanWellFounded DEF OpToRel
<1>3. PICK n \in T : \A m \in T : ~ (<<m, n>> \in R) BY <1>2, WFMin
<1>4. n \in Nat \ {0} /\ n - 1 \in Nat /\ (n - 1) + 1 = n OBVIOUS
<1>5. <<n - 1, n>> \in R BY <1>1, <1>4
<1>6. n - 1 \in G BY <1>3, <1>4, <1>5
<1> QED BY <1>4, <1>6

\* What the parts come to, one after the other.
Joins(h, parts) ==
    /\ h[0] = <<>>
    /\ \A i \in 1 .. Len(parts) : h[i] = h[i - 1] \o parts[i]

\* Such a function exists, whatever the parts.
LEMMA JoinsExist ==
    ASSUME NEW parts, Len(parts) \in Nat
    PROVE  \E h : Joins(h, parts)
<1> DEFINE Right(h, n) ==
               h[0] = <<>> /\ \A i \in 1 .. n : h[i] = h[i - 1] \o parts[i]
           Has(n) == \E h : Right(h, n)
<1>1. PICK L : L = {n \in Nat : Has(n)} OBVIOUS
<1>2. Has(0)
  <2>1. PICK h : h = [i \in {0} |-> <<>>] OBVIOUS
  <2>2. Right(h, 0) BY <2>1
  <2> QED BY <2>2
<1>3. ASSUME NEW n \in Nat, NEW g, Right(g, n) PROVE Has(n + 1)
  <2>1. PICK last : last = g[n] \o parts[n + 1] OBVIOUS
  <2>2. PICK h : h = [i \in 0 .. n + 1 |-> IF i <= n THEN g[i] ELSE last] OBVIOUS
  <2>3. h[0] = <<>> BY <1>3, <2>2
  <2>4. ASSUME NEW i \in 1 .. n + 1 PROVE h[i] = h[i - 1] \o parts[i]
    <3>1. h[i - 1] = g[i - 1] BY <2>2
    <3>2. CASE i <= n
      <4>1. i \in 1 .. n BY <3>2
      <4>2. h[i] = g[i] BY <2>2, <3>2
      <4> QED BY <1>3, <3>1, <4>1, <4>2
    <3>3. CASE ~ (i <= n)
      <4>1. i = n + 1 BY <3>3
      <4>2. h[i] = last BY <2>2, <3>3
      <4>3. h[i - 1] = g[n] BY <3>1, <4>1
      <4> QED BY <2>1, <4>1, <4>2, <4>3
    <3> QED BY <3>2, <3>3
  <2>5. Right(h, n + 1) BY <2>3, <2>4
  <2> QED BY <2>5
<1>4. \A n \in Nat : Has(n) => Has(n + 1) BY <1>3, Zenon
<1>5. Has(Len(parts))
  <2> HIDE DEF Has
  <2>1. 0 \in L BY <1>1, <1>2
  <2>2. \A n \in Nat : n \in L => n + 1 \in L BY <1>1, <1>4
  <2>3. Nat \subseteq L BY <2>1, <2>2, Induction
  <2> QED BY <1>1, <2>3
<1> QED BY <1>5 DEF Joins

\* The fold of the library is that function's last value.
LEMMA FlattenIs ==
    ASSUME NEW T, NEW parts \in Seq(Seq(T)), NEW h, Joins(h, parts)
    PROVE  FlattenSeq(parts) = h[Len(parts)]
<1>1. CASE Len(parts) = 0
  <2>1. parts = <<>> BY <1>1, EmptySeq
  <2>2. FlattenSeq(parts) = parts BY <1>1 DEF FlattenSeq
  <2> QED BY <1>1, <2>1, <2>2 DEF Joins
<1>2. CASE Len(parts) # 0
  <2>1. PICK f : f = [i \in 1 .. Len(parts) |-> h[i]] OBVIOUS
  <2>2. Len(parts) \in Nat OBVIOUS
  <2>3. ASSUME NEW i \in 1 .. Len(parts)
        PROVE  f[i] = IF i = 1 THEN parts[i] ELSE f[i - 1] \o parts[i]
    <3>1. f[i] = h[i - 1] \o parts[i] BY <2>1 DEF Joins
    <3>2. parts[i] \in Seq(T) OBVIOUS
    <3>3. CASE i = 1
      <4>1. h[i - 1] = <<>> BY <3>3 DEF Joins
      <4>2. <<>> \o parts[i] = parts[i] BY <3>2
      <4> QED BY <3>1, <3>3, <4>1, <4>2
    <3>4. CASE i # 1
      <4>1. i - 1 \in 1 .. Len(parts) BY <2>2, <3>4
      <4>2. f[i - 1] = h[i - 1] BY <2>1, <4>1
      <4> QED BY <3>1, <3>4, <4>2
    <3> QED BY <3>3, <3>4
  <2>4. f = [i \in 1 .. Len(parts) |->
                IF i = 1 THEN parts[i] ELSE f[i - 1] \o parts[i]]
    BY <2>1, <2>3
  <2>5. PICK g : /\ g = [i \in 1 .. Len(parts) |->
                            IF i = 1 THEN parts[i] ELSE g[i - 1] \o parts[i]]
                 /\ FlattenSeq(parts) = g[Len(parts)]
    BY <1>2, <2>4 DEF FlattenSeq
  <2>6. PICK L : L = {n \in Nat : n + 1 <= Len(parts) => g[n + 1] = h[n + 1]} OBVIOUS
  <2>7. 0 \in L
    <3>1. g[1] = parts[1] /\ parts[1] \in Seq(T) BY <1>2, <2>2, <2>5
    <3>2. 1 \in 1 .. Len(parts) /\ 1 - 1 = 0 BY <1>2, <2>2
    <3>3. h[1] = h[1 - 1] \o parts[1] /\ h[0] = <<>> BY <3>2, Zenon DEF Joins
    <3>4. <<>> \o parts[1] = parts[1] BY <3>1
    <3>5. g[1] = h[1] BY <3>1, <3>3, <3>4, <3>2
    <3>6. 0 + 1 = 1 OBVIOUS
    <3>7. g[0 + 1] = h[0 + 1] BY <3>5, <3>6, Zenon
    <3> QED BY <2>6, <3>7
  <2>8. ASSUME NEW n \in Nat, n \in L PROVE n + 1 \in L
    <3>1. CASE (n + 1) + 1 <= Len(parts)
      <4>1. g[n + 1] = h[n + 1] BY <2>2, <2>6, <2>8, <3>1
      <4>2. n + 2 \in 1 .. Len(parts) /\ n + 2 # 1 /\ (n + 2) - 1 = n + 1 BY <2>2, <3>1
      <4>3. g[n + 2] = g[n + 1] \o parts[n + 2] BY <2>5, <4>2
      <4>4. h[n + 2] = h[n + 1] \o parts[n + 2] BY <4>2 DEF Joins
      <4>5. (n + 1) + 1 = n + 2 OBVIOUS
      <4>6. g[(n + 1) + 1] = h[(n + 1) + 1] BY <4>1, <4>3, <4>4, <4>5, Zenon
      <4> QED BY <2>6, <4>6
    <3> QED BY <2>6, <3>1
  <2>9. Nat \subseteq L BY <2>7, <2>8, Induction
  <2>10. Len(parts) - 1 \in L /\ (Len(parts) - 1) + 1 = Len(parts) BY <1>2, <2>2, <2>9
  <2>11. g[Len(parts)] = h[Len(parts)] BY <2>2, <2>6, <2>10
  <2> QED BY <2>5, <2>11
<1> QED BY <1>1, <1>2

\* A concatenation, element by element.
LEMMA ConcatIs ==
    ASSUME NEW T, NEW s \in Seq(T), NEW t \in Seq(T)
    PROVE  /\ s \o t \in Seq(T) /\ Len(s \o t) = Len(s) + Len(t)
           /\ \A k \in 1 .. Len(s) : (s \o t)[k] = s[k]
           /\ \A k \in 1 .. Len(t) : (s \o t)[Len(s) + k] = t[k]
OBVIOUS

\* Every stage of the joining begins with the earlier ones.
LEMMA JoinsGrow ==
    ASSUME NEW T, NEW parts \in Seq(Seq(T)), NEW h, Joins(h, parts)
    PROVE  \A i \in 0 .. Len(parts) :
               /\ h[i] \in Seq(T) /\ Len(h[i]) <= Len(h[Len(parts)])
               /\ \A k \in 1 .. Len(h[i]) : h[Len(parts)][k] = h[i][k]
<1>1. Len(parts) \in Nat OBVIOUS
<1>2. ASSUME NEW n \in Nat, n + 1 <= Len(parts)
      PROVE  h[n + 1] = h[n] \o parts[n + 1] /\ parts[n + 1] \in Seq(T)
  <2>1. n + 1 \in 1 .. Len(parts) /\ (n + 1) - 1 = n BY <1>1, <1>2
  <2>2. h[n + 1] = h[(n + 1) - 1] \o parts[n + 1] BY <2>1, Zenon DEF Joins
  <2>3. parts[n + 1] \in Seq(T) BY <2>1
  <2> QED BY <2>1, <2>2, <2>3
<1>3. \A n \in 0 .. Len(parts) : h[n] \in Seq(T)
  <2>1. PICK L : L = {n \in Nat : n <= Len(parts) => h[n] \in Seq(T)} OBVIOUS
  <2>2. h[0] \in Seq(T) BY EmptySeq DEF Joins
  <2>3. 0 \in L BY <2>1, <2>2
  <2>4. ASSUME NEW n \in Nat, n \in L PROVE n + 1 \in L
    <3>1. CASE n + 1 <= Len(parts)
      <4>1. h[n] \in Seq(T) BY <1>1, <2>1, <2>4, <3>1
      <4>2. h[n] \o parts[n + 1] \in Seq(T) BY <1>2, <3>1, <4>1, ConcatIs
      <4>3. h[n + 1] \in Seq(T) BY <1>2, <3>1, <4>2
      <4> QED BY <2>1, <4>3
    <3> QED BY <2>1, <3>1
  <2>5. Nat \subseteq L BY <2>3, <2>4, Induction
  <2> QED BY <1>1, <2>1, <2>5
<1>4. ASSUME NEW n \in Nat, n + 1 <= Len(parts)
      PROVE  Len(h[n]) <= Len(h[n + 1]) /\ \A k \in 1 .. Len(h[n]) : h[n + 1][k] = h[n][k]
  <2>1. h[n] \in Seq(T) BY <1>1, <1>3, <1>4
  <2>2. PICK s, t : s = h[n] /\ t = parts[n + 1] OBVIOUS
  <2>3. s \in Seq(T) /\ t \in Seq(T) /\ h[n + 1] = s \o t BY <1>2, <1>4, <2>1, <2>2
  <2>4. Len(s \o t) = Len(s) + Len(t) /\ \A k \in 1 .. Len(s) : (s \o t)[k] = s[k]
    BY <2>3, ConcatIs
  <2>5. Len(s) \in Nat /\ Len(t) \in Nat BY <2>3
  <2>6. PICK u : u = h[n + 1] OBVIOUS
  <2>7. u = s \o t /\ h[n] = s BY <2>2, <2>3, <2>6
  <2>8. Len(s) <= Len(u) /\ \A k \in 1 .. Len(s) : u[k] = s[k] BY <2>4, <2>5, <2>7
  <2> QED BY <2>6, <2>7, <2>8, Zenon
<1> SUFFICES ASSUME NEW i \in 0 .. Len(parts)
             PROVE  /\ h[i] \in Seq(T) /\ Len(h[i]) <= Len(h[Len(parts)])
                    /\ \A k \in 1 .. Len(h[i]) : h[Len(parts)][k] = h[i][k]
  OBVIOUS
<1>5. PICK L : L = {n \in Nat : i + n <= Len(parts) =>
                        /\ Len(h[i]) <= Len(h[i + n])
                        /\ \A k \in 1 .. Len(h[i]) : h[i + n][k] = h[i][k]}
  OBVIOUS
<1>6. i \in Nat /\ i + 0 = i /\ \A n \in 0 .. Len(parts) : Len(h[n]) \in Nat
  BY <1>1, <1>3
<1>7. 0 \in L BY <1>1, <1>5, <1>6
<1>8. ASSUME NEW n \in Nat, n \in L PROVE n + 1 \in L
  <2>1. CASE i + (n + 1) <= Len(parts)
    <3>1. PICK m \in Nat : m = i + n /\ m + 1 = i + (n + 1) /\ m + 1 <= Len(parts)
      BY <1>1, <1>6, <2>1
    <3>2. m \in 0 .. Len(parts) /\ m + 1 \in 0 .. Len(parts) BY <1>1, <3>1
    <3>3. Len(h[i]) <= Len(h[m]) /\ \A k \in 1 .. Len(h[i]) : h[m][k] = h[i][k]
      BY <1>5, <1>8, <3>1, <3>2
    <3>4. Len(h[m]) <= Len(h[m + 1]) /\ \A k \in 1 .. Len(h[m]) : h[m + 1][k] = h[m][k]
      BY <1>4, <3>1
    <3>5. Len(h[i]) \in Nat /\ Len(h[m]) \in Nat /\ Len(h[m + 1]) \in Nat
      BY <1>6, <3>2
    <3>6. Len(h[i]) <= Len(h[m + 1]) /\ \A k \in 1 .. Len(h[i]) : h[m + 1][k] = h[i][k]
      <4>1. PICK a, b, c : a = h[i] /\ b = h[m] /\ c = h[m + 1] OBVIOUS
      <4>2. /\ Len(a) \in Nat /\ Len(b) \in Nat /\ Len(c) \in Nat
            /\ Len(a) <= Len(b) /\ Len(b) <= Len(c)
        BY <3>3, <3>4, <3>5, <4>1
      <4>3. \A k \in 1 .. Len(a) : b[k] = a[k] BY <3>3, <4>1, Zenon
      <4>4. \A k \in 1 .. Len(b) : c[k] = b[k] BY <3>4, <4>1, Zenon
      <4>5. Len(a) <= Len(c) /\ \A k \in 1 .. Len(a) : c[k] = a[k] BY <4>2, <4>3, <4>4
      <4> QED BY <4>1, <4>5, Zenon
    <3> QED BY <1>5, <3>1, <3>6
  <2> QED BY <1>5, <2>1
<1>9. Nat \subseteq L BY <1>7, <1>8, Induction
<1>10. Len(parts) - i \in L /\ i + (Len(parts) - i) = Len(parts) BY <1>1, <1>9
<1> QED BY <1>1, <1>3, <1>5, <1>10

\* Where the i-th part begins in what was joined.
Start(parts, i) == Len(FlattenSeq(SubSeq(parts, 1, i - 1)))

\* Joining keeps every part, at its offset.
LEMMA Joining ==
    ASSUME NEW T, NEW parts \in Seq(Seq(T))
    PROVE  /\ FlattenSeq(parts) \in Seq(T)
           /\ \A i \in 1 .. Len(parts) :
                  /\ Start(parts, i) \in Nat
                  /\ Start(parts, i) + Len(parts[i]) <= Len(FlattenSeq(parts))
                  /\ \A k \in 1 .. Len(parts[i]) :
                         FlattenSeq(parts)[Start(parts, i) + k] = parts[i][k]
<1>1. Len(parts) \in Nat OBVIOUS
<1>2. PICK h : Joins(h, parts) BY <1>1, JoinsExist
<1>3. PICK all : all = FlattenSeq(parts) OBVIOUS
<1>4. all = h[Len(parts)] BY <1>2, <1>3, FlattenIs
<1>5. \A i \in 0 .. Len(parts) :
          /\ h[i] \in Seq(T) /\ Len(h[i]) <= Len(all)
          /\ \A k \in 1 .. Len(h[i]) : all[k] = h[i][k]
  BY <1>2, <1>4, JoinsGrow
<1>6. all \in Seq(T) BY <1>1, <1>4, <1>5
<1>7. ASSUME NEW i \in 1 .. Len(parts)
      PROVE  /\ Start(parts, i) \in Nat
             /\ Start(parts, i) + Len(parts[i]) <= Len(all)
             /\ \A k \in 1 .. Len(parts[i]) : all[Start(parts, i) + k] = parts[i][k]
  <2>1. PICK first : first = SubSeq(parts, 1, i - 1) OBVIOUS
  <2>2. /\ first \in Seq(Seq(T)) /\ Len(first) = i - 1
        /\ \A k \in 1 .. i - 1 : first[k] = parts[k]
    BY <1>1, <2>1
  <2>3. Joins(h, first)
    <3>1. h[0] = <<>> BY <1>2 DEF Joins
    <3>2. ASSUME NEW j \in 1 .. Len(first) PROVE h[j] = h[j - 1] \o first[j]
      <4>1. j \in 1 .. Len(parts) /\ first[j] = parts[j] BY <1>1, <2>2, SMTT(30)
      <4>2. h[j] = h[j - 1] \o parts[j] BY <1>2, <4>1, Zenon DEF Joins
      <4> QED BY <4>1, <4>2, Zenon
    <3> QED BY <3>1, <3>2, Zenon DEF Joins
  <2>4. FlattenSeq(first) = h[i - 1] BY <2>2, <2>3, FlattenIs
  <2>5. Start(parts, i) = Len(h[i - 1]) BY <2>1, <2>4 DEF Start
  <2>6. i - 1 \in 0 .. Len(parts) /\ i \in 0 .. Len(parts) BY <1>1
  <2>7. h[i] = h[i - 1] \o parts[i] BY <1>2, Zenon DEF Joins
  <2>8. PICK s, t : s = h[i - 1] /\ t = parts[i] OBVIOUS
  <2>9. s \in Seq(T) /\ t \in Seq(T) /\ h[i] = s \o t
    <3>1. t \in Seq(T) BY <2>8
    <3>2. s \in Seq(T) BY <1>5, <2>6, <2>8
    <3> QED BY <2>7, <2>8, <3>1, <3>2, Zenon
  <2>10. /\ Len(s \o t) = Len(s) + Len(t)
         /\ \A k \in 1 .. Len(t) : (s \o t)[Len(s) + k] = t[k]
    BY <2>9, ConcatIs
  <2>11. /\ Len(s) + Len(t) <= Len(all)
         /\ \A k \in 1 .. Len(s) + Len(t) : all[k] = (s \o t)[k]
    BY <1>5, <2>6, <2>9, <2>10
  <2>12. Len(s) \in Nat /\ Len(t) \in Nat BY <2>9
  <2>13. \A k \in 1 .. Len(t) : all[Len(s) + k] = t[k]
    <3> SUFFICES ASSUME NEW k \in 1 .. Len(t) PROVE all[Len(s) + k] = t[k] OBVIOUS
    <3>1. Len(s) + k \in 1 .. Len(s) + Len(t) BY <2>12
    <3>2. all[Len(s) + k] = (s \o t)[Len(s) + k] BY <2>11, <3>1
    <3> QED BY <2>10, <3>2
  <2> QED BY <2>5, <2>8, <2>11, <2>12, <2>13
<1> QED BY <1>3, <1>6, <1>7

\* What was joined comes apart again (Encode, and the requests' own queries).
LEMMA Cutting ==
    ASSUME NEW T, NEW parts \in Seq(Seq(T)), NEW i \in 1 .. Len(parts)
    PROVE  Slice(FlattenSeq(parts), parts, i) = parts[i]
<1>1. PICK all, start, part : /\ all = FlattenSeq(parts) /\ start = Start(parts, i)
                              /\ part = parts[i]
  OBVIOUS
<1>2. /\ all \in Seq(T) /\ part \in Seq(T) /\ start \in Nat
      /\ start + Len(part) <= Len(all)
      /\ \A k \in 1 .. Len(part) : all[start + k] = part[k]
  BY <1>1, Joining
<1>3. SubSeq(all, start + 1, start + Len(part)) = part
  <2>1. PICK s : s = SubSeq(all, start + 1, start + Len(part)) OBVIOUS
  <2>2. /\ s \in Seq(T) /\ Len(s) = Len(part)
        /\ \A k \in 1 .. Len(part) : s[k] = all[start + k]
    BY <1>2, <2>1
  <2>3. s = part BY <1>2, <2>2, SeqEqual
  <2> QED BY <2>1, <2>3
<1> QED BY <1>1, <1>3 DEF Slice, Start

-----------------------------------------------------------------------------
(* The documents of a query *)

Query == [of : Requests, no : Nat]
Doc == [of : Query, rank : Nat]

\* A prefix, element by element.
LEMMA PrefixIs ==
    ASSUME NEW T, NEW s \in Seq(T), NEW n \in Nat
    PROVE  /\ Prefix(s, n) \in Seq(T) /\ Len(s) \in Nat /\ Len(Prefix(s, n)) \in Nat
           /\ Len(Prefix(s, n)) = IF n < Len(s) THEN n ELSE Len(s)
           /\ \A k \in 1 .. Len(Prefix(s, n)) : Prefix(s, n)[k] = s[k]
BY DEF Prefix

\* A sequence begins another if it is no longer and agrees with it.
LEMMA Begins ==
    ASSUME NEW T, NEW s \in Seq(T), NEW t \in Seq(T)
    PROVE  IsPrefix(s, t) <=> Len(s) <= Len(t) /\ \A k \in 1 .. Len(s) : s[k] = t[k]
<1>1. PICK a, b : a = SubSeq(s, 1, Len(s)) /\ b = SubSeq(t, 1, Len(s)) OBVIOUS
<1>2. CASE Len(s) <= Len(t)
  <2>1. /\ a \in Seq(T) /\ b \in Seq(T) /\ Len(a) = Len(s) /\ Len(b) = Len(s)
        /\ \A k \in 1 .. Len(s) : a[k] = s[k] /\ b[k] = t[k]
    BY <1>1, <1>2
  <2>2. a = b <=> \A k \in 1 .. Len(s) : s[k] = t[k]
    <3>1. a = b => \A k \in 1 .. Len(s) : s[k] = t[k] BY <2>1
    <3>2. ASSUME \A k \in 1 .. Len(s) : s[k] = t[k] PROVE a = b
      <4>1. Len(a) = Len(b) /\ \A k \in 1 .. Len(a) : a[k] = b[k] BY <2>1, <3>2
      <4> QED BY <2>1, <4>1, SeqEqual
    <3> QED BY <3>1, <3>2
  <2> QED BY <1>1, <1>2, <2>2 DEF IsPrefix
<1> QED BY <1>2 DEF IsPrefix

-----------------------------------------------------------------------------
(* What the n-th passage adds to them.                                     *)
News(n) == IF Best(n) THEN <<n>> ELSE <<>>

\* Distinct does what its recursion says.
LEMMA DistinctIs ==
    /\ Distinct[0] = <<>>
    /\ \A n \in 1 .. Len(Urls) : Distinct[n] = Distinct[n - 1] \o News(n)
<1>1. PICK parts : parts = [n \in 1 .. Len(Urls) |-> News(n)] OBVIOUS
<1>2. Len(Urls) \in Nat BY UrlsAssumption
<1>3. \A n \in Nat : News(n) \in Seq(Nat) BY DEF News
<1>4. parts \in Seq(Seq(Nat)) /\ Len(parts) = Len(Urls) BY <1>1, <1>2, <1>3
<1>5. PICK h : Joins(h, parts) BY <1>2, <1>4, JoinsExist
<1>6. PICK f : f = [n \in 0 .. Len(Urls) |-> h[n]] OBVIOUS
<1>7. ASSUME NEW n \in 0 .. Len(Urls)
      PROVE  f[n] = IF n = 0 THEN <<>> ELSE f[n - 1] \o (IF Best(n) THEN <<n>> ELSE <<>>)
  <2>1. CASE n = 0 BY <1>2, <1>5, <1>6, <2>1 DEF Joins
  <2>2. CASE n # 0
    <3>1. n \in 1 .. Len(parts) /\ n - 1 \in 0 .. Len(Urls) BY <1>2, <1>4, <2>2
    <3>2. h[n] = h[n - 1] \o parts[n] BY <1>5, <3>1, Zenon DEF Joins
    <3>3. f[n] = h[n] /\ f[n - 1] = h[n - 1] BY <1>6, <3>1
    <3>4. parts[n] = News(n) BY <1>1, <1>4, <3>1
    <3>5. f[n] = f[n - 1] \o News(n) BY <3>2, <3>3, <3>4, Zenon
    <3> QED BY <2>2, <3>5 DEF News
  <2> QED BY <2>1, <2>2
<1>8. f = [n \in 0 .. Len(Urls) |->
              IF n = 0 THEN <<>> ELSE f[n - 1] \o (IF Best(n) THEN <<n>> ELSE <<>>)]
  BY <1>6, <1>7
<1>9. Distinct = [n \in 0 .. Len(Urls) |->
              IF n = 0 THEN <<>> ELSE Distinct[n - 1] \o (IF Best(n) THEN <<n>> ELSE <<>>)]
  BY <1>8 DEF Distinct
<1>10. Distinct[0] = <<>> BY <1>2, <1>9
<1>11. ASSUME NEW n \in 1 .. Len(Urls) PROVE Distinct[n] = Distinct[n - 1] \o News(n)
  <2>1. n \in 0 .. Len(Urls) /\ n # 0 BY <1>2
  <2> QED BY <1>9, <2>1, Zenon DEF News
<1> QED BY <1>10, <1>11

\* The best passages of the first ones come first among those of more.
LEMMA DistinctGrows ==
    ASSUME NEW j \in 0 .. Len(Urls)
    PROVE  /\ Distinct[j] \in Seq(Nat) /\ Len(Distinct[j]) <= j
           /\ \A i \in 0 .. j :
                  /\ Distinct[i] \in Seq(Nat) /\ Len(Distinct[i]) <= Len(Distinct[j])
                  /\ \A k \in 1 .. Len(Distinct[i]) : Distinct[j][k] = Distinct[i][k]
<1>1. Len(Urls) \in Nat BY UrlsAssumption
<1>2. \A n \in Nat : News(n) \in Seq(Nat) /\ Len(News(n)) <= 1 BY DEF News
<1>3. PICK parts : parts = [n \in 1 .. j |-> News(n)] OBVIOUS
<1>4. parts \in Seq(Seq(Nat)) /\ Len(parts) = j BY <1>1, <1>2, <1>3
<1>5. Joins(Distinct, parts)
  <2>1. ASSUME NEW n \in 1 .. Len(parts) PROVE Distinct[n] = Distinct[n - 1] \o parts[n]
    <3>1. n \in 1 .. Len(Urls) /\ parts[n] = News(n) BY <1>1, <1>3, <1>4
    <3>2. Distinct[n] = Distinct[n - 1] \o News(n) BY <3>1, DistinctIs, Zenon
    <3> QED BY <3>1, <3>2, Zenon
  <2>2. Distinct[0] = <<>> BY DistinctIs
  <2> QED BY <2>1, <2>2, Zenon DEF Joins
<1>6. \A i \in 0 .. j :
          /\ Distinct[i] \in Seq(Nat) /\ Len(Distinct[i]) <= Len(Distinct[j])
          /\ \A k \in 1 .. Len(Distinct[i]) : Distinct[j][k] = Distinct[i][k]
  <2>1. \A i \in 0 .. Len(parts) :
          /\ Distinct[i] \in Seq(Nat) /\ Len(Distinct[i]) <= Len(Distinct[Len(parts)])
          /\ \A k \in 1 .. Len(Distinct[i]) : Distinct[Len(parts)][k] = Distinct[i][k]
    BY <1>4, <1>5, JoinsGrow
  <2> QED BY <1>4, <2>1, Zenon
<1>7. PICK G : G = {n \in Nat : n <= j => Len(Distinct[n]) <= n} OBVIOUS
<1>8. 0 \in G BY <1>7, DistinctIs
<1>9. ASSUME NEW n \in Nat, n \in G PROVE n + 1 \in G
  <2>1. CASE n + 1 <= j
    <3>1. n + 1 \in 1 .. Len(Urls) /\ (n + 1) - 1 = n /\ n \in 0 .. j BY <1>1, <2>1
    <3>2. Distinct[n + 1] = Distinct[(n + 1) - 1] \o News(n + 1) BY <3>1, DistinctIs, Zenon
    <3>3. PICK s, t : s = Distinct[n] /\ t = News(n + 1) OBVIOUS
    <3>4. s \in Seq(Nat) /\ t \in Seq(Nat) /\ Len(t) <= 1
      <4>1. n + 1 \in Nat OBVIOUS
      <4>2. t \in Seq(Nat) /\ Len(t) <= 1 BY <1>2, <3>3, <4>1
      <4>3. s \in Seq(Nat) BY <1>6, <3>1, <3>3
      <4> QED BY <4>2, <4>3
    <3>5. Len(s) <= n BY <1>1, <1>7, <1>9, <2>1, <3>3
    <3>6. Distinct[n + 1] = s \o t BY <3>1, <3>2, <3>3
    <3>7. Len(s \o t) = Len(s) + Len(t) BY <3>4, ConcatIs
    <3>8. Len(Distinct[n + 1]) <= n + 1 BY <3>4, <3>5, <3>6, <3>7
    <3> QED BY <1>7, <3>8
  <2> QED BY <1>7, <2>1
<1>10. Nat \subseteq G BY <1>8, <1>9, Induction
<1>11. Len(Distinct[j]) <= j BY <1>1, <1>7, <1>10
<1>12. j \in 0 .. j BY <1>1
<1> QED BY <1>6, <1>11, <1>12

\* The more are asked for, the more are looked at; in the end, all.
LEMMA LookedAtGrows ==
    ASSUME NEW k \in Nat, NEW n \in Nat, k <= n
    PROVE  /\ LookedAt(k) \in 0 .. LookedAt(n) /\ LookedAt(n) \in 0 .. Len(Urls)
           /\ LookedAt(Len(Urls)) = Len(Urls)
<1>1. Len(Urls) \in Nat /\ MinCandidates \in Nat BY UrlsAssumption, SizesAssumption
<1>2. ASSUME NEW m \in Nat
      PROVE  LookedAt(m) = IF Larger(2 * m, MinCandidates) < Len(Urls)
                           THEN Larger(2 * m, MinCandidates) ELSE Len(Urls)
  <2>1. Larger(2 * m, MinCandidates) \in Nat BY <1>1 DEF Larger
  <2> QED BY <2>1, UrlsAssumption, PrefixIs DEF LookedAt
<1>3. PICK a, b, c : /\ a = Larger(2 * k, MinCandidates) /\ b = Larger(2 * n, MinCandidates)
                     /\ c = Larger(2 * Len(Urls), MinCandidates)
  OBVIOUS
<1>4. a \in Nat /\ b \in Nat /\ c \in Nat /\ a <= b /\ Len(Urls) <= c
  BY <1>1, <1>3 DEF Larger
<1>5. LookedAt(k) = IF a < Len(Urls) THEN a ELSE Len(Urls) BY <1>2, <1>3
<1>6. LookedAt(n) = IF b < Len(Urls) THEN b ELSE Len(Urls) BY <1>2, <1>3
<1>7. LookedAt(Len(Urls)) = IF c < Len(Urls) THEN c ELSE Len(Urls) BY <1>1, <1>2, <1>3
<1> QED BY <1>1, <1>4, <1>5, <1>6, <1>7

\* What a query gets for its own topk, if more may be asked for by others.
LEMMA DocumentsAre ==
    ASSUME NEW query \in Query, NEW k \in Nat, NEW n \in Nat, k <= n,
           NEW docs, docs = Prefix(Documents(query, n), k)
    PROVE  /\ Documents(query, n) \in Seq(Doc)
           /\ Len(docs) <= k
           /\ IsPrefix(docs, Documents(query, Len(Urls)))
           /\ IsPrefix(Prefix(Documents(query, k), k), docs)
<1>1. Len(Urls) \in Nat BY UrlsAssumption
<1>2. ASSUME NEW m \in Nat, NEW d, d = Distinct[LookedAt(m)]
      PROVE  /\ Documents(query, m) \in Seq(Doc) /\ d \in Seq(Nat)
             /\ Len(Documents(query, m)) = IF m < Len(d) THEN m ELSE Len(d)
             /\ \A i \in 1 .. Len(Documents(query, m)) :
                    Documents(query, m)[i] = [of |-> query, rank |-> d[i]]
  <2>1. LookedAt(m) \in 0 .. Len(Urls) BY LookedAtGrows
  <2>2. d \in Seq(Nat) BY <1>2, <2>1, DistinctGrows
  <2>3. PICK ranks : ranks = Prefix(d, m) OBVIOUS
  <2>4. /\ ranks \in Seq(Nat) /\ Len(ranks) = IF m < Len(d) THEN m ELSE Len(d)
        /\ \A i \in 1 .. Len(ranks) : ranks[i] = d[i]
    BY <2>2, <2>3, PrefixIs
  <2>5. PICK s : s = [i \in 1 .. Len(ranks) |-> [of |-> query, rank |-> ranks[i]]] OBVIOUS
  <2>6. Documents(query, m) = s BY <1>2, <2>3, <2>5 DEF Documents
  <2>7. \A i \in 1 .. Len(ranks) : [of |-> query, rank |-> ranks[i]] \in Doc
    BY <2>4 DEF Doc
  <2>8. s \in Seq(Doc) /\ Len(s) = Len(ranks) BY <2>4, <2>5, <2>7
  <2>9. \A i \in 1 .. Len(s) : s[i] = [of |-> query, rank |-> d[i]] BY <2>4, <2>5, <2>8
  <2> QED BY <2>2, <2>4, <2>6, <2>8, <2>9
<1>3. PICK a, b, c : /\ a = Distinct[LookedAt(k)] /\ b = Distinct[LookedAt(n)]
                     /\ c = Distinct[LookedAt(Len(Urls))]
  OBVIOUS
<1>4. /\ a \in Seq(Nat) /\ b \in Seq(Nat) /\ c \in Seq(Nat)
      /\ Len(a) <= Len(b) /\ Len(b) <= Len(c) /\ Len(c) <= Len(Urls)
      /\ \A i \in 1 .. Len(a) : b[i] = a[i]
      /\ \A i \in 1 .. Len(b) : c[i] = b[i]
  <2>1. /\ LookedAt(k) \in 0 .. LookedAt(n) /\ LookedAt(n) \in 0 .. Len(Urls)
        /\ LookedAt(Len(Urls)) = Len(Urls) /\ Len(Urls) \in 0 .. Len(Urls)
    BY <1>1, LookedAtGrows
  <2>2. /\ a \in Seq(Nat) /\ Len(a) <= Len(b) /\ \A i \in 1 .. Len(a) : b[i] = a[i]
    BY <1>3, <2>1, DistinctGrows
  <2>3. /\ b \in Seq(Nat) /\ Len(b) <= Len(c) /\ \A i \in 1 .. Len(b) : c[i] = b[i]
        /\ c \in Seq(Nat) /\ Len(c) <= Len(Urls)
    BY <1>3, <2>1, DistinctGrows
  <2> QED BY <2>2, <2>3
<1>5. PICK A, B, C : /\ A = Documents(query, k) /\ B = Documents(query, n)
                     /\ C = Documents(query, Len(Urls))
  OBVIOUS
<1>6. /\ A \in Seq(Doc) /\ Len(A) = IF k < Len(a) THEN k ELSE Len(a)
      /\ \A i \in 1 .. Len(A) : A[i] = [of |-> query, rank |-> a[i]]
  BY <1>2, <1>3, <1>5
<1>7. /\ B \in Seq(Doc) /\ Len(B) = IF n < Len(b) THEN n ELSE Len(b)
      /\ \A i \in 1 .. Len(B) : B[i] = [of |-> query, rank |-> b[i]]
  BY <1>2, <1>3, <1>5
<1>8. /\ C \in Seq(Doc) /\ Len(C) = IF Len(Urls) < Len(c) THEN Len(Urls) ELSE Len(c)
      /\ \A i \in 1 .. Len(C) : C[i] = [of |-> query, rank |-> c[i]]
  BY <1>1, <1>2, <1>3, <1>5
<1>9. PICK least : least = Prefix(A, k) OBVIOUS
<1>10. /\ least \in Seq(Doc) /\ Len(least) = Len(A)
       /\ \A i \in 1 .. Len(least) : least[i] = [of |-> query, rank |-> a[i]]
  <2>1. /\ least \in Seq(Doc) /\ Len(least) = IF k < Len(A) THEN k ELSE Len(A)
        /\ \A i \in 1 .. Len(least) : least[i] = A[i]
    BY <1>6, <1>9, PrefixIs
  <2>2. Len(least) = Len(A) BY <1>4, <1>6, <2>1
  <2> QED BY <1>6, <2>1, <2>2
<1>11. /\ docs \in Seq(Doc) /\ Len(docs) = IF k < Len(B) THEN k ELSE Len(B)
       /\ \A i \in 1 .. Len(docs) : docs[i] = [of |-> query, rank |-> b[i]]
  <2>1. /\ docs \in Seq(Doc) /\ Len(docs) = IF k < Len(B) THEN k ELSE Len(B)
        /\ \A i \in 1 .. Len(docs) : docs[i] = B[i]
    BY <1>5, <1>7, PrefixIs
  <2> QED BY <1>7, <2>1
<1>12. Len(docs) <= k /\ Len(docs) <= Len(b) /\ Len(docs) <= Len(C) /\ Len(least) <= Len(docs)
  <2>1. Len(a) \in Nat /\ Len(b) \in Nat /\ Len(c) \in Nat BY <1>4
  <2>2. /\ Len(a) <= Len(b) /\ Len(b) <= Len(c) /\ Len(c) <= Len(Urls)
        /\ Len(A) = IF k < Len(a) THEN k ELSE Len(a)
        /\ Len(B) = IF n < Len(b) THEN n ELSE Len(b)
        /\ Len(C) = IF Len(Urls) < Len(c) THEN Len(Urls) ELSE Len(c)
        /\ Len(least) = Len(A) /\ Len(docs) = IF k < Len(B) THEN k ELSE Len(B)
    BY <1>4, <1>6, <1>7, <1>8, <1>10, <1>11
  <2> QED BY <1>1, <2>1, <2>2
<1>13. \A i \in 1 .. Len(docs) : docs[i] = C[i]
  <2> SUFFICES ASSUME NEW i \in 1 .. Len(docs) PROVE docs[i] = C[i] OBVIOUS
  <2>1. i \in 1 .. Len(b) /\ i \in 1 .. Len(C) BY <1>4, <1>8, <1>11, <1>12, SMTT(30)
  <2> QED BY <1>4, <1>8, <1>11, <2>1
<1>14. \A i \in 1 .. Len(least) : least[i] = docs[i]
  <2> SUFFICES ASSUME NEW i \in 1 .. Len(least) PROVE least[i] = docs[i] OBVIOUS
  <2>1. i \in 1 .. Len(a) /\ i \in 1 .. Len(docs) BY <1>4, <1>6, <1>10, <1>11, <1>12, SMTT(30)
  <2> QED BY <1>4, <1>10, <1>11, <2>1
<1> QED BY <1>5, <1>7, <1>8, <1>9, <1>10, <1>11, <1>12, <1>13, <1>14, Begins

-----------------------------------------------------------------------------
(* Least and greatest, and sequences that move *)

\* The least member of a set is one of it (SelectInSeq takes it).
LEMMA LeastIs ==
    ASSUME NEW I, I \subseteq Nat, I # {}
    PROVE  Min(I) \in I
<1>1. PICK n \in I : \A m \in I : <<m, n>> \notin OpToRel(<, Nat)
  BY NatLessThanWellFounded, WFMin
<1>2. \A m \in I : ~ (m < n) BY <1>1 DEF OpToRel
<1>3. \A m \in I : n <= m BY <1>2
<1> QED BY <1>3 DEF Min

\* The greatest of n numbers is none smaller than any of them (max of the topks).
LEMMA GreatestIs ==
    ASSUME NEW n \in Nat \ {0}, NEW f, \A i \in 1 .. n : f[i] \in Nat,
           NEW S, S = {f[i] : i \in 1 .. n}
    PROVE  Max(S) \in Nat /\ \A i \in 1 .. n : f[i] <= Max(S)
<1>1. PICK G : G = {m \in Nat : m < n => \E i \in 1 .. m + 1 : \A j \in 1 .. m + 1 : f[j] <= f[i]}
  OBVIOUS
<1>2. 0 \in G
  <2>1. f[1] <= f[1] BY SMT
  <2> QED BY <1>1, <2>1
<1>3. ASSUME NEW m \in Nat, m \in G PROVE m + 1 \in G
  <2>1. CASE m + 1 < n
    <3>1. PICK i \in 1 .. m + 1 : \A j \in 1 .. m + 1 : f[j] <= f[i] BY <1>1, <1>3, <2>1
    <3>2. i \in 1 .. n /\ m + 2 \in 1 .. n /\ (m + 1) + 1 = m + 2 BY <2>1
    <3>3. PICK k \in {i, m + 2} : f[i] <= f[k] /\ f[m + 2] <= f[k] BY <3>2
    <3>4. k \in 1 .. m + 2 /\ k \in 1 .. n BY <3>2
    <3>5. \A j \in 1 .. m + 2 : f[j] <= f[k]
      <4> SUFFICES ASSUME NEW j \in 1 .. m + 2 PROVE f[j] <= f[k] OBVIOUS
      <4>1. j \in 1 .. n BY <2>1
      <4>2. CASE j = m + 2 BY <3>3, <4>2
      <4>3. CASE j # m + 2
        <5>1. f[j] <= f[i] BY <3>1, <4>3
        <5> QED BY <3>2, <3>3, <3>4, <4>1, <5>1
      <4> QED BY <4>2, <4>3
    <3>6. \E c \in 1 .. (m + 1) + 1 : \A j \in 1 .. (m + 1) + 1 : f[j] <= f[c]
      BY <3>2, <3>4, <3>5
    <3>7. m + 1 \in Nat OBVIOUS
    <3> QED BY <1>1, <3>6, <3>7
  <2> QED BY <1>1, <2>1
<1>4. Nat \subseteq G BY <1>2, <1>3, Induction
<1>5. n - 1 \in G /\ (n - 1) + 1 = n BY <1>4
<1>6. PICK i \in 1 .. n : \A j \in 1 .. n : f[j] <= f[i] BY <1>1, <1>5
<1>7. PICK x \in S : \A y \in S : x >= y
  <2>1. f[i] \in S /\ \A y \in S : f[i] >= y BY <1>6
  <2> QED BY <2>1
<1>8. Max(S) \in S /\ \A y \in S : Max(S) >= y BY <1>7 DEF Max
<1>9. \A j \in 1 .. n : f[j] \in S BY SMT
<1>10. Max(S) \in Nat BY <1>8
<1>11. ASSUME NEW j \in 1 .. n PROVE f[j] <= Max(S) BY <1>8, <1>9, <1>10
<1> QED BY <1>10, <1>11

\* One part more is that much more.
LEMMA JoiningOneMore ==
    ASSUME NEW T, NEW parts \in Seq(Seq(T)), NEW p \in Seq(T)
    PROVE  Len(FlattenSeq(Append(parts, p))) = Len(FlattenSeq(parts)) + Len(p)
<1>1. PICK more : more = Append(parts, p) OBVIOUS
<1>2. /\ more \in Seq(Seq(T)) /\ Len(more) = Len(parts) + 1 /\ more[Len(parts) + 1] = p
      /\ Len(parts) \in Nat
      /\ \A i \in 1 .. Len(parts) : more[i] = parts[i]
  BY <1>1
<1>3. PICK h : Joins(h, more) BY <1>2, JoinsExist
<1>4. FlattenSeq(more) = h[Len(parts) + 1] BY <1>2, <1>3, FlattenIs
<1>5. Joins(h, parts)
  <2>1. h[0] = <<>> BY <1>3 DEF Joins
  <2>2. ASSUME NEW i \in 1 .. Len(parts) PROVE h[i] = h[i - 1] \o parts[i]
    <3>1. i \in 1 .. Len(more) /\ more[i] = parts[i] BY <1>2
    <3>2. h[i] = h[i - 1] \o more[i] BY <1>3, <3>1, Zenon DEF Joins
    <3> QED BY <3>1, <3>2, Zenon
  <2> QED BY <2>1, <2>2, Zenon DEF Joins
<1>6. FlattenSeq(parts) = h[Len(parts)] BY <1>5, FlattenIs
<1>7. Len(parts) + 1 \in 1 .. Len(more) /\ (Len(parts) + 1) - 1 = Len(parts) BY <1>2
<1>8. h[Len(parts) + 1] = h[(Len(parts) + 1) - 1] \o more[Len(parts) + 1]
  BY <1>3, <1>7, Zenon DEF Joins
<1>9. PICK s : s = FlattenSeq(parts) /\ s \in Seq(T) BY Joining
<1>10. FlattenSeq(more) = s \o p BY <1>2, <1>4, <1>6, <1>7, <1>8, <1>9, Zenon
<1>11. Len(s \o p) = Len(s) + Len(p) BY <1>9, ConcatIs
<1> QED BY <1>1, <1>9, <1>10, <1>11

\* What moves from the head of one sequence to the end of another keeps its place.
LEMMA MoveHead ==
    ASSUME NEW T, NEW b \in Seq(T), NEW q \in Seq(T), q # <<>>
    PROVE  /\ Head(q) \in T /\ Tail(q) \in Seq(T) /\ Len(Tail(q)) = Len(q) - 1
           /\ Append(b, Head(q)) \in Seq(T) /\ Append(b, Head(q)) \o Tail(q) = b \o q
<1>1. PICK n, r, a : n = Head(q) /\ r = Tail(q) /\ a = Append(b, n) OBVIOUS
<1>2. Len(b) \in Nat /\ Len(q) \in Nat \ {0} BY EmptySeq
<1>3. n \in T /\ r \in Seq(T) /\ Len(r) = Len(q) - 1 /\ n = q[1]
      /\ \A k \in 1 .. Len(r) : r[k] = q[k + 1]
  BY <1>1, HeadTailProperties
<1>4. a \in Seq(T) /\ Len(a) = Len(b) + 1 /\ a[Len(b) + 1] = n
      /\ \A k \in 1 .. Len(b) : a[k] = b[k]
  BY <1>1, <1>3
<1>5. PICK s, t : s = a \o r /\ t = b \o q OBVIOUS
<1>6. /\ s \in Seq(T) /\ Len(s) = Len(a) + Len(r)
      /\ \A k \in 1 .. Len(a) + Len(r) : s[k] = IF k <= Len(a) THEN a[k] ELSE r[k - Len(a)]
  BY <1>3, <1>4, <1>5, ConcatProperties
<1>7. /\ t \in Seq(T) /\ Len(t) = Len(b) + Len(q)
      /\ \A k \in 1 .. Len(b) + Len(q) : t[k] = IF k <= Len(b) THEN b[k] ELSE q[k - Len(b)]
  BY <1>5, ConcatProperties
<1>8. Len(s) = Len(t) BY <1>2, <1>3, <1>4, <1>6, <1>7
<1>9. ASSUME NEW k \in 1 .. Len(s) PROVE s[k] = t[k]
  <2>1. k \in Nat \ {0} /\ k <= Len(b) + Len(q) BY <1>2, <1>7, <1>8
  <2>2. CASE k <= Len(b)
    <3>1. k <= Len(a) /\ k \in 1 .. Len(b) BY <1>2, <1>4, <2>1, <2>2
    <3> QED BY <1>4, <1>6, <1>7, <1>8, <2>2, <3>1
  <2>3. CASE k = Len(b) + 1
    <3>1. k <= Len(a) /\ ~ (k <= Len(b)) /\ k - Len(b) = 1 BY <1>2, <1>4, <2>3
    <3> QED BY <1>3, <1>4, <1>6, <1>7, <1>8, <2>3, <3>1
  <2>4. CASE k > Len(b) + 1
    <3>1. /\ ~ (k <= Len(a)) /\ ~ (k <= Len(b)) /\ k - Len(a) \in 1 .. Len(r)
          /\ (k - Len(a)) + 1 = k - Len(b)
      BY <1>2, <1>3, <1>4, <2>1, <2>4
    <3>2. r[k - Len(a)] = q[k - Len(b)] BY <1>3, <3>1
    <3> QED BY <1>6, <1>7, <1>8, <3>1, <3>2
  <2> QED BY <1>2, <2>1, <2>2, <2>3, <2>4
<1>10. s = t BY <1>6, <1>7, <1>8, <1>9, SeqEqual
<1> QED BY <1>1, <1>3, <1>4, <1>5, <1>10

\* Taking the next call out of the two queues and putting it behind the batch.
LEMMA TakeFromFirst ==
    ASSUME NEW T, NEW b \in Seq(T), NEW p \in Seq(T), NEW q \in Seq(T), p # <<>>
    PROVE  /\ Head(p \o q) = Head(p)
           /\ Append(b, Head(p)) \o Tail(p) \o q = b \o p \o q
<1>1. Len(p) \in Nat \ {0} /\ Len(q) \in Nat BY EmptySeq
<1>2. (p \o q)[1] = p[1] BY <1>1, ConcatIs
<1>3. p \o q \in Seq(T) BY ConcatProperties
<1>4. Head(p \o q) = (p \o q)[1] /\ Head(p) = p[1] BY <1>3
<1>5. Append(b, Head(p)) \o Tail(p) = b \o p BY MoveHead
<1> QED BY <1>2, <1>4, <1>5

\* The same when the first of the two queues is empty.
LEMMA TakeFromSecond ==
    ASSUME NEW T, NEW b \in Seq(T), NEW q \in Seq(T), q # <<>>
    PROVE  /\ Head(<<>> \o q) = Head(q)
           /\ Append(b, Head(q)) \o <<>> \o Tail(q) = b \o <<>> \o q
<1>1. <<>> \o q = q /\ b \o <<>> = b BY ConcatEmptySeq
<1>2. Append(b, Head(q)) \in Seq(T) /\ Append(b, Head(q)) \o Tail(q) = b \o q BY MoveHead
<1>3. Append(b, Head(q)) \o <<>> = Append(b, Head(q)) BY <1>2, ConcatEmptySeq
<1> QED BY <1>1, <1>2, <1>3

\* Putting it in front of the empty pending queue changes nothing.
LEMMA PutBackIs ==
    ASSUME NEW T, NEW b \in Seq(T), NEW q \in Seq(T), q # <<>>
    PROVE  /\ <<Head(q)>> \o <<>> \in Seq(T) /\ Len(<<Head(q)>> \o <<>>) = 1
           /\ Tail(q) \in Seq(T)
           /\ b \o (<<Head(q)>> \o <<>>) \o Tail(q) = b \o <<>> \o q
<1>1. Head(q) \in T /\ Tail(q) \in Seq(T) /\ Append(b, Head(q)) \o Tail(q) = b \o q
  BY MoveHead
<1>2. PICK n : n = Head(q) OBVIOUS
<1>3. <<n>> \o <<>> = <<n>> /\ <<n>> \in Seq(T) /\ Len(<<n>>) = 1 BY <1>1, <1>2
<1>4. b \o <<n>> = Append(b, n) /\ b \o <<>> = b BY <1>1, <1>2, AppendIsConcat, ConcatEmptySeq
<1> QED BY <1>1, <1>2, <1>3, <1>4

-----------------------------------------------------------------------------
(* The inductive invariant *)

Call == [from : Workers, queries : Seq(Query)]
Replies == [raised : BOOLEAN, embeddings : Seq(Query)]

QueueType ==
    /\ queue \in [Encoders -> Seq(Call)] /\ pending \in [Encoders -> Seq(Call)]
    /\ joined \in [Encoders -> Seq(Call)]
    /\ closed \in [Encoders -> BOOLEAN]
    /\ dead \subseteq Encoders

WorkerType ==
    /\ inbox \in [Workers -> Seq(Requests)] /\ batch \in [Workers -> Seq(Requests)]
    /\ pc \in [Workers -> {"idle", "searching", "encoding"}]
    /\ todo \in [Workers -> Seq(Query)] /\ found \in [Workers -> Seq(Seq(Doc))]
    /\ next \in [Workers -> Encoders]

ReplyType == reply \in [Workers -> Replies \cup {None}]

SearchType == DOMAIN answer = Requests /\ WorkerType /\ ReplyType /\ QueueType

(* The queries of the requests of a worker's batch.                        *)
Requested(w) == FlattenSeq(Parts(batch[w]))

(* Where a worker stands in them: it has found what it took off.           *)
SearchedInv(w) ==
    /\ Len(found[w]) <= Len(Requested(w))
    /\ todo[w] = SubSeq(Requested(w), Len(found[w]) + 1, Len(Requested(w)))
    /\ \A i \in 1 .. Len(found[w]) : found[w][i] = Documents(Requested(w)[i], MaxTopK(w))

ReplyInv(w) ==
    reply[w] # None =>
        /\ pc[w] = "encoding"
        /\ ~ reply[w].raised => reply[w].embeddings = Prefix(todo[w], BatchSize)

WorkerInv(w) ==
    /\ pc[w] = "idle" <=> batch[w] = <<>>
    /\ Len(batch[w]) <= MaxRequests
    /\ SearchedInv(w) /\ ReplyInv(w)

Awaits(w) == pc[w] = "encoding" /\ reply[w] = None

(* Every call at an actor is awaited, for the worker's next chunk; and each*)
(* worker that awaits one has exactly one.                                 *)
CallInv ==
    /\ \A e \in Encoders, w \in Workers : \A i \in 1 .. Len(Held(e)) :
          Held(e)[i].from = w =>
              Awaits(w) /\ Held(e)[i].queries = Prefix(todo[w], BatchSize)
    /\ \A e, f \in Encoders : \A i \in 1 .. Len(Held(e)), j \in 1 .. Len(Held(f)) :
          Held(e)[i].from = Held(f)[j].from => e = f /\ i = j
    /\ \A w \in Workers : Awaits(w) =>
          \E e \in Encoders : \E i \in 1 .. Len(Held(e)) : Held(e)[i].from = w

GatherInv ==
    \A e \in Encoders :
        (Len(joined[e]) <= 1 \/ Joined(e) <= MaxBatch) /\ Len(pending[e]) <= 1

SearchInv == SearchType /\ (\A w \in Workers : WorkerInv(w)) /\ CallInv /\ GatherInv

-----------------------------------------------------------------------------
\* The assumptions on the constants, in the form the proofs use.
LEMMA Sizes ==
    /\ NumEncoders \in Nat \ {0} /\ MaxRequests \in Nat \ {0} /\ BatchSize \in Nat \ {0}
    /\ MaxBatch \in Nat \ {0} /\ \A c \in Requests : Size[c] \in Nat /\ TopK[c] \in Nat
    /\ Query = [of : Requests, no : Nat] /\ None \notin Replies /\ Raised \in Replies
    /\ Raised.raised
BY SizesAssumption, RequestsAssumption, NoneAssumption DEF Query, Replies, Raised

\* A batch's parts are the queries of its requests.
LEMMA PartsAre ==
    ASSUME NEW b \in Seq(Requests)
    PROVE  /\ Parts(b) \in Seq(Seq(Query)) /\ Len(Parts(b)) = Len(b) /\ Len(b) \in Nat
           /\ FlattenSeq(Parts(b)) \in Seq(Query)
           /\ \A i \in 1 .. Len(b) : Parts(b)[i] = Queries(b[i]) /\ Len(Parts(b)[i]) = Size[b[i]]
<1>1. \A c \in Requests : Queries(c) \in Seq(Query) /\ Len(Queries(c)) = Size[c]
  <2> SUFFICES ASSUME NEW c \in Requests
               PROVE  Queries(c) \in Seq(Query) /\ Len(Queries(c)) = Size[c]
    OBVIOUS
  <2>1. PICK s : s = Queries(c) OBVIOUS
  <2>2. Size[c] \in Nat /\ s = [i \in 1 .. Size[c] |-> [of |-> c, no |-> i]]
    BY <2>1, Sizes DEF Queries
  <2>3. \A i \in 1 .. Size[c] : [of |-> c, no |-> i] \in Query BY <2>2 DEF Query
  <2>4. s \in Seq(Query) /\ Len(s) = Size[c] BY <2>2, <2>3
  <2> QED BY <2>1, <2>4
<1>2. PICK p : p = Parts(b) OBVIOUS
<1>3. Len(b) \in Nat /\ p = [i \in 1 .. Len(b) |-> Queries(b[i])] BY <1>2 DEF Parts
<1>4. \A i \in 1 .. Len(b) : b[i] \in Requests OBVIOUS
<1>5. p \in Seq(Seq(Query)) /\ Len(p) = Len(b) BY <1>1, <1>3, <1>4
<1>6. FlattenSeq(p) \in Seq(Query) BY <1>5, Joining
<1>7. \A i \in 1 .. Len(b) : p[i] = Queries(b[i]) /\ Len(p[i]) = Size[b[i]]
  BY <1>1, <1>3, <1>4
<1> QED BY <1>2, <1>3, <1>5, <1>6, <1>7

\* A batch is searched with no smaller topk than any of its requests'.
LEMMA MaxTopKIs ==
    ASSUME NEW w \in Workers, batch[w] \in Seq(Requests), batch[w] # <<>>
    PROVE  MaxTopK(w) \in Nat /\ \A i \in 1 .. Len(batch[w]) : TopK[batch[w][i]] <= MaxTopK(w)
<1>1. PICK n : n = Len(batch[w]) OBVIOUS
<1>2. n \in Nat \ {0} BY <1>1, EmptySeq
<1>3. PICK f : f = [i \in 1 .. n |-> TopK[batch[w][i]]] OBVIOUS
<1>4. \A i \in 1 .. n : f[i] = TopK[batch[w][i]] /\ f[i] \in Nat
  <2>1. \A i \in 1 .. n : batch[w][i] \in Requests BY <1>1
  <2> QED BY <1>3, <2>1, Sizes
<1>5. PICK S : S = {f[i] : i \in 1 .. n} OBVIOUS
<1>6. MaxTopK(w) = Max(S)
  <2>1. {TopK[batch[w][i]] : i \in 1 .. n} = S BY <1>4, <1>5
  <2> QED BY <1>1, <2>1 DEF MaxTopK
<1>7. \A i \in 1 .. n : f[i] \in Nat BY <1>4
<1>8. Max(S) \in Nat /\ \A i \in 1 .. n : f[i] <= Max(S)
  <2>1. n \in Nat \ {0} /\ S = {f[i] : i \in 1 .. n} BY <1>2, <1>5
  <2> QED BY <1>7, <2>1, GreatestIs
<1> QED BY <1>1, <1>4, <1>6, <1>8

\* What an actor holds, its batch first.
LEMMA HeldType ==
    ASSUME QueueType, NEW e \in Encoders
    PROVE  /\ Held(e) \in Seq(Call) /\ Len(Held(e)) \in Nat
           /\ joined[e] \in Seq(Call) /\ Len(joined[e]) \in 0 .. Len(Held(e))
           /\ \A i \in 1 .. Len(joined[e]) : Held(e)[i] = joined[e][i]
<1>1. PICK b, p, q : b = joined[e] /\ p = pending[e] /\ q = queue[e] OBVIOUS
<1>2. b \in Seq(Call) /\ p \in Seq(Call) /\ q \in Seq(Call) BY <1>1 DEF QueueType
<1>3. PICK s : s = b \o p OBVIOUS
<1>4. s \in Seq(Call) /\ Len(s) = Len(b) + Len(p) /\ \A i \in 1 .. Len(b) : s[i] = b[i]
  BY <1>2, <1>3, ConcatIs
<1>5. PICK h : h = s \o q OBVIOUS
<1>6. h \in Seq(Call) /\ Len(h) = Len(s) + Len(q) /\ \A i \in 1 .. Len(s) : h[i] = s[i]
  BY <1>2, <1>4, <1>5, ConcatIs
<1>7. Len(b) \in Nat /\ Len(p) \in Nat /\ Len(q) \in Nat BY <1>2
<1>8. \A i \in 1 .. Len(b) : h[i] = b[i] BY <1>4, <1>6, <1>7
<1>9. Held(e) = h BY <1>1, <1>3, <1>5 DEF Held
<1>10. Len(b) \in 0 .. Len(h) /\ Len(h) \in Nat BY <1>4, <1>6, <1>7
<1> QED BY <1>1, <1>2, <1>6, <1>8, <1>9, <1>10

-----------------------------------------------------------------------------
(* What the steps do *)

\* Gathering moves calls from an actor's queues into its batch, in their order.
LEMMA GatherIs ==
    ASSUME QueueType, NEW e \in Encoders, Gather(e)
    PROVE  /\ QueueType' /\ Held(e)' = Held(e) /\ (Len(pending[e]) <= 1 => Len(pending'[e]) <= 1)
           /\ \A f \in Encoders \ {e} :
                  joined'[f] = joined[f] /\ pending'[f] = pending[f] /\ queue'[f] = queue[f]
           /\ UNCHANGED <<answer, workerVars, reply>>
<1>1. PICK b, p, q : b = joined[e] /\ p = pending[e] /\ q = queue[e] OBVIOUS
<1>2. b \in Seq(Call) /\ p \in Seq(Call) /\ q \in Seq(Call) BY <1>1 DEF QueueType
<1>3. Held(e) = b \o p \o q /\ Len(p) \in Nat BY <1>1, <1>2 DEF Held
<1>4. ASSUME PopNext(e),
             joined' = [joined EXCEPT ![e] = Append(b, NextCall(e))],
             UNCHANGED <<answer, workerVars, reply, closed, dead>>
      PROVE  /\ QueueType' /\ Held(e)' = Held(e) /\ (Len(pending[e]) <= 1 => Len(pending'[e]) <= 1)
             /\ \A f \in Encoders \ {e} :
                    joined'[f] = joined[f] /\ pending'[f] = pending[f] /\ queue'[f] = queue[f]
  <2>1. PICK n, p1, q1 : n = NextCall(e) /\ p1 = pending'[e] /\ q1 = queue'[e] OBVIOUS
  <2>2. n = Head(p \o q) BY <1>1, <2>1 DEF NextCall
  <2>3. p \o q # <<>> BY <1>1, <1>4 DEF PopNext
  <2>4. /\ IF p # <<>> THEN p1 = Tail(p) /\ q1 = q ELSE q1 = Tail(q) /\ p1 = p
        /\ pending' = [pending EXCEPT ![e] = p1] /\ queue' = [queue EXCEPT ![e] = q1]
    <3>1. CASE p # <<>>
      <4>1. pending' = [pending EXCEPT ![e] = Tail(p)] /\ queue' = queue
        BY <1>1, <1>4, <3>1 DEF PopNext
      <4>2. p1 = Tail(p) /\ q1 = q BY <1>1, <2>1, <4>1 DEF QueueType
      <4>3. [queue EXCEPT ![e] = q1] = queue BY <1>1, <4>2 DEF QueueType
      <4> QED BY <3>1, <4>1, <4>2, <4>3
    <3>2. CASE p = <<>>
      <4>1. queue' = [queue EXCEPT ![e] = Tail(q)] /\ pending' = pending
        BY <1>1, <1>4, <3>2 DEF PopNext
      <4>2. q1 = Tail(q) /\ p1 = p BY <1>1, <2>1, <4>1 DEF QueueType
      <4>3. [pending EXCEPT ![e] = p1] = pending BY <1>1, <4>2 DEF QueueType
      <4> QED BY <3>2, <4>1, <4>2, <4>3
    <3> QED BY <3>1, <3>2
  <2>5. /\ n \in Call /\ p1 \in Seq(Call) /\ q1 \in Seq(Call) /\ Append(b, n) \in Seq(Call)
        /\ Append(b, n) \o p1 \o q1 = b \o p \o q /\ Len(p1) <= Len(p)
    <3>1. CASE p # <<>>
      <4>1. p1 = Tail(p) /\ q1 = q BY <2>4, <3>1
      <4>2. n = Head(p) BY <1>2, <2>2, <3>1, TakeFromFirst
      <4>3. Append(b, Head(p)) \o Tail(p) \o q = b \o p \o q
        BY <1>2, <3>1, TakeFromFirst, SMTT(30)
      <4>4. /\ Head(p) \in Call /\ Tail(p) \in Seq(Call) /\ Len(Tail(p)) = Len(p) - 1
            /\ Append(b, Head(p)) \in Seq(Call)
        BY <1>2, <3>1, MoveHead
      <4>5. Len(Tail(p)) <= Len(p) BY <1>3, <4>4
      <4> QED BY <1>2, <4>1, <4>2, <4>3, <4>4, <4>5, Zenon
    <3>2. CASE p = <<>>
      <4>1. p1 = p /\ q1 = Tail(q) BY <2>4, <3>2
      <4>2. q # <<>> BY <1>2, <2>3, <3>2, ConcatEmptySeq
      <4>3. /\ Head(<<>> \o q) = Head(q)
            /\ Append(b, Head(q)) \o <<>> \o Tail(q) = b \o <<>> \o q
        BY <1>2, <4>2, TakeFromSecond
      <4>4. Head(q) \in Call /\ Tail(q) \in Seq(Call) /\ Append(b, Head(q)) \in Seq(Call)
        BY <1>2, <4>2, MoveHead
      <4>5. Len(p) <= Len(p) BY <1>3
      <4> QED BY <1>2, <2>2, <3>2, <4>1, <4>3, <4>4, <4>5, Zenon
    <3> QED BY <3>1, <3>2
  <2>6. QueueType' BY <1>4, <2>1, <2>4, <2>5 DEF QueueType
  <2>7. Held(e)' = Append(b, n) \o p1 \o q1 BY <1>4, <2>1 DEF Held, QueueType
  <2>8. \A f \in Encoders \ {e} :
            joined'[f] = joined[f] /\ pending'[f] = pending[f] /\ queue'[f] = queue[f]
    BY <1>4, <2>4 DEF QueueType
  <2>9. Len(p1) \in Nat /\ Len(p) \in Nat BY <1>3, <2>5
  <2>10. Len(p) <= 1 => Len(p1) <= 1 BY <2>5, <2>9
  <2> QED BY <1>1, <1>3, <2>1, <2>5, <2>6, <2>7, <2>8, <2>10
<1>5. CASE Begin(e)
  <2>1. b = <<>> /\ joined' = [joined EXCEPT ![e] = <<NextCall(e)>>] BY <1>1, <1>5 DEF Begin
  <2>2. Append(b, NextCall(e)) = <<NextCall(e)>> BY <2>1
  <2>3. joined' = [joined EXCEPT ![e] = Append(b, NextCall(e))] BY <2>1, <2>2
  <2>4. PopNext(e) /\ UNCHANGED <<answer, workerVars, reply, closed, dead>> BY <1>5 DEF Begin
  <2> QED BY <1>1, <1>3, <1>4, <2>3, <2>4
<1>6. CASE Join(e)
  <2>1. joined' = [joined EXCEPT ![e] = Append(b, NextCall(e))] BY <1>1, <1>6 DEF Join
  <2>2. PopNext(e) /\ UNCHANGED <<answer, workerVars, reply, closed, dead>> BY <1>6 DEF Join
  <2> QED BY <1>1, <1>3, <1>4, <2>1, <2>2
<1>7. CASE PutBack(e)
  <2>1. /\ closed' = [closed EXCEPT ![e] = TRUE]
        /\ UNCHANGED <<answer, workerVars, reply, joined, dead>>
    BY <1>7 DEF PutBack
  <2>2. CASE p # <<>>
    <3>1. UNCHANGED <<pending, queue>> BY <1>1, <1>7, <2>2 DEF PutBack
    <3>2. QueueType' BY <2>1, <3>1 DEF QueueType
    <3>3. Held(e)' = Held(e) BY <2>1, <3>1 DEF Held
    <3>4. \A f \in Encoders \ {e} :
              joined'[f] = joined[f] /\ pending'[f] = pending[f] /\ queue'[f] = queue[f]
      BY <2>1, <3>1
    <3> QED BY <1>1, <1>3, <2>1, <3>1, <3>2, <3>3, <3>4
  <2>3. CASE p = <<>>
    <3>1. p \o q = q /\ q # <<>>
      <4>1. p \o q = q BY <1>2, <2>3, ConcatEmptySeq
      <4> QED BY <1>1, <1>7, <4>1 DEF PutBack
    <3>2. NextCall(e) = Head(q) BY <1>1, <3>1 DEF NextCall
    <3>3. PICK p1, q1 : p1 = <<Head(q)>> \o <<>> /\ q1 = Tail(q) OBVIOUS
    <3>4. pending' = [pending EXCEPT ![e] = p1] /\ queue' = [queue EXCEPT ![e] = q1]
      BY <1>1, <1>7, <2>3, <3>2, <3>3 DEF PutBack
    <3>5. p1 \in Seq(Call) /\ q1 \in Seq(Call) /\ Len(p1) = 1 /\ b \o p1 \o q1 = b \o p \o q
      BY <1>2, <2>3, <3>1, <3>3, PutBackIs
    <3>6. QueueType' BY <2>1, <3>4, <3>5 DEF QueueType
    <3>7. pending'[e] = p1 /\ queue'[e] = q1 /\ joined'[e] = b
      BY <1>1, <2>1, <3>4 DEF QueueType
    <3>8. Held(e)' = b \o p1 \o q1 BY <3>7 DEF Held
    <3>9. \A f \in Encoders \ {e} :
              joined'[f] = joined[f] /\ pending'[f] = pending[f] /\ queue'[f] = queue[f]
      BY <2>1, <3>4 DEF QueueType
    <3>10. Len(pending'[e]) <= 1
      <4>1. Len(p1) = 1 BY <3>5
      <4>2. pending'[e] = p1 BY <3>7
      <4>3. Len(p1) <= 1 BY <4>1
      <4> QED BY <4>2, <4>3, Zenon
    <3>11. Held(e)' = Held(e) BY <1>3, <3>5, <3>8, Zenon
    <3> QED BY <2>1, <3>6, <3>9, <3>10, <3>11
  <2> QED BY <2>2, <2>3
<1> QED BY <1>5, <1>6, <1>7 DEF Gather

\* What Reply does for each worker.
LEMMA ReplyIs ==
    ASSUME NEW calls \in Seq(Call), NEW values, Reply(calls, values),
           ReplyType, \A i \in 1 .. Len(calls) : values[i] \in Replies
    PROVE  /\ ReplyType'
           /\ \A v \in Workers :
                  \/ \E i \in 1 .. Len(calls) : calls[i].from = v /\ reply'[v] = values[i]
                  \/ (\A i \in 1 .. Len(calls) : calls[i].from # v) /\ reply'[v] = reply[v]
<1>1. Len(calls) \in Nat OBVIOUS
<1>2. ASSUME NEW v \in Workers
      PROVE  \E i : /\ reply'[v] = IF i > 0 THEN values[i] ELSE reply[v]
                    /\ \/ i \in 1 .. Len(calls) /\ calls[i].from = v /\ i > 0
                       \/ i = 0 /\ ~ (i > 0) /\ \A j \in 1 .. Len(calls) : calls[j].from # v
  <2>1. PICK I : I = {i \in 1 .. Len(calls) : calls[i].from = v} OBVIOUS
  <2>2. PICK i : i = IF I # {} THEN Min(I) ELSE 0 OBVIOUS
  <2>3. reply'[v] = IF i > 0 THEN values[i] ELSE reply[v]
    BY <2>1, <2>2 DEF Reply, SelectInSeq
  <2>4. I \subseteq Nat BY <2>1
  <2>5. CASE I # {}
    <3>1. i \in I BY <2>2, <2>4, <2>5, LeastIs
    <3>2. i \in 1 .. Len(calls) /\ calls[i].from = v /\ i > 0 BY <2>1, <3>1
    <3> QED BY <2>3, <3>2
  <2>6. CASE I = {}
    <3>1. i = 0 /\ ~ (i > 0) /\ \A j \in 1 .. Len(calls) : calls[j].from # v
      BY <2>1, <2>2, <2>6
    <3> QED BY <2>3, <3>1
  <2> QED BY <2>5, <2>6
<1>3. ASSUME NEW v \in Workers
      PROVE  \/ \E i \in 1 .. Len(calls) : calls[i].from = v /\ reply'[v] = values[i]
             \/ (\A i \in 1 .. Len(calls) : calls[i].from # v) /\ reply'[v] = reply[v]
  <2>1. PICK i : /\ reply'[v] = IF i > 0 THEN values[i] ELSE reply[v]
                 /\ \/ i \in 1 .. Len(calls) /\ calls[i].from = v /\ i > 0
                    \/ i = 0 /\ ~ (i > 0) /\ \A j \in 1 .. Len(calls) : calls[j].from # v
    BY <1>2
  <2> QED BY <2>1
<1>4. \A v \in Workers : reply'[v] \in Replies \cup {None} BY <1>3 DEF ReplyType
<1>5. reply' = [v \in Workers |-> reply'[v]] BY DEF Reply
<1>6. ReplyType' BY <1>4, <1>5 DEF ReplyType
<1> QED BY <1>3, <1>6

(* The first m calls of an actor are answered, by an exception or with     *)
(* their own queries.                                                      *)
Answers(e, m) ==
    \A v \in Workers :
        \/ \E i \in 1 .. m :
               /\ Held(e)[i].from = v /\ reply'[v] \in Replies
               /\ reply'[v].raised \/ reply'[v].embeddings = Held(e)[i].queries
        \/ (\A i \in 1 .. m : Held(e)[i].from # v) /\ reply'[v] = reply[v]

\* An encoding that ends, or an actor that dies, answers the first m of its calls and
\* keeps the others; what it returns for a call are the call's own queries.
LEMMA EndIs ==
    ASSUME QueueType, ReplyType, NEW e \in Encoders, Encode(e) \/ EncodeRaises(e) \/ Die(e)
    PROVE  /\ QueueType' /\ ReplyType' /\ UNCHANGED <<answer, workerVars>>
           /\ \A f \in Encoders \ {e} :
                  joined'[f] = joined[f] /\ pending'[f] = pending[f] /\ queue'[f] = queue[f]
           /\ joined'[e] = <<>> /\ pending'[e] \in {pending[e], <<>>}
           /\ \E m \in 0 .. Len(Held(e)) :
                  Held(e)' = SubSeq(Held(e), m + 1, Len(Held(e))) /\ Answers(e, m)
<1>1. /\ Held(e) \in Seq(Call) /\ Len(Held(e)) \in Nat
      /\ joined[e] \in Seq(Call) /\ Len(joined[e]) \in 0 .. Len(Held(e))
      /\ \A i \in 1 .. Len(joined[e]) : Held(e)[i] = joined[e][i]
  BY HeldType
<1>2. ASSUME NEW calls \in Seq(Call), Reply(calls, AllRaise(calls))
      PROVE  /\ ReplyType'
             /\ \A v \in Workers :
                    \/ \E i \in 1 .. Len(calls) :
                           calls[i].from = v /\ reply'[v] \in Replies /\ reply'[v].raised
                    \/ (\A i \in 1 .. Len(calls) : calls[i].from # v) /\ reply'[v] = reply[v]
  <2>1. \A i \in 1 .. Len(calls) : AllRaise(calls)[i] = Raised BY DEF AllRaise
  <2>2. Raised \in Replies /\ Raised.raised BY Sizes
  <2>3. \A i \in 1 .. Len(calls) : AllRaise(calls)[i] \in Replies BY <2>1, <2>2
  <2>4. /\ ReplyType'
        /\ \A v \in Workers :
               \/ \E i \in 1 .. Len(calls) : calls[i].from = v /\ reply'[v] = AllRaise(calls)[i]
               \/ (\A i \in 1 .. Len(calls) : calls[i].from # v) /\ reply'[v] = reply[v]
    BY <1>2, <2>3, ReplyIs
  <2> QED BY <2>1, <2>2, <2>4
<1>3. CASE Die(e)
  <2>1. /\ queue' = [queue EXCEPT ![e] = <<>>] /\ pending' = [pending EXCEPT ![e] = <<>>]
        /\ joined' = [joined EXCEPT ![e] = <<>>] /\ closed' = [closed EXCEPT ![e] = FALSE]
        /\ dead' = dead \cup {e} /\ UNCHANGED <<answer, workerVars>>
        /\ Reply(Held(e), AllRaise(Held(e)))
    BY <1>3 DEF Die
  <2>2. QueueType' BY <2>1 DEF QueueType
  <2>3. queue'[e] = <<>> /\ pending'[e] = <<>> /\ joined'[e] = <<>> BY <2>1 DEF QueueType
  <2>4. Held(e)' = <<>> BY <2>3 DEF Held
  <2>5. SubSeq(Held(e), Len(Held(e)) + 1, Len(Held(e))) = <<>> BY <1>1, SubSeqEmpty
  <2>6. \A f \in Encoders \ {e} :
            joined'[f] = joined[f] /\ pending'[f] = pending[f] /\ queue'[f] = queue[f]
    BY <2>1 DEF QueueType
  <2>7. Len(Held(e)) \in 0 .. Len(Held(e)) BY <1>1
  <2>8. PICK H : H = Held(e) OBVIOUS
  <2>9. /\ ReplyType'
        /\ \A v \in Workers :
               \/ \E i \in 1 .. Len(H) :
                      H[i].from = v /\ reply'[v] \in Replies /\ reply'[v].raised
               \/ (\A i \in 1 .. Len(H) : H[i].from # v) /\ reply'[v] = reply[v]
    BY <1>1, <1>2, <2>1, <2>8
  <2>10. Answers(e, Len(Held(e))) BY <2>8, <2>9 DEF Answers
  <2> QED BY <2>1, <2>2, <2>3, <2>4, <2>5, <2>6, <2>7, <2>9, <2>10
<1>4. ASSUME Encoded(e)
      PROVE  /\ QueueType' /\ UNCHANGED <<answer, workerVars>>
             /\ \A f \in Encoders \ {e} :
                    joined'[f] = joined[f] /\ pending'[f] = pending[f] /\ queue'[f] = queue[f]
             /\ joined'[e] = <<>> /\ pending'[e] = pending[e]
             /\ Held(e)' = SubSeq(Held(e), Len(joined[e]) + 1, Len(Held(e)))
  <2>1. /\ joined' = [joined EXCEPT ![e] = <<>>] /\ closed' = [closed EXCEPT ![e] = FALSE]
        /\ UNCHANGED <<answer, workerVars, queue, pending, dead>>
    BY <1>4 DEF Encoded
  <2>2. QueueType' BY <2>1 DEF QueueType
  <2>3. joined'[e] = <<>> /\ pending'[e] = pending[e] /\ queue'[e] = queue[e]
    BY <2>1 DEF QueueType
  <2>4. PICK b, p, q : b = joined[e] /\ p = pending[e] /\ q = queue[e] OBVIOUS
  <2>5. b \in Seq(Call) /\ p \in Seq(Call) /\ q \in Seq(Call) BY <2>4 DEF QueueType
  <2>6. Held(e) = b \o p \o q BY <2>4 DEF Held
  <2>7. Held(e)' = <<>> \o p \o q BY <2>3, <2>4 DEF Held
  <2>8. <<>> \o p = p /\ p \o q \in Seq(Call) BY <2>5, ConcatEmptySeq, ConcatProperties
  <2>9. PICK r, h : r = p \o q /\ h = Held(e) OBVIOUS
  <2>10. h = b \o r /\ r \in Seq(Call) /\ Held(e)' = r
    BY <2>5, <2>6, <2>7, <2>8, <2>9, ConcatAssociative, SMTT(30)
  <2>11. /\ h \in Seq(Call) /\ Len(h) = Len(b) + Len(r)
         /\ \A k \in 1 .. Len(r) : h[Len(b) + k] = r[k]
    BY <2>5, <2>10, ConcatIs
  <2>12. PICK s : s = SubSeq(h, Len(b) + 1, Len(h)) OBVIOUS
  <2>13. Len(b) \in Nat /\ Len(r) \in Nat BY <2>5, <2>10
  <2>14. /\ s \in Seq(Call) /\ Len(s) = Len(r)
         /\ \A k \in 1 .. Len(s) : s[k] = h[Len(b) + k]
    BY <2>11, <2>12, <2>13
  <2>15. \A k \in 1 .. Len(s) : s[k] = r[k] BY <2>11, <2>14
  <2>16. s = r BY <2>10, <2>14, <2>15, SeqEqual
  <2>17. Held(e)' = SubSeq(Held(e), Len(joined[e]) + 1, Len(Held(e)))
    BY <2>4, <2>9, <2>10, <2>12, <2>16
  <2>18. \A f \in Encoders \ {e} :
             joined'[f] = joined[f] /\ pending'[f] = pending[f] /\ queue'[f] = queue[f]
    BY <2>1 DEF QueueType
  <2> QED BY <2>1, <2>2, <2>3, <2>17, <2>18
<1>5. PICK H, b : H = Held(e) /\ b = joined[e] OBVIOUS
<1>6. /\ b \in Seq(Call) /\ Len(b) \in 0 .. Len(H) /\ Len(H) \in Nat
      /\ \A i \in 1 .. Len(b) : H[i] = b[i]
  BY <1>1, <1>5
<1>7. CASE EncodeRaises(e)
  <2>1. Encoded(e) /\ Reply(b, AllRaise(b)) BY <1>5, <1>7 DEF EncodeRaises
  <2>2. /\ ReplyType'
        /\ \A v \in Workers :
               \/ \E i \in 1 .. Len(b) :
                      b[i].from = v /\ reply'[v] \in Replies /\ reply'[v].raised
               \/ (\A i \in 1 .. Len(b) : b[i].from # v) /\ reply'[v] = reply[v]
    BY <1>2, <1>6, <2>1
  <2>3. \A v \in Workers :
               \/ \E i \in 1 .. Len(b) :
                      H[i].from = v /\ reply'[v] \in Replies /\ reply'[v].raised
               \/ (\A i \in 1 .. Len(b) : H[i].from # v) /\ reply'[v] = reply[v]
    BY <1>6, <2>2
  <2>4. Answers(e, Len(joined[e])) BY <1>5, <2>3 DEF Answers
  <2> QED BY <1>1, <1>4, <2>1, <2>2, <2>4
<1>8. CASE Encode(e)
  <2>1. PICK parts, values :
            /\ parts = Calls(e)
            /\ values = [i \in 1 .. Len(b) |-> Returned(Slice(FlattenSeq(parts), parts, i))]
    OBVIOUS
  <2>2. Encoded(e) /\ Reply(b, values) BY <1>5, <1>8, <2>1 DEF Encode
  <2>3. parts = [i \in 1 .. Len(b) |-> b[i].queries] /\ Len(b) \in Nat
    BY <1>5, <1>6, <2>1 DEF Calls
  <2>4. \A i \in 1 .. Len(b) : b[i].queries \in Seq(Query)
    <3>1. \A i \in 1 .. Len(b) : b[i] \in Call BY <1>6
    <3> QED BY <3>1 DEF Call
  <2>5. parts \in Seq(Seq(Query)) /\ Len(parts) = Len(b) BY <2>3, <2>4
  <2>6. ASSUME NEW i \in 1 .. Len(b) PROVE values[i] = Returned(b[i].queries)
    <3>1. Slice(FlattenSeq(parts), parts, i) = parts[i] BY <2>5, Cutting
    <3> QED BY <2>1, <2>3, <3>1
  <2>7. ASSUME NEW i \in 1 .. Len(b)
        PROVE  values[i] \in Replies /\ values[i].embeddings = b[i].queries
    <3>1. PICK q : q = b[i].queries OBVIOUS
    <3>2. q \in Seq(Query) /\ values[i] = [raised |-> FALSE, embeddings |-> q]
      BY <2>4, <2>6, <3>1 DEF Returned
    <3>3. values[i] \in Replies /\ values[i].embeddings = q BY <3>2 DEF Replies
    <3> QED BY <3>1, <3>3
  <2>8. /\ ReplyType'
        /\ \A v \in Workers :
               \/ \E i \in 1 .. Len(b) : b[i].from = v /\ reply'[v] = values[i]
               \/ (\A i \in 1 .. Len(b) : b[i].from # v) /\ reply'[v] = reply[v]
    <3>1. \A i \in 1 .. Len(b) : values[i] \in Replies BY <2>7
    <3> QED BY <1>6, <2>2, <3>1, ReplyIs
  <2>9. \A v \in Workers :
               \/ \E i \in 1 .. Len(b) :
                      /\ H[i].from = v /\ reply'[v] \in Replies
                      /\ reply'[v].embeddings = H[i].queries
               \/ (\A i \in 1 .. Len(b) : H[i].from # v) /\ reply'[v] = reply[v]
    BY <1>6, <2>7, <2>8
  <2>10. Answers(e, Len(joined[e])) BY <1>5, <2>9 DEF Answers
  <2> QED BY <1>1, <1>4, <2>2, <2>8, <2>10
<1> QED BY <1>3, <1>7, <1>8

-----------------------------------------------------------------------------
(* Calls and answers *)

\* Whoever calls is a worker.
LEMMA CallerIs ==
    ASSUME QueueType, NEW e \in Encoders, NEW i \in 1 .. Len(Held(e))
    PROVE  Held(e)[i] \in Call /\ Held(e)[i].from \in Workers
<1>1. Held(e) \in Seq(Call) BY HeldType
<1>2. Held(e)[i] \in Call BY <1>1
<1> QED BY <1>2 DEF Call

\* Calls stay in order as long as nobody's waiting changes.
LEMMA CallsSame ==
    ASSUME CallInv, \A e \in Encoders : Held(e)' = Held(e),
           \A w \in Workers : /\ Awaits(w)' <=> Awaits(w)
                              /\ Awaits(w) => todo'[w] = todo[w]
    PROVE  CallInv'
<1>1. \A e \in Encoders, w \in Workers : \A i \in 1 .. Len(Held(e)') :
          Held(e)'[i].from = w =>
              Awaits(w)' /\ Held(e)'[i].queries = Prefix(todo'[w], BatchSize)
  BY DEF CallInv
<1>2. \A e, f \in Encoders : \A i \in 1 .. Len(Held(e)'), j \in 1 .. Len(Held(f)') :
          Held(e)'[i].from = Held(f)'[j].from => e = f /\ i = j
  BY DEF CallInv
<1>3. \A w \in Workers : Awaits(w)' =>
          \E e \in Encoders : \E i \in 1 .. Len(Held(e)') : Held(e)'[i].from = w
  BY DEF CallInv
<1> QED BY <1>1, <1>2, <1>3 DEF CallInv

\* A call that is sent is its worker's only one.
LEMMA CallsSent ==
    ASSUME QueueType, CallInv, NEW e \in Encoders, NEW w \in Workers, NEW call \in Call,
           call.from = w, call.queries = Prefix(todo[w], BatchSize),
           Held(e)' = Append(Held(e), call),
           \A f \in Encoders \ {e} : Held(f)' = Held(f),
           ~ Awaits(w), Awaits(w)', \A v \in Workers \ {w} : Awaits(v)' <=> Awaits(v),
           todo' = todo
    PROVE  CallInv'
<1>1. PICK h, n : h = Held(e) /\ n = Len(Held(e)) OBVIOUS
<1>2. h \in Seq(Call) /\ n \in Nat /\ n = Len(h) BY <1>1, HeldType
<1>3. PICK k : k = Held(e)' OBVIOUS
<1>4. Len(k) = n + 1 /\ k[n + 1] = call /\ \A i \in 1 .. n : k[i] = h[i]
  BY <1>1, <1>2, <1>3
<1>5. \A f \in Encoders : \A i \in 1 .. Len(Held(f)) : Held(f)[i].from # w BY DEF CallInv
<1>6. ASSUME NEW f \in Encoders, NEW i \in 1 .. Len(Held(f)')
      PROVE  \/ i \in 1 .. Len(Held(f)) /\ Held(f)'[i] = Held(f)[i] /\ Held(f)[i].from # w
             \/ f = e /\ i = n + 1 /\ Held(f)'[i] = call
  <2>1. CASE f = e
    <3>1. i \in 1 .. n + 1 BY <1>3, <1>4, <2>1
    <3>2. CASE i = n + 1 BY <1>3, <1>4, <2>1, <3>2
    <3>3. CASE i # n + 1
      <4>1. i \in 1 .. n BY <1>2, <3>1, <3>3
      <4> QED BY <1>1, <1>3, <1>4, <1>5, <2>1, <4>1
    <3> QED BY <3>2, <3>3
  <2>2. CASE f # e BY <1>5, <2>2
  <2> QED BY <2>1, <2>2
<1>7. \A f \in Encoders, v \in Workers : \A i \in 1 .. Len(Held(f)') :
          Held(f)'[i].from = v =>
              Awaits(v)' /\ Held(f)'[i].queries = Prefix(todo'[v], BatchSize)
  <2> SUFFICES ASSUME NEW f \in Encoders, NEW v \in Workers, NEW i \in 1 .. Len(Held(f)'),
                      Held(f)'[i].from = v
               PROVE  Awaits(v)' /\ Held(f)'[i].queries = Prefix(todo[v], BatchSize)
    OBVIOUS
  <2>1. CASE f = e /\ i = n + 1 /\ Held(f)'[i] = call BY <2>1
  <2>2. CASE i \in 1 .. Len(Held(f)) /\ Held(f)'[i] = Held(f)[i] /\ Held(f)[i].from # w
    BY <2>2 DEF CallInv
  <2> QED BY <1>6, <2>1, <2>2
<1>8. \A f, g \in Encoders : \A i \in 1 .. Len(Held(f)'), j \in 1 .. Len(Held(g)') :
          Held(f)'[i].from = Held(g)'[j].from => f = g /\ i = j
  BY <1>6 DEF CallInv
<1>9. \A v \in Workers : Awaits(v)' =>
          \E f \in Encoders : \E i \in 1 .. Len(Held(f)') : Held(f)'[i].from = v
  <2> SUFFICES ASSUME NEW v \in Workers, Awaits(v)'
               PROVE  \E f \in Encoders : \E i \in 1 .. Len(Held(f)') : Held(f)'[i].from = v
    OBVIOUS
  <2>1. CASE v = w
    <3>1. n + 1 \in 1 .. Len(Held(e)') /\ Held(e)'[n + 1].from = v BY <1>2, <1>3, <1>4, <2>1
    <3> QED BY <3>1
  <2>2. CASE v # w
    <3>1. PICK f \in Encoders : \E i \in 1 .. Len(Held(f)) : Held(f)[i].from = v
      BY <2>2 DEF CallInv
    <3>2. PICK i \in 1 .. Len(Held(f)) : Held(f)[i].from = v BY <3>1
    <3>3. i \in 1 .. Len(Held(f)') /\ Held(f)'[i] = Held(f)[i]
      <4>1. CASE f = e BY <1>1, <1>2, <1>3, <1>4, <4>1
      <4>2. CASE f # e BY <4>2
      <4> QED BY <4>1, <4>2
    <3> QED BY <3>2, <3>3
  <2> QED BY <2>1, <2>2
<1> QED BY <1>7, <1>8, <1>9 DEF CallInv

\* Calls that were answered are no longer held, and no longer awaited.
LEMMA CallsAnswered ==
    ASSUME QueueType, ReplyType, CallInv, NEW e \in Encoders, NEW m \in 0 .. Len(Held(e)),
           Held(e)' = SubSeq(Held(e), m + 1, Len(Held(e))), Answers(e, m),
           \A f \in Encoders \ {e} : Held(f)' = Held(f),
           UNCHANGED <<pc, todo>>
    PROVE  CallInv'
<1>1. PICK h, n : h = Held(e) /\ n = Len(Held(e)) OBVIOUS
<1>2. h \in Seq(Call) /\ n \in Nat /\ n = Len(h) /\ m \in 0 .. n /\ m \in Nat BY <1>1, HeldType
<1>3. PICK k : k = Held(e)' OBVIOUS
<1>4. Len(k) = n - m /\ \A i \in 1 .. n - m : k[i] = h[m + i]
  BY <1>1, <1>2, <1>3
<1>5. PICK at : at = [f \in Encoders |-> IF f = e THEN m ELSE 0] OBVIOUS
<1>6. ASSUME NEW f \in Encoders
      PROVE  /\ at[f] \in 0 .. Len(Held(f)) /\ Len(Held(f)') = Len(Held(f)) - at[f]
             /\ Len(Held(f)) \in Nat
             /\ \A i \in 1 .. Len(Held(f)') :
                    i + at[f] \in 1 .. Len(Held(f)) /\ Held(f)'[i] = Held(f)[i + at[f]]
  <2>1. CASE f = e
    <3>1. at[f] = m BY <1>5, <2>1
    <3>2. ASSUME NEW i \in 1 .. Len(k) PROVE i + m \in 1 .. n /\ k[i] = h[i + m]
      BY <1>2, <1>4
    <3>3. m \in 0 .. n /\ Len(k) = n - m /\ n \in Nat BY <1>2, <1>4
    <3>4. Held(f) = h /\ Held(f)' = k /\ Len(h) = n BY <1>1, <1>2, <1>3, <2>1
    <3> QED BY <3>1, <3>2, <3>3, <3>4
  <2>2. CASE f # e
    <3>1. at[f] = 0 /\ Held(f)' = Held(f) /\ Len(Held(f)) \in Nat BY <1>5, <2>2, HeldType
    <3> QED BY <3>1
  <2> QED BY <2>1, <2>2
<1>7. ASSUME NEW f \in Encoders, NEW i \in 1 .. Len(Held(f)'), NEW v \in Workers,
             Held(f)'[i].from = v
      PROVE  Awaits(v)' /\ Held(f)'[i].queries = Prefix(todo[v], BatchSize)
  <2>1. i + at[f] \in 1 .. Len(Held(f)) /\ Held(f)'[i] = Held(f)[i + at[f]] BY <1>6
  <2>2. Awaits(v) /\ Held(f)'[i].queries = Prefix(todo[v], BatchSize) BY <1>7, <2>1 DEF CallInv
  <2>3. ASSUME NEW j \in 1 .. m, h[j].from = v PROVE FALSE
    <3>1. j \in 1 .. Len(Held(e)) /\ Held(e)[j].from = v BY <1>1, <1>2, <2>3
    <3>2. f = e /\ i + at[f] = j BY <1>7, <2>1, <3>1 DEF CallInv
    <3>3. at[f] = m /\ i >= 1 BY <1>5, <1>6, <3>2
    <3> QED BY <1>2, <1>6, <3>2, <3>3
  <2>4. reply'[v] = reply[v] BY <1>1, <2>3 DEF Answers
  <2> QED BY <2>2, <2>4 DEF Awaits
<1>8. \A f, g \in Encoders : \A i \in 1 .. Len(Held(f)'), j \in 1 .. Len(Held(g)') :
          Held(f)'[i].from = Held(g)'[j].from => f = g /\ i = j
  <2> SUFFICES ASSUME NEW f \in Encoders, NEW g \in Encoders, NEW i \in 1 .. Len(Held(f)'),
                      NEW j \in 1 .. Len(Held(g)'), Held(f)'[i].from = Held(g)'[j].from
               PROVE  f = g /\ i = j
    OBVIOUS
  <2>1. f = g /\ i + at[f] = j + at[g]
    <3>1. i + at[f] \in 1 .. Len(Held(f)) /\ Held(f)'[i] = Held(f)[i + at[f]] BY <1>6
    <3>2. j + at[g] \in 1 .. Len(Held(g)) /\ Held(g)'[j] = Held(g)[j + at[g]] BY <1>6
    <3>3. PICK a, b : a = i + at[f] /\ b = j + at[g] OBVIOUS
    <3>4. Held(f)[a].from = Held(g)[b].from BY <3>1, <3>2, <3>3
    <3>5. a \in 1 .. Len(Held(f)) /\ b \in 1 .. Len(Held(g)) BY <3>1, <3>2, <3>3
    <3>6. f = g /\ a = b BY <3>4, <3>5 DEF CallInv
    <3> QED BY <3>3, <3>6
  <2>2. at[f] \in Nat /\ i \in Nat /\ j \in Nat BY <1>6
  <2> QED BY <2>1, <2>2
<1>9. ASSUME NEW v \in Workers, Awaits(v)'
      PROVE  \E f \in Encoders : \E i \in 1 .. Len(Held(f)') : Held(f)'[i].from = v
  <2>1. reply'[v] \notin Replies BY <1>9, Sizes DEF Awaits
  <2>2. (\A i \in 1 .. m : h[i].from # v) /\ reply'[v] = reply[v] BY <1>1, <2>1 DEF Answers
  <2>3. Awaits(v) BY <1>9, <2>2 DEF Awaits
  <2>4. PICK f \in Encoders : \E i \in 1 .. Len(Held(f)) : Held(f)[i].from = v
    BY <2>3 DEF CallInv
  <2>5. PICK i \in 1 .. Len(Held(f)) : Held(f)[i].from = v BY <2>4
  <2>6. i \in Nat /\ at[f] \in Nat /\ at[f] < i
    <3>1. CASE f = e
      <4>1. at[f] = m /\ i \in 1 .. n BY <1>1, <1>5, <3>1
      <4>2. ~ (i \in 1 .. m) BY <1>1, <2>2, <2>5, <3>1
      <4> QED BY <1>2, <4>1, <4>2
    <3>2. CASE f # e
      <4>1. at[f] = 0 BY <1>5, <3>2
      <4> QED BY <1>6, <4>1
    <3> QED BY <3>1, <3>2
  <2>7. i - at[f] \in 1 .. Len(Held(f)') /\ (i - at[f]) + at[f] = i BY <1>6, <2>6
  <2>8. Held(f)'[i - at[f]].from = v BY <1>6, <2>5, <2>7
  <2> QED BY <2>7, <2>8
<1> QED BY <1>7, <1>8, <1>9 DEF CallInv

-----------------------------------------------------------------------------
(* The steps of a worker *)

\* A worker that does nothing keeps its part of the invariant.
LEMMA WorkerSame ==
    ASSUME NEW v \in Workers, WorkerInv(v), ReplyInv(v)', pc'[v] = pc[v],
           batch'[v] = batch[v], todo'[v] = todo[v], found'[v] = found[v]
    PROVE  WorkerInv(v)'
<1>1. PICK b : b = batch[v] OBVIOUS
<1>2. Requested(v) = FlattenSeq(Parts(b)) /\ Requested(v)' = FlattenSeq(Parts(b))
  BY <1>1 DEF Requested
<1>3. /\ MaxTopK(v) = Max({TopK[b[i]] : i \in 1 .. Len(b)})
      /\ MaxTopK(v)' = Max({TopK[b[i]] : i \in 1 .. Len(b)})
  BY <1>1 DEF MaxTopK
<1>4. Requested(v)' = Requested(v) /\ MaxTopK(v)' = MaxTopK(v) BY <1>2, <1>3
<1>5. SearchedInv(v)' BY <1>4 DEF WorkerInv, SearchedInv
<1> QED BY <1>5 DEF WorkerInv

\* The others, when one worker does something.
LEMMA OthersSame ==
    ASSUME SearchInv, NEW w \in Workers, WorkerInv(w)',
           \A v \in Workers \ {w} :
               /\ pc'[v] = pc[v] /\ batch'[v] = batch[v] /\ todo'[v] = todo[v]
               /\ found'[v] = found[v] /\ reply'[v] = reply[v]
    PROVE  \A v \in Workers : WorkerInv(v)'
<1> SUFFICES ASSUME NEW v \in Workers, v # w PROVE WorkerInv(v)' OBVIOUS
<1>1. WorkerInv(v) BY DEF SearchInv
<1>2. ReplyInv(v)' BY <1>1 DEF WorkerInv, ReplyInv
<1> QED BY <1>1, <1>2, WorkerSame

\* Nothing that an actor does not do moves its calls.
LEMMA HeldSame ==
    ASSUME UNCHANGED <<joined, pending, queue>>
    PROVE  \A e \in Encoders : Held(e)' = Held(e)
BY DEF Held

\* Nor does it change the batch that is gathered.
LEMMA GatherSame ==
    ASSUME GatherInv, UNCHANGED <<joined, pending>>
    PROVE  GatherInv'
<1>1. \A e \in Encoders : Joined(e)' = Joined(e) BY DEF Joined, Calls
<1> QED BY <1>1 DEF GatherInv

\* No requests have no queries.
LEMMA NothingRequested == FlattenSeq(Parts(<<>>)) = <<>>
<1>1. PICK b \in Seq(Requests) : b = <<>> BY EmptySeq
<1>2. Len(Parts(b)) = 0 /\ Parts(b) \in Seq(Seq(Query)) BY <1>1, PartsAre
<1>3. Parts(b) = <<>> BY <1>2, EmptySeq
<1>4. FlattenSeq(Parts(b)) = Parts(b) BY <1>2 DEF FlattenSeq
<1> QED BY <1>1, <1>3, <1>4

\* Requests that arrive or leave disturb nothing.
LEMMA RequestStep ==
    ASSUME SearchInv, NEW c \in Requests, Leave(c) \/ \E w \in Workers : Arrive(c, w)
    PROVE  SearchInv'
<1>1. /\ UNCHANGED <<pc, batch, todo, found, next, reply, encoderVars>>
      /\ inbox' = inbox \/ \E w \in Workers : inbox' = [inbox EXCEPT ![w] = Append(@, c)]
      /\ answer' = answer \/ answer' = [answer EXCEPT ![c] = Ended("left", <<>>)]
  BY DEF Leave, Arrive, workerVars
<1>2. inbox' \in [Workers -> Seq(Requests)]
  <2>1. \A w \in Workers : Append(inbox[w], c) \in Seq(Requests)
    BY DEF SearchInv, SearchType, WorkerType
  <2> QED BY <1>1, <2>1 DEF SearchInv, SearchType, WorkerType
<1>3. SearchType'
  BY <1>1, <1>2 DEF SearchInv, SearchType, WorkerType, ReplyType, QueueType, encoderVars
<1>4. \A v \in Workers : WorkerInv(v)'
  <2> SUFFICES ASSUME NEW v \in Workers PROVE WorkerInv(v)' OBVIOUS
  <2>1. WorkerInv(v) BY DEF SearchInv
  <2>2. ReplyInv(v)' BY <1>1, <2>1 DEF WorkerInv, ReplyInv
  <2> QED BY <1>1, <2>1, <2>2, WorkerSame
<1>5. CallInv'
  <2>1. \A e \in Encoders : Held(e)' = Held(e) BY <1>1, HeldSame DEF encoderVars
  <2>2. \A w \in Workers : (Awaits(w)' <=> Awaits(w)) /\ todo'[w] = todo[w] BY <1>1 DEF Awaits
  <2> QED BY <2>1, <2>2, CallsSame DEF SearchInv
<1>6. GatherInv' BY <1>1, GatherSame DEF SearchInv, encoderVars
<1> QED BY <1>3, <1>4, <1>5, <1>6 DEF SearchInv

\* A new batch is searched from its start.
LEMMA TakeBatchStep ==
    ASSUME SearchInv, NEW w \in Workers, TakeBatch(w)
    PROVE  SearchInv'
<1>1. /\ pc[w] = "idle" /\ pc' = [pc EXCEPT ![w] = "searching"]
      /\ UNCHANGED <<answer, found, next, reply, encoderVars>>
  BY DEF TakeBatch
<1>2. PICK n \in 1 .. MaxRequests :
          /\ n <= Len(inbox[w])
          /\ batch' = [batch EXCEPT ![w] = Prefix(inbox[w], n)]
          /\ inbox' = [inbox EXCEPT ![w] = SubSeq(@, n + 1, Len(@))]
  BY DEF TakeBatch
<1>3. PICK b, in, all : /\ b = Prefix(inbox[w], n) /\ in = SubSeq(inbox[w], n + 1, Len(inbox[w]))
                        /\ all = FlattenSeq(Parts(b))
  OBVIOUS
<1>4. inbox[w] \in Seq(Requests) BY DEF SearchInv, SearchType, WorkerType
<1>5. n \in Nat \ {0} /\ n <= MaxRequests /\ MaxRequests \in Nat BY Sizes
<1>6. b \in Seq(Requests) /\ Len(b) = n
  <2>1. /\ b \in Seq(Requests) /\ Len(inbox[w]) \in Nat
        /\ Len(b) = IF n < Len(inbox[w]) THEN n ELSE Len(inbox[w])
    BY <1>3, <1>4, <1>5, PrefixIs
  <2> QED BY <1>2, <1>5, <2>1
<1>7. in \in Seq(Requests) BY <1>3, <1>4, <1>5
<1>8. all \in Seq(Query) BY <1>3, <1>6, PartsAre
<1>9. batch' = [batch EXCEPT ![w] = b] /\ inbox' = [inbox EXCEPT ![w] = in] BY <1>2, <1>3
<1>10. batch'[w] = b BY <1>9 DEF SearchInv, SearchType, WorkerType
<1>11. todo' = [todo EXCEPT ![w] = all] BY <1>3, <1>10 DEF TakeBatch
<1>12. SearchType'
  BY <1>1, <1>6, <1>7, <1>8, <1>9, <1>11
  DEF SearchInv, SearchType, WorkerType, ReplyType, QueueType, encoderVars
<1>13. reply[w] = None BY <1>1 DEF SearchInv, WorkerInv, ReplyInv
<1>14. WorkerInv(w)'
  <2>1. pc'[w] = "searching" /\ todo'[w] = all /\ found'[w] = found[w] /\ reply'[w] = None
    BY <1>1, <1>11, <1>13 DEF SearchInv, SearchType, WorkerType
  <2>2. Requested(w)' = all BY <1>3, <1>10 DEF Requested
  <2>3. Len(found[w]) = 0
    <3>1. batch[w] = <<>> /\ Len(found[w]) <= Len(Requested(w))
      BY <1>1 DEF SearchInv, WorkerInv, SearchedInv
    <3>2. Requested(w) = <<>> BY <3>1, NothingRequested DEF Requested
    <3>3. found[w] \in Seq(Seq(Doc)) BY DEF SearchInv, SearchType, WorkerType
    <3> QED BY <3>1, <3>2, <3>3
  <2>4. all = SubSeq(all, 0 + 1, Len(all)) BY <1>8, SubSeqFull
  <2>5. Len(all) \in Nat BY <1>8
  <2>6. SearchedInv(w)' BY <2>1, <2>2, <2>3, <2>4, <2>5 DEF SearchedInv
  <2>7. b # <<>> /\ Len(b) <= MaxRequests BY <1>5, <1>6
  <2> QED BY <1>10, <2>1, <2>6, <2>7 DEF WorkerInv, ReplyInv
<1>15. \A v \in Workers : WorkerInv(v)'
  <2>1. \A v \in Workers \ {w} :
            /\ pc'[v] = pc[v] /\ batch'[v] = batch[v] /\ todo'[v] = todo[v]
            /\ found'[v] = found[v] /\ reply'[v] = reply[v]
    BY <1>1, <1>9, <1>11 DEF SearchInv, SearchType, WorkerType
  <2> QED BY <1>14, <2>1, OthersSame
<1>16. CallInv'
  <2>1. \A e \in Encoders : Held(e)' = Held(e) BY <1>1, HeldSame DEF encoderVars
  <2>2. \A v \in Workers : (Awaits(v)' <=> Awaits(v)) /\ (Awaits(v) => todo'[v] = todo[v])
    BY <1>1, <1>11 DEF Awaits, SearchInv, SearchType, WorkerType
  <2> QED BY <2>1, <2>2, CallsSame DEF SearchInv
<1>17. GatherInv' BY <1>1, GatherSame DEF SearchInv, encoderVars
<1> QED BY <1>12, <1>15, <1>16, <1>17 DEF SearchInv

\* The next chunk goes out, or comes back at once.
LEMMA EncodeChunkStep ==
    ASSUME SearchInv, NEW w \in Workers, EncodeChunk(w)
    PROVE  SearchInv'
<1>1. PICK e, chunk, call : /\ e = next[w] /\ chunk = Prefix(todo[w], BatchSize)
                            /\ call = [from |-> w, queries |-> chunk]
  OBVIOUS
<1>2. /\ pc[w] = "searching" /\ pc' = [pc EXCEPT ![w] = "encoding"]
      /\ next' = [next EXCEPT ![w] = (e + 1) % NumEncoders]
      /\ UNCHANGED <<answer, inbox, batch, todo, found, pending, joined, closed, dead>>
      /\ \/ e \in dead /\ reply' = [reply EXCEPT ![w] = Raised] /\ queue' = queue
         \/ e \notin dead /\ queue' = [queue EXCEPT ![e] = Append(queue[e], call)] /\ reply' = reply
  BY <1>1 DEF EncodeChunk
<1>3. e \in Encoders BY <1>1 DEF SearchInv, SearchType, WorkerType
<1>4. (e + 1) % NumEncoders \in Encoders
  <2>1. e + 1 \in Int /\ NumEncoders \in Nat \ {0} BY <1>3, Sizes DEF Encoders
  <2> QED BY <2>1 DEF Encoders
<1>5. chunk \in Seq(Query) BY <1>1, Sizes, PrefixIs DEF SearchInv, SearchType, WorkerType
<1>6. call \in Call /\ call.from = w /\ call.queries = chunk BY <1>1, <1>5 DEF Call
<1>7. Raised \in Replies /\ Raised.raised /\ None \notin Replies BY Sizes
<1>8. WorkerType' BY <1>2, <1>4 DEF SearchInv, SearchType, WorkerType
<1>9. ReplyType' BY <1>2, <1>7 DEF SearchInv, SearchType, ReplyType
<1>10. QueueType'
  <2>1. queue[e] \in Seq(Call) BY <1>3 DEF SearchInv, SearchType, QueueType
  <2>2. Append(queue[e], call) \in Seq(Call) BY <1>6, <2>1
  <2> QED BY <1>2, <2>2 DEF SearchInv, SearchType, QueueType
<1>11. SearchType' BY <1>2, <1>8, <1>9, <1>10 DEF SearchInv, SearchType
<1>12. reply[w] = None /\ pc'[w] = "encoding" /\ ~ Awaits(w)
  BY <1>2 DEF SearchInv, WorkerInv, ReplyInv, SearchType, WorkerType, Awaits
<1>13. WorkerInv(w)'
  <2>1. WorkerInv(w) /\ batch'[w] = batch[w] /\ todo'[w] = todo[w] /\ found'[w] = found[w]
    BY <1>2 DEF SearchInv
  <2>2. reply'[w] \in {None, Raised} BY <1>2, <1>12 DEF SearchInv, SearchType, ReplyType
  <2>3. ReplyInv(w)' BY <1>7, <1>12, <2>2 DEF ReplyInv
  <2>4. SearchedInv(w)'
    <3>1. PICK b : b = batch[w] OBVIOUS
    <3>2. Requested(w) = FlattenSeq(Parts(b)) /\ Requested(w)' = FlattenSeq(Parts(b))
      BY <2>1, <3>1 DEF Requested
    <3>3. /\ MaxTopK(w) = Max({TopK[b[i]] : i \in 1 .. Len(b)})
          /\ MaxTopK(w)' = Max({TopK[b[i]] : i \in 1 .. Len(b)})
      BY <2>1, <3>1 DEF MaxTopK
    <3>4. Requested(w)' = Requested(w) /\ MaxTopK(w)' = MaxTopK(w) BY <3>2, <3>3
    <3> QED BY <2>1, <3>4 DEF WorkerInv, SearchedInv
  <2>5. batch[w] # <<>> BY <1>2, <2>1 DEF WorkerInv
  <2> QED BY <1>12, <2>1, <2>3, <2>4, <2>5 DEF WorkerInv
<1>14. \A v \in Workers : WorkerInv(v)'
  <2>1. \A v \in Workers \ {w} :
            /\ pc'[v] = pc[v] /\ batch'[v] = batch[v] /\ todo'[v] = todo[v]
            /\ found'[v] = found[v] /\ reply'[v] = reply[v]
    BY <1>2 DEF SearchInv, SearchType, WorkerType, ReplyType
  <2> QED BY <1>13, <2>1, OthersSame
<1>15. CallInv'
  <2>1. CASE e \in dead
    <3>1. reply' = [reply EXCEPT ![w] = Raised] /\ UNCHANGED <<joined, pending, queue>>
      BY <1>2, <2>1
    <3>2. \A f \in Encoders : Held(f)' = Held(f) BY <3>1, HeldSame
    <3>3. reply'[w] # None BY <1>7, <3>1 DEF SearchInv, SearchType, ReplyType
    <3>4. \A v \in Workers : (Awaits(v)' <=> Awaits(v)) /\ todo'[v] = todo[v]
      BY <1>2, <1>12, <3>1, <3>3 DEF Awaits, SearchInv, SearchType, WorkerType, ReplyType
    <3> QED BY <3>2, <3>4, CallsSame DEF SearchInv
  <2>2. CASE e \notin dead
    <3>1. /\ queue' = [queue EXCEPT ![e] = Append(queue[e], call)]
          /\ UNCHANGED <<joined, pending, reply>>
      BY <1>2, <2>2
    <3>2. Held(e)' = Append(Held(e), call)
      <4>1. PICK b, p, q : b = joined[e] /\ p = pending[e] /\ q = queue[e] OBVIOUS
      <4>2. b \in Seq(Call) /\ p \in Seq(Call) /\ q \in Seq(Call)
        BY <1>3, <4>1 DEF SearchInv, SearchType, QueueType
      <4>3. queue'[e] = Append(q, call) BY <1>3, <3>1, <4>1 DEF SearchInv, SearchType, QueueType
      <4>4. PICK s : s = b \o p OBVIOUS
      <4>5. s \in Seq(Call) /\ <<call>> \in Seq(Call) BY <1>6, <4>2, <4>4
      <4>6. /\ Append(q, call) = q \o <<call>> /\ s \o q \in Seq(Call)
            /\ s \o (q \o <<call>>) = (s \o q) \o <<call>>
        BY <1>6, <4>2, <4>5, AppendIsConcat, ConcatProperties, ConcatAssociative
      <4>7. Append(s \o q, call) = (s \o q) \o <<call>> BY <1>6, <4>6, AppendIsConcat
      <4>8. Held(e) = s \o q /\ Held(e)' = s \o Append(q, call)
        BY <3>1, <4>1, <4>3, <4>4 DEF Held
      <4> QED BY <4>6, <4>7, <4>8
    <3>3. \A f \in Encoders \ {e} : Held(f)' = Held(f)
      BY <3>1 DEF Held, SearchInv, SearchType, QueueType
    <3>4. Awaits(w)' /\ \A v \in Workers \ {w} : Awaits(v)' <=> Awaits(v)
      BY <1>2, <1>12, <3>1 DEF Awaits, SearchInv, SearchType, WorkerType
    <3>5. todo' = todo /\ call.queries = Prefix(todo[w], BatchSize) BY <1>1, <1>2, <1>6
    <3> QED BY <1>3, <1>6, <1>12, <3>2, <3>3, <3>4, <3>5, CallsSent DEF SearchInv, SearchType
  <2> QED BY <2>1, <2>2
<1>16. GatherInv' BY <1>2, GatherSame DEF SearchInv
<1> QED BY <1>11, <1>14, <1>15, <1>16 DEF SearchInv

\* What is left of a sequence.
LEMMA Rest ==
    ASSUME NEW T, NEW r \in Seq(T), NEW n \in Nat, n <= Len(r),
           NEW t, t = SubSeq(r, n + 1, Len(r))
    PROVE  t \in Seq(T) /\ Len(t) = Len(r) - n /\ \A k \in 1 .. Len(t) : t[k] = r[n + k]
<1>1. Len(r) \in Nat OBVIOUS
<1>2. \A i \in (n + 1) .. Len(r) : r[i] \in T BY <1>1
<1>3. /\ t \in Seq(T)
      /\ Len(t) = IF n + 1 <= Len(r) THEN Len(r) - (n + 1) + 1 ELSE 0
      /\ \A i \in 1 .. Len(r) - (n + 1) + 1 : t[i] = r[(n + 1) + i - 1]
  BY <1>1, <1>2, SubSeqProperties
<1>4. Len(t) = Len(r) - n BY <1>1, <1>3
<1>5. ASSUME NEW k \in 1 .. Len(t) PROVE t[k] = r[n + k]
  <2>1. k \in 1 .. Len(r) - (n + 1) + 1 /\ (n + 1) + k - 1 = n + k BY <1>1, <1>4
  <2> QED BY <1>3, <2>1
<1> QED BY <1>3, <1>4, <1>5

\* And what is left of that.
LEMMA CutOff ==
    ASSUME NEW T, NEW r \in Seq(T), NEW n \in Nat, n <= Len(r),
           NEW t, t = SubSeq(r, n + 1, Len(r)), NEW m \in Nat, m <= Len(t)
    PROVE  /\ t \in Seq(T) /\ Len(t) = Len(r) - n
           /\ \A k \in 1 .. Len(t) : t[k] = r[n + k]
           /\ SubSeq(t, m + 1, Len(t)) = SubSeq(r, (n + m) + 1, Len(r))
<1>1. Len(r) \in Nat OBVIOUS
<1>2. t \in Seq(T) /\ Len(t) = Len(r) - n /\ \A k \in 1 .. Len(t) : t[k] = r[n + k]
  BY Rest
<1>3. PICK a, b : a = SubSeq(t, m + 1, Len(t)) /\ b = SubSeq(r, (n + m) + 1, Len(r)) OBVIOUS
<1>4. a \in Seq(T) /\ Len(a) = Len(t) - m /\ \A k \in 1 .. Len(a) : a[k] = t[m + k]
  BY <1>2, <1>3, Rest, SMTT(30)
<1>5. /\ b \in Seq(T) /\ Len(b) = Len(r) - (n + m)
      /\ \A k \in 1 .. Len(b) : b[k] = r[(n + m) + k]
  <2>1. n + m \in Nat /\ n + m <= Len(r) BY <1>1, <1>2
  <2> QED BY <1>3, <2>1, Rest
<1>6. Len(a) = Len(b) BY <1>1, <1>2, <1>4, <1>5
<1>7. ASSUME NEW k \in 1 .. Len(a) PROVE a[k] = b[k]
  <2>1. m + k \in 1 .. Len(t) /\ n + (m + k) = (n + m) + k BY <1>1, <1>2, <1>4
  <2>2. t[m + k] = r[n + (m + k)] BY <1>2, <2>1
  <2> QED BY <1>4, <1>5, <1>6, <2>1, <2>2
<1>8. a = b BY <1>4, <1>5, <1>6, <1>7, SeqEqual
<1> QED BY <1>2, <1>3, <1>8

\* A worker that got its chunk back has found the next documents, in order.
LEMMA SearchStep ==
    ASSUME SearchInv, NEW w \in Workers, Search(w)
    PROVE  SearchInv'
<1>1. /\ pc[w] = "encoding" /\ pc' = [pc EXCEPT ![w] = "searching"]
      /\ reply[w] # None /\ reply' = [reply EXCEPT ![w] = None]
      /\ UNCHANGED <<answer, inbox, batch, next, encoderVars>>
  BY DEF Search
<1>2. /\ batch[w] # <<>> /\ batch[w] \in Seq(Requests) /\ Len(batch[w]) <= MaxRequests
      /\ reply[w].embeddings = Prefix(todo[w], BatchSize)
      /\ todo[w] \in Seq(Query) /\ found[w] \in Seq(Seq(Doc)) /\ SearchedInv(w)
  <2>1. WorkerInv(w) BY DEF SearchInv
  <2>2. ~ reply[w].raised BY DEF Search
  <2> QED BY <1>1, <2>1, <2>2 DEF SearchInv, SearchType, WorkerType, WorkerInv, ReplyInv
<1>3. PICK r, f, t, emb, M : /\ r = Requested(w) /\ f = found[w] /\ t = todo[w]
                             /\ emb = Prefix(todo[w], BatchSize) /\ M = MaxTopK(w)
  OBVIOUS
<1>4. M \in Nat /\ r \in Seq(Query) /\ BatchSize \in Nat
  <2>1. r \in Seq(Query) BY <1>2, <1>3, PartsAre DEF Requested
  <2>2. M \in Nat BY <1>2, <1>3, MaxTopKIs
  <2> QED BY <2>1, <2>2, Sizes
<1>5. /\ f \in Seq(Seq(Doc)) /\ t \in Seq(Query) /\ Len(f) <= Len(r)
      /\ t = SubSeq(r, Len(f) + 1, Len(r))
      /\ \A i \in 1 .. Len(f) : f[i] = Documents(r[i], M)
  BY <1>2, <1>3 DEF SearchedInv
<1>6. /\ emb \in Seq(Query) /\ Len(emb) \in Nat /\ Len(emb) <= Len(t)
      /\ \A k \in 1 .. Len(emb) : emb[k] = t[k]
  <2>1. t \in Seq(Query) /\ emb = Prefix(t, BatchSize) BY <1>3, <1>5
  <2>2. /\ emb \in Seq(Query) /\ Len(emb) \in Nat /\ Len(t) \in Nat
        /\ Len(emb) = IF BatchSize < Len(t) THEN BatchSize ELSE Len(t)
        /\ \A k \in 1 .. Len(emb) : emb[k] = t[k]
    BY <1>4, <2>1, PrefixIs
  <2> QED BY <1>4, <2>2
<1>7. PICK new, f1, t1 :
          /\ new = [i \in 1 .. Len(emb) |-> Documents(emb[i], M)]
          /\ f1 = f \o new /\ t1 = SubSeq(t, Len(emb) + 1, Len(t))
  OBVIOUS
<1>8. found' = [found EXCEPT ![w] = f1] /\ todo' = [todo EXCEPT ![w] = t1]
  BY <1>2, <1>3, <1>7 DEF Search
<1>9. \A i \in 1 .. Len(emb) : emb[i] \in Query /\ Documents(emb[i], M) \in Seq(Doc)
  <2> SUFFICES ASSUME NEW i \in 1 .. Len(emb)
               PROVE  emb[i] \in Query /\ Documents(emb[i], M) \in Seq(Doc)
    OBVIOUS
  <2>1. emb[i] \in Query /\ M <= M BY <1>4, <1>6
  <2> QED BY <1>4, <2>1, DocumentsAre
<1>10. new \in Seq(Seq(Doc)) /\ Len(new) = Len(emb) BY <1>6, <1>7, <1>9
<1>11. /\ f1 \in Seq(Seq(Doc)) /\ Len(f1) = Len(f) + Len(new)
       /\ \A k \in 1 .. Len(f) : f1[k] = f[k]
       /\ \A k \in 1 .. Len(new) : f1[Len(f) + k] = new[k]
  BY <1>5, <1>7, <1>10, ConcatIs
<1>12. Len(f) \in Nat /\ Len(r) \in Nat /\ Len(t) \in Nat BY <1>4, <1>5
<1>13. /\ Len(t) = Len(r) - Len(f) /\ \A k \in 1 .. Len(t) : t[k] = r[Len(f) + k]
       /\ t1 = SubSeq(r, (Len(f) + Len(emb)) + 1, Len(r))
  BY <1>4, <1>5, <1>6, <1>7, <1>12, CutOff, SMTT(30)
<1>14. t1 \in Seq(Query) BY <1>5, <1>6, <1>7
<1>15. ASSUME NEW k \in 1 .. Len(f1) PROVE f1[k] = Documents(r[k], M)
  <2>1. CASE k <= Len(f)
    <3>1. k \in 1 .. Len(f) BY <1>12, <2>1
    <3> QED BY <1>5, <1>11, <3>1
  <2>2. CASE ~ (k <= Len(f))
    <3>1. PICK j \in 1 .. Len(new) : k = Len(f) + j
      <4>1. k - Len(f) \in 1 .. Len(new) /\ k = Len(f) + (k - Len(f))
        BY <1>6, <1>10, <1>11, <1>12, <2>2
      <4> QED BY <4>1
    <3>2. f1[k] = new[j] /\ j \in 1 .. Len(emb) /\ j \in 1 .. Len(t)
      BY <1>6, <1>10, <1>11, <1>12, <3>1
    <3>3. new[j] = Documents(emb[j], M) BY <1>7, <3>2
    <3>4. emb[j] = r[k] BY <1>6, <1>13, <3>1, <3>2
    <3> QED BY <3>2, <3>3, <3>4
  <2> QED BY <2>1, <2>2
<1>16. SearchType'
  BY <1>1, <1>8, <1>11, <1>14
  DEF SearchInv, SearchType, WorkerType, ReplyType, QueueType, encoderVars
<1>17. WorkerInv(w)'
  <2>1. /\ pc'[w] = "searching" /\ reply'[w] = None /\ found'[w] = f1 /\ todo'[w] = t1
        /\ batch'[w] = batch[w]
    BY <1>1, <1>8 DEF SearchInv, SearchType, WorkerType, ReplyType
  <2>2. Requested(w)' = r /\ MaxTopK(w)' = M BY <1>1, <1>3 DEF Requested, MaxTopK
  <2>3. Len(f1) <= Len(r) /\ Len(f1) = Len(f) + Len(emb)
    BY <1>6, <1>10, <1>11, <1>12, <1>13
  <2>4. SearchedInv(w)' BY <1>13, <1>15, <2>1, <2>2, <2>3 DEF SearchedInv
  <2> QED BY <1>2, <2>1, <2>4 DEF WorkerInv, ReplyInv
<1>18. \A v \in Workers : WorkerInv(v)'
  <2>1. \A v \in Workers \ {w} :
            /\ pc'[v] = pc[v] /\ batch'[v] = batch[v] /\ todo'[v] = todo[v]
            /\ found'[v] = found[v] /\ reply'[v] = reply[v]
    BY <1>1, <1>8 DEF SearchInv, SearchType, WorkerType, ReplyType
  <2> QED BY <1>17, <2>1, OthersSame
<1>19. CallInv'
  <2>1. \A e \in Encoders : Held(e)' = Held(e) BY <1>1, HeldSame DEF encoderVars
  <2>2. \A v \in Workers : (Awaits(v)' <=> Awaits(v)) /\ (Awaits(v) => todo'[v] = todo[v])
    BY <1>1, <1>8 DEF Awaits, SearchInv, SearchType, WorkerType, ReplyType
  <2> QED BY <2>1, <2>2, CallsSame DEF SearchInv
<1>20. GatherInv' BY <1>1, GatherSame DEF SearchInv, encoderVars
<1> QED BY <1>16, <1>18, <1>19, <1>20 DEF SearchInv

\* A batch that is answered, or that failed, leaves its worker as it was.
LEMMA DoneStep ==
    ASSUME SearchInv, NEW w \in Workers, Answer(w) \/ BatchFails(w)
    PROVE  SearchInv'
<1>1. /\ Done(w) /\ UNCHANGED <<inbox, next, encoderVars>> /\ ~ Awaits(w)
      /\ DOMAIN answer' = Requests
      /\ reply' = reply \/ reply' = [reply EXCEPT ![w] = None]
      /\ reply'[w] = None
  <2>1. CASE Answer(w)
    <3>1. Done(w) /\ UNCHANGED <<inbox, next, reply, encoderVars>> /\ pc[w] = "searching"
      BY <2>1 DEF Answer
    <3>2. DOMAIN answer' = Requests BY <2>1 DEF Answer, Resolve
    <3>3. reply[w] = None BY <3>1 DEF SearchInv, WorkerInv, ReplyInv
    <3> QED BY <3>1, <3>2, <3>3 DEF Awaits
  <2>2. CASE BatchFails(w)
    <3>1. /\ Done(w) /\ UNCHANGED <<inbox, next, encoderVars>> /\ reply[w] # None
          /\ reply' = [reply EXCEPT ![w] = None]
      BY <2>2 DEF BatchFails
    <3>2. DOMAIN answer' = Requests BY <2>2 DEF BatchFails, Resolve
    <3> QED BY <3>1, <3>2 DEF Awaits, SearchInv, SearchType, ReplyType
  <2> QED BY <2>1, <2>2
<1>2. /\ pc' = [pc EXCEPT ![w] = "idle"] /\ batch' = [batch EXCEPT ![w] = <<>>]
      /\ todo' = [todo EXCEPT ![w] = <<>>] /\ found' = [found EXCEPT ![w] = <<>>]
  BY <1>1 DEF Done
<1>3. SearchType'
  BY <1>1, <1>2, EmptySeq
  DEF SearchInv, SearchType, WorkerType, ReplyType, QueueType, encoderVars
<1>4. WorkerInv(w)'
  <2>1. pc'[w] = "idle" /\ batch'[w] = <<>> /\ todo'[w] = <<>> /\ found'[w] = <<>>
    BY <1>2 DEF SearchInv, SearchType, WorkerType
  <2>2. Requested(w)' = <<>> BY <2>1, NothingRequested DEF Requested
  <2>3. PICK e : e = <<>> /\ e \in Seq(Query) /\ Len(e) = 0 BY EmptySeq
  <2>4. SubSeq(e, 0 + 1, 0) = e
    <3>1. SubSeq(e, 0 + 1, 0) = <<>> BY <2>3, SubSeqEmpty
    <3> QED BY <2>3, <3>1
  <2>5. SearchedInv(w)' BY <2>1, <2>2, <2>3, <2>4 DEF SearchedInv
  <2>6. Len(e) <= MaxRequests BY <2>3, Sizes
  <2> QED BY <1>1, <2>1, <2>3, <2>5, <2>6 DEF WorkerInv, ReplyInv
<1>5. \A v \in Workers : WorkerInv(v)'
  <2>1. \A v \in Workers \ {w} :
            /\ pc'[v] = pc[v] /\ batch'[v] = batch[v] /\ todo'[v] = todo[v]
            /\ found'[v] = found[v] /\ reply'[v] = reply[v]
    BY <1>1, <1>2 DEF SearchInv, SearchType, WorkerType, ReplyType
  <2> QED BY <1>4, <2>1, OthersSame
<1>6. CallInv'
  <2>1. \A e \in Encoders : Held(e)' = Held(e) BY <1>1, HeldSame DEF encoderVars
  <2>2. \A v \in Workers : (Awaits(v)' <=> Awaits(v)) /\ (Awaits(v) => todo'[v] = todo[v])
    BY <1>1, <1>2 DEF Awaits, SearchInv, SearchType, WorkerType, ReplyType
  <2> QED BY <2>1, <2>2, CallsSame DEF SearchInv
<1>7. GatherInv' BY <1>1, GatherSame DEF SearchInv, encoderVars
<1> QED BY <1>3, <1>5, <1>6, <1>7 DEF SearchInv

-----------------------------------------------------------------------------
(* The steps of an actor *)

\* Gathering a batch keeps the order of the calls, and within the batch's size.
LEMMA GatherStep ==
    ASSUME SearchInv, NEW e \in Encoders, Gather(e)
    PROVE  SearchInv'
<1>1. QueueType /\ ReplyType /\ CallInv /\ GatherInv BY DEF SearchInv, SearchType
<1>2. /\ QueueType' /\ Held(e)' = Held(e) /\ (Len(pending[e]) <= 1 => Len(pending'[e]) <= 1)
      /\ \A f \in Encoders \ {e} :
             joined'[f] = joined[f] /\ pending'[f] = pending[f] /\ queue'[f] = queue[f]
      /\ UNCHANGED <<answer, workerVars, reply>>
  BY <1>1, GatherIs
<1>3. SearchType'
  BY <1>2 DEF SearchInv, SearchType, WorkerType, ReplyType, workerVars
<1>4. \A v \in Workers : WorkerInv(v)'
  <2> SUFFICES ASSUME NEW v \in Workers PROVE WorkerInv(v)' OBVIOUS
  <2>1. WorkerInv(v) BY DEF SearchInv
  <2>2. ReplyInv(v)' BY <1>2, <2>1 DEF WorkerInv, ReplyInv, workerVars
  <2> QED BY <1>2, <2>1, <2>2, WorkerSame DEF workerVars
<1>5. CallInv'
  <2>1. \A f \in Encoders : Held(f)' = Held(f) BY <1>2 DEF Held
  <2>2. \A v \in Workers : (Awaits(v)' <=> Awaits(v)) /\ todo'[v] = todo[v]
    BY <1>2 DEF Awaits, workerVars
  <2> QED BY <1>1, <2>1, <2>2, CallsSame
<1>6. GatherInv'
  <2> SUFFICES ASSUME NEW f \in Encoders
               PROVE  /\ Len(joined'[f]) <= 1 \/ Joined(f)' <= MaxBatch
                      /\ Len(pending'[f]) <= 1
    BY DEF GatherInv
  <2>1. (Len(joined[f]) <= 1 \/ Joined(f) <= MaxBatch) /\ Len(pending[f]) <= 1
    BY <1>1 DEF GatherInv
  <2>2. CASE joined'[f] = joined[f]
    <3>1. Joined(f)' = Joined(f) BY <2>2 DEF Joined, Calls
    <3>2. Len(pending'[f]) <= 1 BY <1>2, <2>1
    <3> QED BY <2>1, <2>2, <3>1, <3>2
  <2>3. CASE joined'[f] # joined[f]
    <3>1. f = e BY <1>2, <2>3
    <3>2. Len(pending'[f]) <= 1 BY <1>2, <2>1, <3>1
    <3>3. CASE Begin(e)
      <4>1. joined'[e] = <<NextCall(e)>> BY <1>1, <3>3 DEF Begin, QueueType
      <4>2. Len(<<NextCall(e)>>) <= 1 OBVIOUS
      <4> QED BY <3>1, <3>2, <4>1, <4>2
    <3>4. CASE Join(e)
      <4>1. PICK b, s, n : b = joined[e] /\ s = pending[e] \o queue[e] /\ n = NextCall(e)
        OBVIOUS
      <4>2. b \in Seq(Call) /\ s \in Seq(Call) BY <1>1, <4>1, ConcatProperties DEF QueueType
      <4>3. s # <<>> /\ n = Head(s) /\ joined'[e] = Append(b, n)
            /\ Len(n.queries) <= MaxBatch - Joined(e)
        BY <1>1, <3>4, <4>1 DEF Join, PopNext, NextCall, QueueType
      <4>4. n \in Call BY <4>2, <4>3, MoveHead
      <4>5. n.queries \in Seq(Query) BY <4>4 DEF Call
      <4>6. PICK parts, more : parts = [i \in 1 .. Len(b) |-> b[i].queries]
                               /\ more = Append(b, n)
        OBVIOUS
      <4>7. \A i \in 1 .. Len(b) : b[i].queries \in Seq(Query)
        <5>1. \A i \in 1 .. Len(b) : b[i] \in Call BY <4>2
        <5> QED BY <5>1 DEF Call
      <4>8. parts \in Seq(Seq(Query)) /\ Len(parts) = Len(b) BY <4>2, <4>6, <4>7
      <4>9. PICK p : p = Append(parts, n.queries) OBVIOUS
      <4>10. [i \in 1 .. Len(more) |-> more[i].queries] = p
        <5>1. PICK g : g = [i \in 1 .. Len(more) |-> more[i].queries] OBVIOUS
        <5>2. /\ Len(more) = Len(b) + 1 /\ Len(b) \in Nat /\ more[Len(b) + 1] = n
              /\ \A i \in 1 .. Len(b) : more[i] = b[i]
          BY <4>2, <4>4, <4>6
        <5>3. /\ p \in Seq(Seq(Query)) /\ Len(p) = Len(b) + 1
              /\ p[Len(b) + 1] = n.queries /\ \A i \in 1 .. Len(b) : p[i] = parts[i]
          BY <4>5, <4>8, <4>9
        <5>4. \A i \in 1 .. Len(b) + 1 : g[i] = p[i]
          <6> SUFFICES ASSUME NEW i \in 1 .. Len(b) + 1 PROVE g[i] = p[i] OBVIOUS
          <6>1. g[i] = more[i].queries BY <5>1, <5>2
          <6>2. CASE i = Len(b) + 1 BY <5>2, <5>3, <6>1, <6>2
          <6>3. CASE i # Len(b) + 1
            <7>1. i \in 1 .. Len(b) BY <5>2, <6>3
            <7> QED BY <4>6, <5>2, <5>3, <6>1, <7>1
          <6> QED BY <6>2, <6>3
        <5>5. g \in Seq(Seq(Query)) /\ Len(g) = Len(b) + 1
          <6>1. g = [i \in 1 .. Len(b) + 1 |-> more[i].queries] BY <5>1, <5>2
          <6>2. \A i \in 1 .. Len(b) + 1 : p[i] \in Seq(Query) BY <5>2, <5>3
          <6>3. \A i \in 1 .. Len(b) + 1 : more[i].queries \in Seq(Query)
            BY <5>4, <6>1, <6>2
          <6> QED BY <5>2, <6>1, <6>3
        <5>6. g = p BY <5>3, <5>4, <5>5, SeqEqual
        <5> QED BY <5>1, <5>6
      <4>11. Joined(e) = Len(FlattenSeq(parts)) BY <4>1, <4>6 DEF Joined, Calls
      <4>12. Joined(e)' = Len(FlattenSeq(p)) BY <4>3, <4>6, <4>10 DEF Joined, Calls
      <4>13. Len(FlattenSeq(p)) = Len(FlattenSeq(parts)) + Len(n.queries)
        BY <4>5, <4>8, <4>9, JoiningOneMore
      <4>14. FlattenSeq(parts) \in Seq(Query) BY <4>8, Joining
      <4>15. Len(FlattenSeq(parts)) \in Nat /\ Len(n.queries) \in Nat /\ MaxBatch \in Nat
        BY <4>5, <4>14, Sizes
      <4>16. Len(FlattenSeq(p)) <= MaxBatch BY <4>3, <4>11, <4>13, <4>15
      <4> QED BY <3>1, <3>2, <4>12, <4>16
    <3>5. CASE PutBack(e) BY <2>3, <3>1, <3>5 DEF PutBack
    <3> QED BY <3>3, <3>4, <3>5 DEF Gather
  <2> QED BY <2>2, <2>3
<1> QED BY <1>3, <1>4, <1>5, <1>6 DEF SearchInv

\* An encoding that ends, however it ends, answers those who wait for it and no others.
LEMMA EndStep ==
    ASSUME SearchInv, NEW e \in Encoders, Encode(e) \/ EncodeRaises(e) \/ Die(e)
    PROVE  SearchInv'
<1>1. QueueType /\ ReplyType /\ CallInv /\ GatherInv BY DEF SearchInv, SearchType
<1>2. /\ QueueType' /\ ReplyType' /\ UNCHANGED <<answer, workerVars>>
      /\ \A f \in Encoders \ {e} :
             joined'[f] = joined[f] /\ pending'[f] = pending[f] /\ queue'[f] = queue[f]
      /\ joined'[e] = <<>> /\ pending'[e] \in {pending[e], <<>>}
      /\ \E m \in 0 .. Len(Held(e)) :
             Held(e)' = SubSeq(Held(e), m + 1, Len(Held(e))) /\ Answers(e, m)
  BY <1>1, EndIs
<1>3. PICK m \in 0 .. Len(Held(e)) :
          Held(e)' = SubSeq(Held(e), m + 1, Len(Held(e))) /\ Answers(e, m)
  BY <1>2
<1>4. SearchType' BY <1>2 DEF SearchInv, SearchType, WorkerType, workerVars
<1>5. UNCHANGED <<pc, batch, todo, found>> BY <1>2 DEF workerVars
<1>6. Len(Held(e)) \in Nat BY <1>1, HeldType
<1>7. \A v \in Workers : WorkerInv(v)'
  <2> SUFFICES ASSUME NEW v \in Workers PROVE WorkerInv(v)' OBVIOUS
  <2>1. WorkerInv(v) BY DEF SearchInv
  <2>2. ReplyInv(v)'
    <3>1. CASE reply'[v] = reply[v] BY <1>5, <2>1, <3>1 DEF WorkerInv, ReplyInv
    <3>2. CASE reply'[v] # reply[v]
      <4>1. PICK i \in 1 .. m :
                /\ Held(e)[i].from = v /\ reply'[v] \in Replies
                /\ reply'[v].raised \/ reply'[v].embeddings = Held(e)[i].queries
        BY <1>3, <3>2 DEF Answers
      <4>2. i \in 1 .. Len(Held(e)) BY <1>6
      <4>3. Awaits(v) /\ Held(e)[i].queries = Prefix(todo[v], BatchSize)
        BY <1>1, <4>1, <4>2 DEF CallInv
      <4> QED BY <1>5, <4>1, <4>3 DEF ReplyInv, Awaits
    <3> QED BY <3>1, <3>2
  <2> QED BY <1>5, <2>1, <2>2, WorkerSame
<1>8. CallInv'
  <2>1. \A f \in Encoders \ {e} : Held(f)' = Held(f) BY <1>2 DEF Held
  <2> QED BY <1>1, <1>3, <1>5, <2>1, CallsAnswered
<1>9. GatherInv'
  <2> SUFFICES ASSUME NEW f \in Encoders
               PROVE  /\ Len(joined'[f]) <= 1 \/ Joined(f)' <= MaxBatch
                      /\ Len(pending'[f]) <= 1
    BY DEF GatherInv
  <2>1. (Len(joined[f]) <= 1 \/ Joined(f) <= MaxBatch) /\ Len(pending[f]) <= 1
    BY <1>1 DEF GatherInv
  <2>2. CASE f # e
    <3>1. joined'[f] = joined[f] /\ pending'[f] = pending[f] BY <1>2, <2>2
    <3>2. Joined(f)' = Joined(f) BY <3>1 DEF Joined, Calls
    <3> QED BY <2>1, <3>1, <3>2
  <2>3. CASE f = e
    <3>1. Len(joined'[f]) <= 1 BY <1>2, <2>3
    <3>2. Len(pending'[f]) <= 1
      <4>1. CASE pending'[f] = pending[f] BY <2>1, <4>1
      <4>2. CASE pending'[f] = <<>> BY <4>2
      <4> QED BY <1>2, <2>3, <4>1, <4>2
    <3> QED BY <3>1, <3>2
  <2> QED BY <2>2, <2>3
<1> QED BY <1>4, <1>7, <1>8, <1>9 DEF SearchInv

-----------------------------------------------------------------------------
\* The invariant holds at the start,
LEMMA SearchStart == Init => SearchInv
<1> SUFFICES ASSUME Init PROVE SearchInv OBVIOUS
<1>1. PICK e : e = <<>> /\ Len(e) = 0 /\ \A T : e \in Seq(T) BY EmptySeq
<1>2. 0 \in Encoders BY Sizes DEF Encoders
<1>3. SearchType
  BY <1>1, <1>2 DEF Init, SearchType, WorkerType, ReplyType, QueueType
<1>4. ASSUME NEW w \in Workers PROVE WorkerInv(w)
  <2>1. /\ pc[w] = "idle" /\ batch[w] = <<>> /\ todo[w] = e /\ found[w] = e /\ reply[w] = None
    BY <1>1 DEF Init
  <2>2. Requested(w) = e BY <1>1, <2>1, NothingRequested DEF Requested
  <2>3. SubSeq(e, 0 + 1, 0) = e
    <3>1. SubSeq(e, 0 + 1, 0) = <<>> BY SubSeqEmpty
    <3> QED BY <1>1, <3>1
  <2>4. SearchedInv(w) BY <1>1, <2>1, <2>2, <2>3 DEF SearchedInv
  <2>5. Len(batch[w]) <= MaxRequests BY <1>1, <2>1, Sizes
  <2> QED BY <2>1, <2>4, <2>5 DEF WorkerInv, ReplyInv
<1>5. ASSUME NEW f \in Encoders
      PROVE  joined[f] = e /\ pending[f] = e /\ queue[f] = e /\ Len(Held(f)) = 0
  <2>1. joined[f] = e /\ pending[f] = e /\ queue[f] = e BY <1>1 DEF Init
  <2>2. e \o e = e BY <1>1, ConcatEmptySeq
  <2> QED BY <1>1, <2>1, <2>2 DEF Held
<1>6. CallInv
  <2>1. \A w \in Workers : ~ Awaits(w) BY DEF Init, Awaits
  <2>2. \A f \in Encoders : 1 .. Len(Held(f)) = {} BY <1>5
  <2> QED BY <2>1, <2>2 DEF CallInv
<1>7. GatherInv BY <1>1, <1>5 DEF GatherInv
<1> QED BY <1>3, <1>4, <1>6, <1>7 DEF SearchInv

\* when nothing happens,
LEMMA SearchIdle == SearchInv /\ UNCHANGED vars => SearchInv'
<1> SUFFICES ASSUME SearchInv, UNCHANGED vars PROVE SearchInv' OBVIOUS
<1> USE DEF vars, workerVars, encoderVars
<1>1. SearchType'
  BY DEF SearchInv, SearchType, WorkerType, ReplyType, QueueType
<1>2. \A v \in Workers : WorkerInv(v)'
  <2> SUFFICES ASSUME NEW v \in Workers PROVE WorkerInv(v)' OBVIOUS
  <2>1. WorkerInv(v) BY DEF SearchInv
  <2>2. ReplyInv(v)' BY <2>1 DEF WorkerInv, ReplyInv
  <2> QED BY <2>1, <2>2, WorkerSame
<1>3. CallInv'
  <2>1. \A e \in Encoders : Held(e)' = Held(e) BY HeldSame
  <2>2. \A v \in Workers : (Awaits(v)' <=> Awaits(v)) /\ todo'[v] = todo[v] BY DEF Awaits
  <2> QED BY <2>1, <2>2, CallsSame DEF SearchInv
<1>4. GatherInv' BY GatherSame DEF SearchInv
<1> QED BY <1>1, <1>2, <1>3, <1>4 DEF SearchInv

\* and after every step.
LEMMA SearchKept == SearchInv /\ [Next]_vars => SearchInv'
<1> SUFFICES ASSUME SearchInv, [Next]_vars PROVE SearchInv' OBVIOUS
<1>1. ASSUME NEW c \in Requests, Leave(c) \/ \E w \in Workers : Arrive(c, w) PROVE SearchInv'
  BY <1>1, RequestStep
<1>2. ASSUME NEW w \in Workers, Work(w) PROVE SearchInv'
  BY <1>2, TakeBatchStep, EncodeChunkStep, SearchStep, DoneStep DEF Work
<1>3. ASSUME NEW e \in Encoders, Gather(e) \/ Encode(e) \/ EncodeRaises(e) \/ Die(e)
      PROVE  SearchInv'
  BY <1>3, GatherStep, EndStep
<1>4. CASE UNCHANGED vars BY <1>4, SearchIdle
<1> QED BY <1>1, <1>2, <1>3, <1>4 DEF Next

\* The calls that wait at the actors are the ones their workers await, each with the queries
\* of its worker's next chunk (shared_encoder.py, pending_requests and request_queue), and
\* every worker has found the documents of the queries it took off, in order.
THEOREM SearchSafety == Spec => []SearchInv
<1>1. Init => SearchInv BY SearchStart
<1>2. SearchInv /\ [Next]_vars => SearchInv' BY SearchKept
<1> QED BY <1>1, <1>2, PTL DEF Spec

-----------------------------------------------------------------------------
(* Every answer is the request's own *)

(* What a request with these documents is promised.                        *)
OwnDocuments(c, docs) ==
    /\ Len(docs) = Size[c]
    /\ \A i \in 1 .. Size[c] :
           /\ Len(docs[i]) <= TopK[c]
           /\ IsPrefix(docs[i], Documents(Queries(c)[i], Len(Urls)))
           /\ IsPrefix(Prefix(Documents(Queries(c)[i], TopK[c]), TopK[c]), docs[i])

\* What a request is cut out of its batch's documents is its own.
LEMMA CutOutIs ==
    ASSUME SearchInv, NEW w \in Workers, todo[w] = <<>>, NEW c \in Requests,
           NEW i \in 1 .. Len(batch[w]), batch[w][i] = c,
           NEW own, own = Slice(found[w], Parts(batch[w]), i),
           NEW docs, docs = [k \in 1 .. Len(own) |-> Prefix(own[k], TopK[c])]
    PROVE  OwnDocuments(c, docs)
<1>1. PICK b, f, r, parts, M : /\ b = batch[w] /\ f = found[w] /\ r = Requested(w)
                               /\ parts = Parts(b) /\ M = MaxTopK(w)
  OBVIOUS
<1>2. /\ b \in Seq(Requests) /\ f \in Seq(Seq(Doc)) /\ Len(f) <= Len(r)
      /\ todo[w] = SubSeq(r, Len(f) + 1, Len(r))
      /\ \A k \in 1 .. Len(f) : f[k] = Documents(r[k], M)
  BY <1>1 DEF SearchInv, SearchType, WorkerType, WorkerInv, SearchedInv
<1>3. i \in 1 .. Len(b) /\ b[i] = c /\ b # <<>> BY <1>1
<1>4. /\ parts \in Seq(Seq(Query)) /\ Len(parts) = Len(b) /\ r = FlattenSeq(parts)
      /\ r \in Seq(Query) /\ parts[i] = Queries(c) /\ Len(parts[i]) = Size[c]
  BY <1>1, <1>2, <1>3, PartsAre DEF Requested
<1>5. M \in Nat /\ TopK[c] <= M /\ TopK[c] \in Nat /\ Size[c] \in Nat
  BY <1>1, <1>2, <1>3, MaxTopKIs, Sizes
<1>6. Len(f) \in Nat /\ Len(r) \in Nat BY <1>2, <1>4, SMTT(30)
<1>7. Len(f) = Len(r)
  <2>1. PICK t : t = SubSeq(r, Len(f) + 1, Len(r)) OBVIOUS
  <2>2. Len(t) = Len(r) - Len(f) BY <1>2, <1>4, <1>6, <2>1, Rest
  <2>3. Len(t) = 0 BY <1>2, <2>1
  <2> QED BY <1>6, <2>2, <2>3
<1>8. PICK start : start = Start(parts, i) OBVIOUS
<1>9. i \in 1 .. Len(parts) BY <1>3, <1>4
<1>10. /\ start \in Nat /\ start + Size[c] <= Len(f)
       /\ \A k \in 1 .. Size[c] : r[start + k] = Queries(c)[k]
  <2>1. /\ Start(parts, i) \in Nat /\ Start(parts, i) + Len(parts[i]) <= Len(FlattenSeq(parts))
        /\ \A k \in 1 .. Len(parts[i]) :
               FlattenSeq(parts)[Start(parts, i) + k] = parts[i][k]
    BY <1>4, <1>9, Joining, SMTT(30)
  <2> QED BY <1>4, <1>7, <1>8, <2>1
<1>11. own = SubSeq(f, start + 1, start + Size[c]) BY <1>1, <1>4, <1>8 DEF Slice, Start
<1>12. own \in Seq(Seq(Doc)) /\ Len(own) = Size[c] /\ \A k \in 1 .. Size[c] : own[k] = f[start + k]
  <2>1. \A k \in start + 1 .. start + Size[c] : f[k] \in Seq(Doc) BY <1>2, <1>5, <1>6, <1>10
  <2>2. /\ own \in Seq(Seq(Doc))
        /\ Len(own) = IF start + 1 <= start + Size[c]
                      THEN (start + Size[c]) - (start + 1) + 1 ELSE 0
        /\ \A k \in 1 .. (start + Size[c]) - (start + 1) + 1 : own[k] = f[(start + 1) + k - 1]
    BY <1>5, <1>10, <1>11, <2>1, SubSeqProperties, SMTT(30)
  <2>3. ASSUME NEW k \in 1 .. Size[c] PROVE own[k] = f[start + k]
    <3>1. k \in 1 .. (start + Size[c]) - (start + 1) + 1 /\ (start + 1) + k - 1 = start + k
      BY <1>5, <1>10, SMTT(30)
    <3> QED BY <2>2, <3>1
  <2> QED BY <1>5, <1>10, <2>2, <2>3
<1>13. ASSUME NEW k \in 1 .. Size[c]
       PROVE  Queries(c)[k] \in Query /\ docs[k] = Prefix(Documents(Queries(c)[k], M), TopK[c])
  <2>1. start + k \in 1 .. Len(f) BY <1>5, <1>6, <1>10, SMTT(30)
  <2>2. r[start + k] \in Query /\ r[start + k] = Queries(c)[k] BY <1>4, <1>7, <1>10, <2>1
  <2>3. own[k] = Documents(Queries(c)[k], M) BY <1>2, <1>12, <2>1, <2>2
  <2>4. docs[k] = Prefix(own[k], TopK[c]) BY <1>12
  <2> QED BY <2>2, <2>3, <2>4
<1>14. ASSUME NEW k \in 1 .. Size[c]
       PROVE  /\ Len(docs[k]) <= TopK[c]
              /\ IsPrefix(docs[k], Documents(Queries(c)[k], Len(Urls)))
              /\ IsPrefix(Prefix(Documents(Queries(c)[k], TopK[c]), TopK[c]), docs[k])
  <2>1. PICK query, d : query = Queries(c)[k] /\ d = docs[k] OBVIOUS
  <2>2. query \in Query /\ d = Prefix(Documents(query, M), TopK[c]) BY <1>13, <2>1
  <2>3. /\ Len(d) <= TopK[c] /\ IsPrefix(d, Documents(query, Len(Urls)))
        /\ IsPrefix(Prefix(Documents(query, TopK[c]), TopK[c]), d)
    BY <1>5, <2>2, DocumentsAre
  <2> QED BY <2>1, <2>3
<1>15. Len(docs) = Size[c] BY <1>5, <1>12
<1> QED BY <1>14, <1>15 DEF OwnDocuments

(* However a request ended.                                                *)
EndedWell(c, a) == a # None /\ a.how = "result" => OwnDocuments(c, a.docs)

\* The property, request by request.
LEMMA OwnIs == AnswersAreOwn <=> \A c \in Requests : EndedWell(c, answer[c])
BY DEF AnswersAreOwn, EndedWell, OwnDocuments

\* Requests that a worker's batch does not answer keep what they have.
LEMMA AnswerIs ==
    ASSUME SearchInv, NEW w \in Workers, Answer(w), NEW c \in Requests, EndedWell(c, answer[c])
    PROVE  EndedWell(c, answer'[c])
<1>1. PICK b : b = batch[w] OBVIOUS
<1>2. b \in Seq(Requests) BY <1>1 DEF SearchInv, SearchType, WorkerType
<1>3. CASE ~ (Contains(b, c) /\ answer[c] = None)
  <2>1. answer'[c] = answer[c] BY <1>1, <1>3 DEF Answer, Resolve
  <2> QED BY <2>1
<1>4. CASE Contains(b, c) /\ answer[c] = None
  <2>1. PICK I : I = {i \in 1 .. Len(b) : b[i] = c} OBVIOUS
  <2>2. I # {} /\ I \subseteq Nat BY <1>2, <1>4, <2>1 DEF Contains
  <2>3. PICK i : i = Min(I) OBVIOUS
  <2>4. i \in 1 .. Len(b) /\ b[i] = c
    <3>1. i \in I BY <2>2, <2>3, LeastIs
    <3> QED BY <2>1, <3>1
  <2>5. PICK own : own = Slice(found[w], Parts(b), i) OBVIOUS
  <2>6. PICK docs : docs = [k \in 1 .. Len(own) |-> Prefix(own[k], TopK[c])] OBVIOUS
  <2>7. c \in ToSet(b) BY <1>2, <2>4 DEF ToSet
  <2>8. answer'[c] = Ended("result", docs)
    BY <1>1, <1>4, <2>1, <2>2, <2>3, <2>5, <2>6, <2>7 DEF Answer, Resolve, SelectInSeq
  <2>9. todo[w] = <<>> BY DEF Answer
  <2>10. OwnDocuments(c, docs) BY <1>1, <2>4, <2>5, <2>6, <2>9, CutOutIs
  <2>11. answer'[c].docs = docs BY <2>8 DEF Ended
  <2> QED BY <2>10, <2>11 DEF EndedWell
<1> QED BY <1>3, <1>4

\* No step spoils an answer; the one that answers cuts out the right documents.
LEMMA OwnKept == SearchInv /\ AnswersAreOwn /\ [Next]_vars => AnswersAreOwn'
<1> SUFFICES ASSUME SearchInv, \A c \in Requests : EndedWell(c, answer[c]), [Next]_vars,
                    NEW c \in Requests
             PROVE  EndedWell(c, answer'[c])
  <2>1. AnswersAreOwn' <=> \A c \in Requests : EndedWell(c, answer'[c])
    BY DEF AnswersAreOwn, EndedWell, OwnDocuments
  <2> QED BY <2>1, OwnIs
<1>1. EndedWell(c, answer[c]) /\ DOMAIN answer = Requests BY DEF SearchInv, SearchType
<1>2. CASE answer' = answer BY <1>1, <1>2
<1>3. ASSUME NEW d \in Requests, Leave(d) PROVE EndedWell(c, answer'[c])
  <2>1. answer' = [answer EXCEPT ![d] = Ended("left", <<>>)] BY <1>3 DEF Leave
  <2>2. CASE d = c
    <3>1. answer'[c].how = "left" BY <1>1, <2>1, <2>2 DEF Ended
    <3> QED BY <3>1 DEF EndedWell
  <2>3. CASE d # c
    <3>1. answer'[c] = answer[c] BY <2>1, <2>3
    <3> QED BY <1>1, <3>1
  <2> QED BY <2>2, <2>3
<1>4. ASSUME NEW w \in Workers, Answer(w) PROVE EndedWell(c, answer'[c])
  BY <1>1, <1>4, AnswerIs
<1>5. ASSUME NEW w \in Workers, BatchFails(w) PROVE EndedWell(c, answer'[c])
  <2>1. CASE ~ (Contains(batch[w], c) /\ answer[c] = None)
    <3>1. answer'[c] = answer[c] BY <1>5, <2>1 DEF BatchFails, Resolve
    <3> QED BY <1>1, <3>1
  <2>2. CASE Contains(batch[w], c) /\ answer[c] = None
    <3>1. c \in ToSet(batch[w])
      BY <2>2 DEF Contains, ToSet, SearchInv, SearchType, WorkerType
    <3>2. answer'[c] = Ended("error", <<>>) BY <1>5, <2>2, <3>1 DEF BatchFails, Resolve
    <3>3. answer'[c].how = "error" BY <3>2 DEF Ended
    <3> QED BY <3>3 DEF EndedWell
  <2> QED BY <2>1, <2>2
<1>6. ASSUME NEW d \in Requests, NEW w \in Workers, Arrive(d, w) PROVE answer' = answer
  BY <1>6 DEF Arrive
<1>7. ASSUME NEW w \in Workers, TakeBatch(w) \/ EncodeChunk(w) \/ Search(w)
      PROVE  answer' = answer
  BY <1>7 DEF TakeBatch, EncodeChunk, Search
<1>8. ASSUME NEW e \in Encoders, Gather(e) \/ Encode(e) \/ EncodeRaises(e) \/ Die(e)
      PROVE  answer' = answer
  BY <1>8 DEF Gather, Begin, Join, PutBack, Encode, EncodeRaises, Encoded, Die
<1>9. CASE UNCHANGED vars BY <1>2, <1>9 DEF vars
<1> QED BY <1>2, <1>3, <1>4, <1>5, <1>6, <1>7, <1>8, <1>9 DEF Next, Work

\* Batched twice and cut twice, a request gets the documents of its own queries, in order,
\* whatever else was in its batches and whoever failed (batching_worker, _batching_loop).
THEOREM OwnAnswers == Spec => []AnswersAreOwn
<1>1. Init => AnswersAreOwn BY DEF Init, AnswersAreOwn
<1>2. SearchInv /\ AnswersAreOwn /\ [Next]_vars => AnswersAreOwn' BY OwnKept
<1> QED BY <1>1, <1>2, SearchSafety, PTL DEF Spec

-----------------------------------------------------------------------------
\* An actor holds one call of a worker at most.
LEMMA FewCalls ==
    ASSUME SearchInv, NEW e \in Encoders
    PROVE  Len(Held(e)) <= Cardinality(Workers) /\ Cardinality(Workers) \in Nat
<1>1. Len(Held(e)) \in Nat /\ \A i \in 1 .. Len(Held(e)) : Held(e)[i].from \in Workers
  BY HeldType, CallerIs DEF SearchInv, SearchType
<1>2. PICK n, f : n = Len(Held(e)) /\ f = [i \in 1 .. n |-> Held(e)[i].from] OBVIOUS
<1>3. f \in [1 .. n -> Workers] /\ \A i, j \in 1 .. n : f[i] = f[j] => i = j
  BY <1>1, <1>2 DEF SearchInv, CallInv
<1>4. f \in Injection(1 .. n, Workers) BY <1>3 DEF Injection, IsInjective
<1>5. Cardinality(1 .. n) <= Cardinality(Workers)
  BY <1>4, WorkersAssumption, FS_Injection
<1>6. n \in Int /\ 1 \in Int BY <1>1, <1>2
<1>7. Cardinality(1 .. n) = IF 1 > n THEN 0 ELSE n - 1 + 1 BY <1>6, FS_Interval
<1>8. Cardinality(1 .. n) = n BY <1>1, <1>2, <1>7
<1>9. Cardinality(Workers) \in Nat BY WorkersAssumption, FS_CardinalityType
<1> QED BY <1>2, <1>5, <1>8, <1>9

\* Whatever the numbers of workers and actors: a batch of several calls stays within its
\* size, at most one call is put back, and an encoding worker waits for exactly one call.
THEOREM TypeCorrect == Spec => []TypeOK
<1>1. ASSUME SearchInv PROVE TypeOK
  <2>1. \A w \in Workers :
            /\ pc[w] \in {"idle", "searching", "encoding"} /\ next[w] \in Encoders
            /\ Len(batch[w]) <= MaxRequests /\ (pc[w] = "idle" <=> batch[w] = <<>>)
    BY <1>1 DEF SearchInv, SearchType, WorkerType, WorkerInv
  <2>2. \A e \in Encoders :
            /\ Len(joined[e]) <= 1 \/ Joined(e) <= MaxBatch
            /\ Len(pending[e]) <= 1 /\ Len(Held(e)) <= Cardinality(Workers)
    BY <1>1, FewCalls DEF SearchInv, GatherInv
  <2>3. ASSUME NEW w \in Workers
        PROVE  Cardinality({at \in Encoders \X (1 .. Cardinality(Workers)) :
                           at[2] <= Len(Held(at[1])) /\ Held(at[1])[at[2]].from = w})
                   = IF pc[w] = "encoding" /\ reply[w] = None THEN 1 ELSE 0
    <3>1. PICK S : S = {at \in Encoders \X (1 .. Cardinality(Workers)) :
                            at[2] <= Len(Held(at[1])) /\ Held(at[1])[at[2]].from = w}
      OBVIOUS
    <3>2. ASSUME NEW at \in S
          PROVE  /\ at = <<at[1], at[2]>> /\ at[1] \in Encoders
                 /\ at[2] \in 1 .. Len(Held(at[1])) /\ Held(at[1])[at[2]].from = w
      <4>1. /\ at = <<at[1], at[2]>> /\ at[1] \in Encoders
            /\ at[2] \in 1 .. Cardinality(Workers) /\ at[2] <= Len(Held(at[1]))
            /\ Held(at[1])[at[2]].from = w
        BY <3>1
      <4>2. Len(Held(at[1])) \in Nat BY <1>1, <4>1, HeldType DEF SearchInv, SearchType
      <4> QED BY <4>1, <4>2
    <3>3. CASE Awaits(w)
      <4>1. PICK e \in Encoders : \E i \in 1 .. Len(Held(e)) : Held(e)[i].from = w
        BY <1>1, <3>3 DEF SearchInv, CallInv
      <4>2. PICK i \in 1 .. Len(Held(e)) : Held(e)[i].from = w BY <4>1
      <4>3. i <= Len(Held(e)) /\ i \in 1 .. Cardinality(Workers)
        <5>1. Len(Held(e)) \in Nat BY <1>1, HeldType DEF SearchInv, SearchType
        <5> QED BY <1>1, <5>1, FewCalls
      <4>4. PICK p : p = <<e, i>> OBVIOUS
      <4>5. p \in S BY <3>1, <4>2, <4>3, <4>4
      <4>6. ASSUME NEW at \in S PROVE at = p
        <5>1. at[1] = e /\ at[2] = i BY <1>1, <3>2, <4>2 DEF SearchInv, CallInv
        <5> QED BY <3>2, <4>4, <5>1
      <4>7. S = {p} BY <4>5, <4>6
      <4>8. Cardinality({p}) = 1 BY FS_Singleton
      <4> QED BY <3>1, <3>3, <4>7, <4>8 DEF Awaits
    <3>4. CASE ~ Awaits(w)
      <4>1. ASSUME NEW at \in S PROVE FALSE
        BY <1>1, <3>2, <3>4 DEF SearchInv, CallInv
      <4>2. S = {} BY <4>1
      <4>3. Cardinality({}) = 0 BY FS_EmptySet
      <4> QED BY <3>1, <3>4, <4>2, <4>3 DEF Awaits
    <3> QED BY <3>3, <3>4
  <2>4. dead \subseteq Encoders BY <1>1 DEF SearchInv, SearchType, QueueType
  <2> QED BY <2>1, <2>2, <2>3, <2>4 DEF TypeOK
<1> QED BY <1>1, SearchSafety, PTL
==============================================================================
