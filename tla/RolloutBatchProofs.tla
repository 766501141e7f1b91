------------------------- MODULE RolloutBatchProofs -------------------------
(***************************************************************************)
(* Theorems about RolloutBatch for every number of prompts, sessions and   *)
(* runners, with proofs checked by TLAPS.                                  *)
(***************************************************************************)
EXTENDS RolloutBatch, FiniteSetTheorems, TLAPS

-----------------------------------------------------------------------------
(* The inductive invariant *)

KeysOf(p, S) == {key \in S : key[1] = p}

(* What the sessions before the n-th should have left in the queue.        *)
Written(p, n) == UNION {Keys(p, i, output[p][i]) : i \in 0 .. n - 1}

(* Only a session that returned has trajectories.                          *)
OutputInv ==
    \A p \in Prompts, i \in Sessions : session[p][i] # "returned" => output[p][i] = 0

(* The loop runs after gather, and the tag is the end of it.               *)
ProgressInv ==
    \A p \in Prompts :
        /\ cursor[p] > 0 => \A i \in Sessions : session[p][i] \in Over
        /\ tag[p] # None => cursor[p] = N /\ prompt[p] # "open"

(* A prompt whose task goes on, or got to its tag, has lost no put.        *)
Sound(p) == prompt[p] = "open" \/ tag[p] # None

(* A prompt's keys are those of the outcomes the loop is past.             *)
WrittenInv ==
    \A p \in Prompts : Sound(p) => KeysOf(p, queue) = Written(p, cursor[p])

(* The count of successes, and so the tag, says if there are any.          *)
StatusInv ==
    \A p \in Prompts :
        /\ Sound(p) => (counts[p].success > 0 <=> KeysOf(p, queue) # {})
        /\ tag[p] # None => tag[p] = Status(p)

(* The replica has all keys of a uid whose tag it has.                     *)
SeenInv ==
    \A p \in Prompts : seen.status[p] \in Tagged =>
        tag[p] # None /\ KeysOf(p, seen.keys) = KeysOf(p, queue)

(* Marked uids stay known.                                                 *)
MarkedInv == marked => \A p \in Prompts : seen.status[p] # None

SampledInv ==
    marked /\ trainer = "sampled" =>
        \A p \in Prompts : tag[p] # None /\ KeysOf(p, sample) = KeysOf(p, queue)

BatchInv ==
    /\ TypeOK /\ OutputInv /\ ProgressInv /\ WrittenInv /\ StatusInv
    /\ SeenInv /\ MarkedInv /\ SampledInv

-----------------------------------------------------------------------------
(* Keys *)

\* The keys of a session are keys of its prompt, and there are some if it has
\* trajectories.
LEMMA KeysType ==
    ASSUME NEW p \in Prompts, NEW i \in Sessions, NEW k \in Nat
    PROVE  /\ Keys(p, i, k) \subseteq AllKeys
           /\ KeysOf(p, Keys(p, i, k)) = Keys(p, i, k)
           /\ \A q : q # p => KeysOf(q, Keys(p, i, k)) = {}
           /\ k > 0 <=> Keys(p, i, k) # {}
<1>1. Keys(p, i, k) \subseteq AllKeys BY DEF Keys, AllKeys
<1>2. \A key \in Keys(p, i, k) : key[1] = p BY DEF Keys
<1>3. k > 0 => <<p, i, 0>> \in Keys(p, i, k) BY DEF Keys
<1>4. k = 0 => Keys(p, i, k) = {} BY DEF Keys
<1> QED BY <1>1, <1>2, <1>3, <1>4 DEF KeysOf

\* The loop passes one more outcome.
LEMMA WrittenNext ==
    ASSUME NEW p, NEW n \in Nat
    PROVE  Written(p, n + 1) = Written(p, n) \cup Keys(p, n, output[p][n])
<1>1. 0 .. (n + 1) - 1 = (0 .. n - 1) \cup {n} OBVIOUS
<1> QED BY <1>1 DEF Written

\* Before the first outcome nothing is written.
LEMMA WrittenNothing == ASSUME NEW p PROVE Written(p, 0) = {}
BY DEF Written

\* What is written depends on the outputs only.
LEMMA WrittenSame ==
    ASSUME NEW p, NEW n, output'[p] = output[p]
    PROVE  UNION {Keys(p, i, output'[p][i]) : i \in 0 .. n - 1} = Written(p, n)
BY DEF Written

-----------------------------------------------------------------------------
(* Sums over finite sets.  The library's induction theorems take a         *)
(* predicate; these take the set of what satisfies it.                     *)

\* Induction on the natural numbers: their order is well-founded.
LEMMA Induction ==
    ASSUME NEW G, 0 \in G, \A n \in Nat : n \in G => n + 1 \in G
    PROVE  Nat \subseteq G
<1> SUFFICES ASSUME NEW T, T = Nat \ G, T # {} PROVE FALSE OBVIOUS
<1>1. PICK R : R = {p \in Nat \X Nat : p[1] < p[2]} OBVIOUS
<1>2. IsWellFoundedOn(R, Nat) BY <1>1, NatLessThanWellFounded DEF OpToRel
<1>3. PICK n \in T : \A m \in T : ~ (<<m, n>> \in R) BY <1>2, WFMin
<1>4. n \in Nat \ {0} /\ n - 1 \in Nat /\ (n - 1) + 1 = n OBVIOUS
<1>5. <<n - 1, n>> \in R BY <1>1, <1>4
<1>6. n - 1 \in G BY <1>3, <1>4, <1>5
<1> QED BY <1>4, <1>6

\* The element that a fold takes next.
Pick(s) == CHOOSE x \in s : TRUE

\* A finite set's subsets have sizes, and all but the empty one an element less to go.
LEMMA Sizes ==
    ASSUME NEW S, IsFiniteSet(S)
    PROVE  \E size \in [SUBSET S -> Nat], rest \in [SUBSET S -> SUBSET S] :
               \A s \in SUBSET S :
                   /\ size[s] <= size[S]
                   /\ rest[s] = s \ {Pick(s)}
                   /\ size[s] = 0 <=> s = {}
                   /\ s # {} => size[rest[s]] = size[s] - 1
<1>1. ASSUME NEW s \in SUBSET S PROVE IsFiniteSet(s) /\ Cardinality(s) \in Nat
  BY FS_Subset, FS_CardinalityType
<1>2. ASSUME NEW s \in SUBSET S PROVE Cardinality(s) = 0 <=> s = {}
  <2>1. IsFiniteSet(s) BY <1>1
  <2> QED BY <2>1, FS_EmptySet, Zenon
<1>3. ASSUME NEW s \in SUBSET S, s # {}
      PROVE  Cardinality(s \ {Pick(s)}) = Cardinality(s) - 1
  <2>1. Pick(s) \in s BY <1>3 DEF Pick
  <2>2. IsFiniteSet(s) BY <1>1
  <2>3. Cardinality(s \ {Pick(s)})
          = IF Pick(s) \in s THEN Cardinality(s) - 1 ELSE Cardinality(s)
    BY <2>2, FS_RemoveElement, Zenon
  <2> QED BY <2>1, <2>3
<1>4. PICK size : size = [s \in SUBSET S |-> Cardinality(s)] OBVIOUS
<1>5. PICK rest : rest = [s \in SUBSET S |-> s \ {Pick(s)}] OBVIOUS
<1>6. size \in [SUBSET S -> Nat] BY <1>1, <1>4
<1>7. \A s \in SUBSET S : s \ {Pick(s)} \in SUBSET S OBVIOUS
<1>8. rest \in [SUBSET S -> SUBSET S] BY <1>5, <1>7
<1>9. ASSUME NEW s \in SUBSET S
      PROVE  /\ size[s] <= size[S]
             /\ rest[s] = s \ {Pick(s)}
             /\ size[s] = 0 <=> s = {}
             /\ s # {} => size[rest[s]] = size[s] - 1
  <2>1. rest[s] = s \ {Pick(s)} BY <1>5
  <2>2. size[s] = Cardinality(s) BY <1>4
  <2>3. size[s \ {Pick(s)}] = Cardinality(s \ {Pick(s)}) BY <1>4, <1>7
  <2>4. size[S] = Cardinality(S) BY <1>4
  <2>5. Cardinality(s) <= Cardinality(S) BY FS_Subset
  <2> QED BY <1>2, <1>3, <2>1, <2>2, <2>3, <2>4, <2>5
<1> QED BY <1>6, <1>8, <1>9

\* Induction on the subsets of a finite set, an element at a time.
LEMMA SubsetInduction ==
    ASSUME NEW S, IsFiniteSet(S), NEW G, {} \in G,
           \A s \in SUBSET S : s # {} /\ s \ {Pick(s)} \in G => s \in G
    PROVE  SUBSET S \subseteq G
<1>1. PICK size \in [SUBSET S -> Nat], rest \in [SUBSET S -> SUBSET S] :
          \A s \in SUBSET S :
              /\ size[s] <= size[S]
              /\ rest[s] = s \ {Pick(s)}
              /\ size[s] = 0 <=> s = {}
              /\ s # {} => size[rest[s]] = size[s] - 1
  BY Sizes
<1>2. PICK L : L = {n \in Nat : \A s \in SUBSET S : size[s] = n => s \in G} OBVIOUS
<1>3. 0 \in L BY <1>1, <1>2
<1>4. ASSUME NEW n \in Nat, n \in L, NEW s \in SUBSET S, size[s] = n + 1
      PROVE  s \in G
  <2>1. s # {} /\ rest[s] \in SUBSET S /\ size[rest[s]] = n BY <1>1, <1>4
  <2>2. rest[s] \in G BY <1>2, <1>4, <2>1
  <2> QED BY <1>1, <2>1, <2>2
<1>5. \A n \in Nat : n \in L => n + 1 \in L BY <1>2, <1>4
<1>6. Nat \subseteq L BY <1>3, <1>5, Induction
<1> QED BY <1>1, <1>2, <1>6

\* The sums of f over the subsets of S, as the fold computes them.
IsSum(g, f, S) ==
    g = [s \in SUBSET S |-> IF s = {} THEN 0 ELSE f[Pick(s)] + g[s \ {Pick(s)}]]

\* The fold is defined: there is a function that satisfies its equation.
LEMMA SumExists ==
    ASSUME NEW S, IsFiniteSet(S), NEW f
    PROVE  \E g : IsSum(g, f, S)
<1>1. PICK size \in [SUBSET S -> Nat], rest \in [SUBSET S -> SUBSET S] :
          \A s \in SUBSET S :
              /\ size[s] <= size[S]
              /\ rest[s] = s \ {Pick(s)}
              /\ size[s] = 0 <=> s = {}
              /\ s # {} => size[rest[s]] = size[s] - 1
  BY Sizes
<1>2. PICK first : first = [s \in SUBSET S |-> f[Pick(s)]] OBVIOUS
<1> DEFINE Right(g, n) ==
               \A s \in SUBSET S : size[s] <= n =>
                   g[s] = IF s = {} THEN 0 ELSE first[s] + g[rest[s]]
           Has(n) == \E g : Right(g, n)
<1>3. PICK L : L = {n \in Nat : Has(n)} OBVIOUS
<1>4. 0 \in L
  <2>1. PICK g : g = [s \in SUBSET S |-> 0] OBVIOUS
  <2>2. Right(g, 0) BY <1>1, <2>1
  <2>3. Has(0) BY <2>2
  <2> HIDE DEF Has
  <2> QED BY <1>3, <2>3
<1>5. ASSUME NEW n \in Nat, NEW g, Right(g, n) PROVE Has(n + 1)
  <2>1. PICK h : h = [s \in SUBSET S |-> IF size[s] <= n THEN g[s] ELSE first[s] + g[rest[s]]]
    OBVIOUS
  <2>2. ASSUME NEW s \in SUBSET S, size[s] <= n + 1
        PROVE  h[s] = IF s = {} THEN 0 ELSE first[s] + h[rest[s]]
    <3>1. rest[s] \in SUBSET S /\ (s # {} => size[rest[s]] <= n) BY <1>1, <2>2
    <3>2. s # {} => h[rest[s]] = g[rest[s]] BY <2>1, <3>1
    <3>3. CASE size[s] <= n
      <4>1. h[s] = g[s] BY <2>1, <3>3
      <4>2. g[s] = IF s = {} THEN 0 ELSE first[s] + g[rest[s]] BY <1>5, <3>3
      <4> QED BY <3>2, <4>1, <4>2
    <3>4. CASE ~ (size[s] <= n)
      <4>1. s # {} BY <1>1, <3>4
      <4>2. h[s] = first[s] + g[rest[s]] BY <2>1, <3>4
      <4> QED BY <3>2, <4>1, <4>2
    <3> QED BY <3>3, <3>4
  <2>3. Right(h, n + 1) BY <2>2
  <2> QED BY <2>3
<1>6. \A n \in Nat : n \in L => n + 1 \in L
  <2>1. \A n \in Nat : Has(n) => Has(n + 1) BY <1>5, ZenonT(40)
  <2> HIDE DEF Has
  <2> QED BY <1>3, <2>1
<1>7. Nat \subseteq L BY <1>4, <1>6, Induction
<1>8. PICK g : Right(g, size[S])
  <2>1. size[S] \in L BY <1>1, <1>7
  <2>2. Has(size[S])
    <3> HIDE DEF Has
    <3> QED BY <1>3, <2>1
  <2> QED BY <2>2
<1>9. PICK h : h = [s \in SUBSET S |-> g[s]] OBVIOUS
<1>10. \A s \in SUBSET S : h[s] = IF s = {} THEN 0 ELSE f[Pick(s)] + h[s \ {Pick(s)}]
  <2> SUFFICES ASSUME NEW s \in SUBSET S
               PROVE  h[s] = IF s = {} THEN 0 ELSE f[Pick(s)] + h[s \ {Pick(s)}]
    OBVIOUS
  <2>1. h[s] = IF s = {} THEN 0 ELSE first[s] + g[rest[s]] BY <1>1, <1>8, <1>9
  <2>2. h[rest[s]] = g[rest[s]] BY <1>1, <1>9
  <2>3. first[s] = f[Pick(s)] /\ rest[s] = s \ {Pick(s)} BY <1>1, <1>2
  <2> QED BY <2>1, <2>2, <2>3
<1>11. h = [s \in SUBSET S |-> h[s]] BY <1>9
<1>12. IsSum(h, f, S) BY <1>10, <1>11 DEF IsSum
<1> QED BY <1>12

\* What a sum is on the empty set, and on a set with one element more.
LEMMA SumStep ==
    ASSUME NEW S, NEW f, NEW g, IsSum(g, f, S)
    PROVE  /\ g[{}] = 0
           /\ \A s \in SUBSET S : s # {} =>
                  /\ Pick(s) \in s /\ s \ {Pick(s)} \in SUBSET S
                  /\ g[s] = f[Pick(s)] + g[s \ {Pick(s)}]
<1>1. ASSUME NEW s \in SUBSET S, s # {}
      PROVE  /\ Pick(s) \in s /\ s \ {Pick(s)} \in SUBSET S
             /\ g[s] = f[Pick(s)] + g[s \ {Pick(s)}]
  <2>1. Pick(s) \in s BY <1>1 DEF Pick
  <2> QED BY <1>1, <2>1 DEF IsSum
<1>2. g[{}] = 0 BY DEF IsSum
<1> QED BY <1>1, <1>2

\* A sum of natural numbers is one.
LEMMA SumType ==
    ASSUME NEW S, IsFiniteSet(S), NEW f \in [S -> Nat], NEW g, IsSum(g, f, S)
    PROVE  \A s \in SUBSET S : g[s] \in Nat
<1>1. PICK G : G = {s \in SUBSET S : g[s] \in Nat} OBVIOUS
<1>2. {} \in G BY <1>1, SumStep
<1>3. ASSUME NEW s \in SUBSET S, s # {}, s \ {Pick(s)} \in G PROVE s \in G
  <2>1. Pick(s) \in s /\ g[s] = f[Pick(s)] + g[s \ {Pick(s)}] BY <1>3, SumStep
  <2>2. f[Pick(s)] \in Nat BY <2>1
  <2>3. g[s \ {Pick(s)}] \in Nat BY <1>1, <1>3
  <2> QED BY <1>1, <2>1, <2>2, <2>3
<1> QED BY <1>1, <1>2, <1>3, SubsetInduction

\* Sums of two functions add up to the sum of the function that adds them.
LEMMA SumOfTwo ==
    ASSUME NEW S, IsFiniteSet(S), NEW a \in [S -> Nat], NEW b \in [S -> Nat],
           NEW c \in [S -> Nat], \A x \in S : a[x] + b[x] = c[x],
           NEW A, NEW B, NEW C, IsSum(A, a, S), IsSum(B, b, S), IsSum(C, c, S)
    PROVE  A[S] + B[S] = C[S]
<1>1. PICK G : G = {s \in SUBSET S : A[s] + B[s] = C[s]} OBVIOUS
<1>2. A[{}] = 0 /\ B[{}] = 0 /\ C[{}] = 0 BY SumStep
<1>3. {} \in G BY <1>1, <1>2
<1>4. ASSUME NEW s \in SUBSET S, s # {}, s \ {Pick(s)} \in G PROVE s \in G
  <2>1. PICK x, r : x = Pick(s) /\ r = s \ {Pick(s)} OBVIOUS
  <2>2. A[s] = a[x] + A[r] BY <1>4, <2>1, ZenonT(40) DEF IsSum
  <2>3. B[s] = b[x] + B[r] BY <1>4, <2>1 DEF IsSum
  <2>4. C[s] = c[x] + C[r] BY <1>4, <2>1 DEF IsSum
  <2>5. x \in S /\ r \in SUBSET S BY <1>4, <2>1, SumStep
  <2>6. A[r] \in Nat /\ B[r] \in Nat /\ C[r] \in Nat BY <2>5, SumType
  <2>7. A[r] + B[r] = C[r] BY <1>1, <1>4, <2>1
  <2>8. a[x] \in Nat /\ b[x] \in Nat /\ c[x] = a[x] + b[x] BY <2>5
  <2> QED BY <1>1, <2>2, <2>3, <2>4, <2>6, <2>7, <2>8
<1>5. S \in G BY <1>3, <1>4, SubsetInduction
<1> QED BY <1>1, <1>5

\* Things counted by what they belong to: the sum is their number.
LEMMA SumCounts ==
    ASSUME NEW S, IsFiniteSet(S), NEW T, IsFiniteSet(T), NEW h \in [T -> S],
           NEW c \in [S -> Nat], \A x \in S : c[x] = Cardinality({t \in T : h[t] = x}),
           NEW C, IsSum(C, c, S)
    PROVE  C[S] = Cardinality(T)
<1> DEFINE Of(s) == {t \in T : h[t] \in s}
<1>1. PICK G : G = {s \in SUBSET S : C[s] = Cardinality(Of(s))} OBVIOUS
<1>2. {} \in G
  <2>1. Of({}) = {} OBVIOUS
  <2>2. Cardinality(Of({})) = 0 BY <2>1, FS_EmptySet
  <2>3. C[{}] = 0 BY SumStep
  <2> QED BY <1>1, <2>2, <2>3
<1>3. ASSUME NEW s \in SUBSET S, s # {}, s \ {Pick(s)} \in G PROVE s \in G
  <2>1. PICK x, r : x = Pick(s) /\ r = s \ {Pick(s)} OBVIOUS
  <2>2. C[s] = c[x] + C[r] BY <1>3, <2>1, SumStep
  <2>3. x \in s /\ x \in S /\ r \in SUBSET S BY <1>3, <2>1, SumStep
  <2>4. PICK one : one = {t \in T : h[t] = x} OBVIOUS
  <2>5. PICK others, both : others = Of(r) /\ both = Of(s) OBVIOUS
  <2>6. one \in SUBSET T /\ others \in SUBSET T /\ both = one \cup others
        /\ one \cap others = {}
    BY <2>1, <2>3, <2>4, <2>5
  <2>7. IsFiniteSet(one) /\ IsFiniteSet(others) BY <2>6, FS_Subset
  <2>8. Cardinality(one) \in Nat /\ Cardinality(others) \in Nat
    BY <2>7, FS_CardinalityType
  <2>9. Cardinality(one \cap others) = 0 BY <2>6, FS_EmptySet
  <2>10. Cardinality(one \cup others)
           = Cardinality(one) + Cardinality(others) - Cardinality(one \cap others)
    BY <2>7, FS_Union
  <2>11. Cardinality(both) = Cardinality(one) + Cardinality(others)
    BY <2>6, <2>8, <2>9, <2>10
  <2>12. c[x] = Cardinality(one) BY <2>3, <2>4
  <2>13. C[r] = Cardinality(others) BY <1>1, <1>3, <2>1, <2>5
  <2> QED BY <1>1, <2>2, <2>5, <2>11, <2>12, <2>13
<1>4. S \in G BY <1>2, <1>3, SubsetInduction
<1>5. Of(S) = T OBVIOUS
<1> QED BY <1>1, <1>4, <1>5
\* The totals are sums over the prompts.
LEMMA TotalsAre ==
    \E a, b, c, d :
        /\ IsSum(a, [p \in Prompts |-> Contribution(p).success], Prompts)
        /\ IsSum(b, [p \in Prompts |-> Contribution(p).failed], Prompts)
        /\ IsSum(c, [p \in Prompts |-> Contribution(p).outputs], Prompts)
        /\ IsSum(d, [p \in Prompts |-> Contribution(p).failed_uids], Prompts)
        /\ Totals.success = a[Prompts] /\ Totals.failed = b[Prompts]
        /\ Totals.outputs = c[Prompts] /\ Totals.failed_uids = d[Prompts]
<1>1. \E g : /\ IsSum(g, [p \in Prompts |-> Contribution(p).success], Prompts)
            /\ Totals.success = g[Prompts]
  <2>1. PICK g : IsSum(g, [p \in Prompts |-> Contribution(p).success], Prompts)
    BY SumExists, PromptsAssumption
  <2>2. g = [s \in SUBSET Prompts |->
                IF s = {} THEN 0
                ELSE LET x == CHOOSE x \in s : TRUE
                     IN  Contribution(x).success + g[s \ {x}]]
    BY <2>1 DEF IsSum, Pick
  <2>3. \E h : /\ h = [s \in SUBSET Prompts |->
                          IF s = {} THEN 0
                          ELSE LET x == CHOOSE x \in s : TRUE
                               IN  Contribution(x).success + h[s \ {x}]]
              /\ Totals.success = h[Prompts]
    BY <2>2 DEF Totals, MapThenSumSet, MapThenFoldSet
  <2>4. PICK h : /\ h = [s \in SUBSET Prompts |->
                             IF s = {} THEN 0
                             ELSE LET x == CHOOSE x \in s : TRUE
                                  IN  Contribution(x).success + h[s \ {x}]]
                 /\ Totals.success = h[Prompts]
    BY <2>3
  <2>5. IsSum(h, [p \in Prompts |-> Contribution(p).success], Prompts) BY <2>4 DEF IsSum, Pick
  <2> QED BY <2>4, <2>5
<1>2. \E g : /\ IsSum(g, [p \in Prompts |-> Contribution(p).failed], Prompts)
            /\ Totals.failed = g[Prompts]
  <2>1. PICK g : IsSum(g, [p \in Prompts |-> Contribution(p).failed], Prompts)
    BY SumExists, PromptsAssumption
  <2>2. g = [s \in SUBSET Prompts |->
                IF s = {} THEN 0
                ELSE LET x == CHOOSE x \in s : TRUE
                     IN  Contribution(x).failed + g[s \ {x}]]
    BY <2>1 DEF IsSum, Pick
  <2>3. \E h : /\ h = [s \in SUBSET Prompts |->
                          IF s = {} THEN 0
                          ELSE LET x == CHOOSE x \in s : TRUE
                               IN  Contribution(x).failed + h[s \ {x}]]
              /\ Totals.failed = h[Prompts]
    BY <2>2 DEF Totals, MapThenSumSet, MapThenFoldSet
  <2>4. PICK h : /\ h = [s \in SUBSET Prompts |->
                             IF s = {} THEN 0
                             ELSE LET x == CHOOSE x \in s : TRUE
                                  IN  Contribution(x).failed + h[s \ {x}]]
                 /\ Totals.failed = h[Prompts]
    BY <2>3
  <2>5. IsSum(h, [p \in Prompts |-> Contribution(p).failed], Prompts) BY <2>4 DEF IsSum, Pick
  <2> QED BY <2>4, <2>5
<1>3. \E g : /\ IsSum(g, [p \in Prompts |-> Contribution(p).outputs], Prompts)
            /\ Totals.outputs = g[Prompts]
  <2>1. PICK g : IsSum(g, [p \in Prompts |-> Contribution(p).outputs], Prompts)
    BY SumExists, PromptsAssumption
  <2>2. g = [s \in SUBSET Prompts |->
                IF s = {} THEN 0
                ELSE LET x == CHOOSE x \in s : TRUE
                     IN  Contribution(x).outputs + g[s \ {x}]]
    BY <2>1 DEF IsSum, Pick
  <2>3. \E h : /\ h = [s \in SUBSET Prompts |->
                          IF s = {} THEN 0
                          ELSE LET x == CHOOSE x \in s : TRUE
                               IN  Contribution(x).outputs + h[s \ {x}]]
              /\ Totals.outputs = h[Prompts]
    BY <2>2 DEF Totals, MapThenSumSet, MapThenFoldSet
  <2>4. PICK h : /\ h = [s \in SUBSET Prompts |->
                             IF s = {} THEN 0
                             ELSE LET x == CHOOSE x \in s : TRUE
                                  IN  Contribution(x).outputs + h[s \ {x}]]
                 /\ Totals.outputs = h[Prompts]
    BY <2>3
  <2>5. IsSum(h, [p \in Prompts |-> Contribution(p).outputs], Prompts) BY <2>4 DEF IsSum, Pick
  <2> QED BY <2>4, <2>5
<1>4. \E g : /\ IsSum(g, [p \in Prompts |-> Contribution(p).failed_uids], Prompts)
            /\ Totals.failed_uids = g[Prompts]
  <2>1. PICK g : IsSum(g, [p \in Prompts |-> Contribution(p).failed_uids], Prompts)
    BY SumExists, PromptsAssumption
  <2>2. g = [s \in SUBSET Prompts |->
                IF s = {} THEN 0
                ELSE LET x == CHOOSE x \in s : TRUE
                     IN  Contribution(x).failed_uids + g[s \ {x}]]
    BY <2>1 DEF IsSum, Pick
  <2>3. \E h : /\ h = [s \in SUBSET Prompts |->
                          IF s = {} THEN 0
                          ELSE LET x == CHOOSE x \in s : TRUE
                               IN  Contribution(x).failed_uids + h[s \ {x}]]
              /\ Totals.failed_uids = h[Prompts]
    BY <2>2 DEF Totals, MapThenSumSet, MapThenFoldSet
  <2>4. PICK h : /\ h = [s \in SUBSET Prompts |->
                             IF s = {} THEN 0
                             ELSE LET x == CHOOSE x \in s : TRUE
                                  IN  Contribution(x).failed_uids + h[s \ {x}]]
                 /\ Totals.failed_uids = h[Prompts]
    BY <2>3
  <2>5. IsSum(h, [p \in Prompts |-> Contribution(p).failed_uids], Prompts) BY <2>4 DEF IsSum, Pick
  <2> QED BY <2>4, <2>5
<1> QED BY <1>1, <1>2, <1>3, <1>4

\* The totals are natural numbers.
LEMMA TotalsType ==
    ASSUME TypeOK
    PROVE  Totals \in [success : Nat, failed : Nat, outputs : Nat, failed_uids : Nat]
<1>1. ASSUME NEW p \in Prompts
      PROVE  /\ Contribution(p).success \in Nat /\ Contribution(p).failed \in Nat
             /\ Contribution(p).outputs \in Nat /\ Contribution(p).failed_uids \in Nat
  <2>1. counts[p] \in [success : Nat, failed : Nat, outputs : Nat]
    BY DEF TypeOK, PromptType
  <2> QED BY <2>1, SessionsAssumption DEF Contribution
<1>2. Totals.success \in Nat
  <2>1. PICK f : f = [p \in Prompts |-> Contribution(p).success] OBVIOUS
  <2>2. f \in [Prompts -> Nat] BY <1>1, <2>1
  <2>3. \E g : IsSum(g, f, Prompts) /\ Totals.success = g[Prompts] BY <2>1, TotalsAre, Zenon
  <2> QED BY <2>2, <2>3, SumType, PromptsAssumption
<1>3. Totals.failed \in Nat
  <2>1. PICK f : f = [p \in Prompts |-> Contribution(p).failed] OBVIOUS
  <2>2. f \in [Prompts -> Nat] BY <1>1, <2>1
  <2>3. \E g : IsSum(g, f, Prompts) /\ Totals.failed = g[Prompts] BY <2>1, TotalsAre, Zenon
  <2> QED BY <2>2, <2>3, SumType, PromptsAssumption
<1>4. Totals.outputs \in Nat
  <2>1. PICK f : f = [p \in Prompts |-> Contribution(p).outputs] OBVIOUS
  <2>2. f \in [Prompts -> Nat] BY <1>1, <2>1
  <2>3. \E g : IsSum(g, f, Prompts) /\ Totals.outputs = g[Prompts] BY <2>1, TotalsAre, Zenon
  <2> QED BY <2>2, <2>3, SumType, PromptsAssumption
<1>5. Totals.failed_uids \in Nat
  <2>1. PICK f : f = [p \in Prompts |-> Contribution(p).failed_uids] OBVIOUS
  <2>2. f \in [Prompts -> Nat] BY <1>1, <2>1
  <2>3. \E g : IsSum(g, f, Prompts) /\ Totals.failed_uids = g[Prompts] BY <2>1, TotalsAre, Zenon
  <2> QED BY <2>2, <2>3, SumType, PromptsAssumption
<1> QED BY <1>2, <1>3, <1>4, <1>5 DEF Totals

-----------------------------------------------------------------------------
(* What the steps do *)

\* A step of a session, as far as it matters here: one that has not ended moves,
\* and only one that returns gets trajectories.
SessionStep(p, i) ==
    /\ session[p][i] \notin Over
    /\ \E state \in {"running"} \cup Over, k \in Nat :
           /\ session' = [session EXCEPT ![p][i] = state]
           /\ output' = [output EXCEPT ![p][i] = k]
           /\ state # "returned" => k = output[p][i]
    /\ UNCHANGED <<promptVars, batchVars, queueVars, trainerVars>>

\* Every step of a session is one of those.
LEMMA RunSessionIs ==
    ASSUME TypeOK, NEW p \in Prompts, NEW i \in Sessions, RunSession(p, i)
    PROVE  SessionStep(p, i)
<1> output[p][i] \in Nat /\ output = [output EXCEPT ![p][i] = output[p][i]]
  BY DEF TypeOK, SessionType
<1>1. CASE Start(p, i) BY <1>1 DEF Start, Goto, SessionStep, Over, trainerVars
<1>2. CASE Reject(p, i) BY <1>2 DEF Reject, Goto, SessionStep, Over, trainerVars
<1>3. CASE End(p, i)
  <2>1. session[p][i] \notin Over BY <1>3 DEF End, Over
  <2>2. CASE \E k \in Lengths : output' = [output EXCEPT ![p][i] = k]
                                /\ Goto(p, i, "returned")
    BY <1>3, <2>1, <2>2, LengthsAssumption DEF End, Goto, SessionStep, Over, batchVars
  <2>3. CASE (Goto(p, i, "raised") \/ Goto(p, i, "cancelled")) /\ UNCHANGED output
    BY <1>3, <2>1, <2>3 DEF End, Goto, SessionStep, Over
  <2> QED BY <1>3, <2>2, <2>3 DEF End
<1> QED BY <1>1, <1>2, <1>3 DEF RunSession

\* The queue of a prompt's own loop: it grows by the keys of the outcome looked at.
Writes(p) == queue' = queue \cup Keys(p, cursor[p], Outputs(p))

\* The loop leaves the sessions and the trainer alone.
LEMMA CollectFrame ==
    ASSUME NEW p \in Prompts, Collect(p)
    PROVE  /\ UNCHANGED <<session, output, marked, seen, trainer, sample, agent_name, batch,
                          stats>>
           /\ faults' \in {faults, faults + 1}
BY DEF Collect, SkipFailed, Propagate, WriteSession, WriteFails, PutStatus,
       PutStatusFails, Fault, sessionVars, trainerVars, batchVars, queueVars

\* What a step of the loop does to its own prompt: it passes an outcome, ends with
\* the tag, or ends without.
Passes(p) ==
    /\ Looking(p) /\ Outcome(p) # "cancelled"
    /\ cursor' = [cursor EXCEPT ![p] = @ + 1]
    /\ \/ Failed(p) /\ Count(p, 0, 1, 0) /\ queue' = queue
       \/ ToWrite(p) /\ Count(p, 1, 0, Outputs(p)) /\ Writes(p)
    /\ UNCHANGED <<prompt, tag>>

Tags(p) ==
    /\ ToTag(p)
    /\ tag' = [tag EXCEPT ![p] = Status(p)]
    /\ \E how \in {"returned", "raised"} : EndPrompt(p, how)
    /\ UNCHANGED <<cursor, counts, queue>>

GivesUp(p) ==
    /\ prompt[p] = "open"
    /\ \E how \in {"raised", "cancelled"} : EndPrompt(p, how)
    /\ queue' = queue \/ (Writes(p) /\ ToWrite(p))
    /\ UNCHANGED <<cursor, counts, tag>>

LEMMA CollectIs ==
    ASSUME NEW p \in Prompts, Collect(p)
    PROVE  Passes(p) \/ Tags(p) \/ GivesUp(p)
<1>1. CASE SkipFailed(p)
  BY <1>1 DEF SkipFailed, Passes, Failed, Forward, queueVars
<1>2. CASE Propagate(p)
  BY <1>2 DEF Propagate, Looking, Gathered, GivesUp, queueVars
<1>3. CASE WriteSession(p)
  BY <1>3 DEF WriteSession, Passes, ToWrite, Forward, Writes
<1>4. CASE WriteFails(p)
  BY <1>4 DEF WriteFails, ToWrite, Looking, Gathered, GivesUp, Writes
<1>5. CASE PutStatus(p) BY <1>5 DEF PutStatus, Tags
<1>6. CASE PutStatusFails(p)
  <2>1. prompt[p] = "open" /\ EndPrompt(p, "raised") /\ UNCHANGED <<cursor, counts, queue>>
    BY <1>6 DEF PutStatusFails, ToTag, Gathered
  <2>2. CASE UNCHANGED tag BY <2>1, <2>2 DEF GivesUp
  <2>3. CASE tag' = [tag EXCEPT ![p] = Status(p)] BY <1>6, <2>1, <2>3 DEF PutStatusFails, Tags
  <2> QED BY <1>6, <2>2, <2>3 DEF PutStatusFails
<1> QED BY <1>1, <1>2, <1>3, <1>4, <1>5, <1>6 DEF Collect

\* A step of a prompt's loop leaves the other prompts alone.
LEMMA OthersSame ==
    ASSUME TypeOK, NEW p \in Prompts, Collect(p), NEW q \in Prompts, q # p
    PROVE  /\ prompt'[q] = prompt[q] /\ cursor'[q] = cursor[q]
           /\ counts'[q] = counts[q] /\ tag'[q] = tag[q]
           /\ KeysOf(q, queue') = KeysOf(q, queue)
<1>1. ASSUME Writes(p), ToWrite(p) PROVE KeysOf(q, queue') = KeysOf(q, queue)
  <2>1. cursor[p] \in Sessions /\ Outputs(p) \in Nat
    BY <1>1 DEF ToWrite, Looking, Outputs, TypeOK, SessionType
  <2>2. KeysOf(q, Keys(p, cursor[p], Outputs(p))) = {} BY <2>1, KeysType
  <2> QED BY <1>1, <2>2 DEF Writes, KeysOf
<1>2. KeysOf(q, queue') = KeysOf(q, queue)
  BY <1>1, CollectIs DEF Passes, Tags, GivesUp
<1>3. /\ prompt'[q] = prompt[q] /\ cursor'[q] = cursor[q]
      /\ counts'[q] = counts[q] /\ tag'[q] = tag[q]
  <2>1. CASE Passes(p) BY <2>1 DEF Passes, Count, TypeOK, PromptType
  <2>2. CASE Tags(p) BY <2>2 DEF Tags, EndPrompt, TypeOK, PromptType, QueueType
  <2>3. CASE GivesUp(p) BY <2>3 DEF GivesUp, EndPrompt, TypeOK, PromptType
  <2> QED BY <2>1, <2>2, <2>3, CollectIs
<1> QED BY <1>2, <1>3

-----------------------------------------------------------------------------
(* Types *)

LEMMA SessionTypeStep ==
    ASSUME SessionType, NEW p \in Prompts, NEW i \in Sessions, SessionStep(p, i)
    PROVE  SessionType'
BY DEF SessionType, SessionStep

LEMMA CollectTypeStep ==
    ASSUME TypeOK, NEW p \in Prompts, Collect(p)
    PROVE  TypeOK'
<1>1. SessionType' /\ BatchType' /\ TrainerType'
  BY CollectFrame DEF TypeOK, SessionType, BatchType, TrainerType, AllKeys
<1>2. faults' \in Nat BY CollectFrame DEF TypeOK, QueueType
<1>3. cursor[p] \in Nat /\ counts[p] \in [success : Nat, failed : Nat, outputs : Nat]
  BY SessionsAssumption DEF TypeOK, PromptType
<1>4. ToWrite(p) /\ Writes(p) => queue' \subseteq AllKeys
  <2>1. SUFFICES ASSUME ToWrite(p), Writes(p) PROVE queue' \subseteq AllKeys OBVIOUS
  <2>2. cursor[p] \in Sessions /\ Outputs(p) \in Nat
    BY <2>1 DEF ToWrite, Looking, Outputs, TypeOK, SessionType
  <2> QED BY <2>1, <2>2, KeysType DEF Writes, TypeOK, QueueType
<1>5. CASE Passes(p)
  <2>1. cursor[p] + 1 \in 0 .. N
    BY <1>5, SessionsAssumption DEF Passes, Looking, Sessions, TypeOK, PromptType
  <2>2. PromptType'
    <3>1. cursor' \in [Prompts -> 0 .. N] BY <1>5, <2>1 DEF Passes, TypeOK, PromptType
    <3>2. Outputs(p) \in Nat BY <1>5 DEF Passes, Looking, Outputs, TypeOK, SessionType
    <3>3. counts' \in [Prompts -> [success : Nat, failed : Nat, outputs : Nat]]
      BY <1>3, <1>5, <3>2 DEF Passes, Count, TypeOK, PromptType
    <3> QED BY <1>5, <3>1, <3>3 DEF Passes, TypeOK, PromptType
  <2>3. QueueType' BY <1>4, <1>5, <1>2 DEF Passes, TypeOK, QueueType, AllKeys
  <2> QED BY <1>1, <2>2, <2>3 DEF TypeOK
<1>6. CASE Tags(p)
  <2>1. PromptType' BY <1>6 DEF Tags, EndPrompt, TypeOK, PromptType
  <2>2. QueueType' BY <1>6, <1>2 DEF Tags, Status, TypeOK, QueueType, AllKeys
  <2> QED BY <1>1, <2>1, <2>2 DEF TypeOK
<1>7. CASE GivesUp(p)
  <2>1. PromptType' BY <1>7 DEF GivesUp, EndPrompt, TypeOK, PromptType
  <2>2. QueueType' BY <1>4, <1>7, <1>2 DEF GivesUp, TypeOK, QueueType, AllKeys
  <2> QED BY <1>1, <2>1, <2>2 DEF TypeOK
<1> QED BY <1>5, <1>6, <1>7, CollectIs

LEMMA TypeStep == TypeOK /\ [Next]_vars => TypeOK'
<1> SUFFICES ASSUME TypeOK, [Next]_vars PROVE TypeOK' OBVIOUS
<1>1. ASSUME NEW p \in Prompts, NEW i \in Sessions, RunSession(p, i) PROVE TypeOK'
  <2>1. SessionStep(p, i) BY <1>1, RunSessionIs
  <2>2. SessionType' BY <2>1, SessionTypeStep DEF TypeOK
  <2>3. UNCHANGED <<prompt, cursor, counts, agent_name, batch, stats, queue, tag, faults,
                    marked, seen, trainer, sample>>
    BY <2>1 DEF SessionStep, promptVars, batchVars, queueVars, trainerVars
  <2> QED BY <2>2, <2>3 DEF TypeOK, PromptType, BatchType, QueueType, TrainerType, AllKeys
<1>2. ASSUME NEW p \in Prompts, Collect(p) PROVE TypeOK' BY <1>2, CollectTypeStep
<1>3. CASE EndBatch \/ UNCHANGED vars
  <2>1. UNCHANGED <<session, output, prompt, cursor, counts, queue, tag, faults, agent_name,
                    marked, seen, trainer, sample>>
    BY <1>3 DEF EndBatch, vars, sessionVars, promptVars, batchVars, queueVars, trainerVars
  <2>2. BatchType'
    <3>1. CASE EndBatch
      BY <1>3, <2>1, <3>1, TotalsType DEF EndBatch, TypeOK, BatchType
    <3>2. CASE UNCHANGED vars BY <3>2 DEF vars, batchVars, TypeOK, BatchType
    <3> QED BY <1>3, <3>1, <3>2
  <2> QED BY <2>1, <2>2 DEF TypeOK, SessionType, PromptType, QueueType, TrainerType, AllKeys
<1>4. CASE Poll \/ Sample \/ SampleRaises
  <2>1. UNCHANGED <<session, output, prompt, cursor, counts, agent_name, batch, stats, queue,
                    tag, faults, marked>>
    BY <1>4 DEF Poll, Sample, SampleRaises, sessionVars, promptVars, batchVars, queueVars
  <2>2. TrainerType'
    <3>1. CASE Poll
      <4>1. UNCHANGED <<trainer, sample>> BY <3>1 DEF Poll
      <4>2. seen' = [keys |-> queue,
                     status |-> [p \in Prompts |->
                                    IF tag[p] = None THEN seen.status[p] ELSE tag[p]]]
        BY <3>1 DEF Poll
      <4> QED BY <2>1, <4>1, <4>2 DEF TypeOK, QueueType, TrainerType, AllKeys
    <3>2. CASE Sample
      <4>1. seen' = seen /\ trainer' = "sampled" /\ sample' = seen.keys
        BY <3>2 DEF Sample
      <4> QED BY <2>1, <4>1 DEF TypeOK, TrainerType, AllKeys
    <3>3. CASE SampleRaises
      <4>1. seen' = seen /\ trainer' = "raised" /\ sample' = sample
        BY <3>3 DEF SampleRaises
      <4> QED BY <2>1, <4>1 DEF TypeOK, TrainerType, AllKeys
    <3> QED BY <1>4, <3>1, <3>2, <3>3
  <2> QED BY <2>1, <2>2 DEF TypeOK, SessionType, PromptType, BatchType, QueueType, AllKeys
<1> QED BY <1>1, <1>2, <1>3, <1>4 DEF Next

-----------------------------------------------------------------------------
(* The invariant is preserved *)

\* A session moves only while its prompt's loop waits for gather.
LEMMA RunSessionStep ==
    ASSUME BatchInv, NEW p \in Prompts, NEW i \in Sessions, RunSession(p, i), TypeOK'
    PROVE  BatchInv'
<1>1. SessionStep(p, i) BY RunSessionIs DEF BatchInv
<1>2. UNCHANGED <<prompt, cursor, counts, queue, tag, marked, seen, trainer, sample>>
  BY <1>1 DEF SessionStep, promptVars, queueVars, trainerVars
<1>3. PICK state \in {"running"} \cup Over, k \in Nat :
          /\ session' = [session EXCEPT ![p][i] = state]
          /\ output' = [output EXCEPT ![p][i] = k]
          /\ state # "returned" => k = output[p][i]
  BY <1>1 DEF SessionStep
<1>4. session[p][i] \notin Over BY <1>1 DEF SessionStep
<1>5. /\ session'[p][i] = state /\ output'[p][i] = k
      /\ \A q \in Prompts, j \in Sessions : q # p \/ j # i =>
             session'[q][j] = session[q][j] /\ output'[q][j] = output[q][j]
  BY <1>3 DEF BatchInv, TypeOK, SessionType
<1>6. OutputInv'
  <2>1. output[p][i] = 0 BY <1>4 DEF BatchInv, OutputInv, Over
  <2> QED BY <1>3, <1>5, <2>1 DEF BatchInv, OutputInv
<1>7. cursor[p] = 0
  <2>1. cursor[p] \in 0 .. N BY DEF BatchInv, TypeOK, PromptType
  <2> QED BY <1>4, <2>1, SessionsAssumption DEF BatchInv, ProgressInv
<1>8. ProgressInv' BY <1>2, <1>5, <1>7 DEF BatchInv, ProgressInv
<1>9. WrittenInv'
  <2> SUFFICES ASSUME NEW q \in Prompts, Sound(q)'
               PROVE  KeysOf(q, queue') = Written(q, cursor[q])'
    BY <1>2 DEF WrittenInv, KeysOf
  <2>1. KeysOf(q, queue) = Written(q, cursor[q])
    BY <1>2 DEF BatchInv, WrittenInv, Sound
  <2>2. CASE q = p
    <3>1. Written(q, cursor[q]) = {} BY <1>7, <2>2, WrittenNothing
    <3>2. Written(q, cursor[q])' = {} BY <1>2, <1>7, <2>2 DEF Written
    <3> QED BY <1>2, <2>1, <3>1, <3>2
  <2>3. CASE q # p
    <3>1. output'[q] = output[q] BY <1>3, <2>3 DEF BatchInv, TypeOK, SessionType
    <3>2. Written(q, cursor[q])' = Written(q, cursor[q]) BY <1>2, <3>1 DEF Written
    <3> QED BY <1>2, <2>1, <3>2
  <2> QED BY <2>2, <2>3
<1>10. StatusInv' BY <1>2 DEF BatchInv, StatusInv, Sound, Status, KeysOf
<1>11. SeenInv' /\ MarkedInv' /\ SampledInv'
  BY <1>2 DEF BatchInv, SeenInv, MarkedInv, SampledInv, KeysOf
<1> QED BY <1>6, <1>8, <1>9, <1>10, <1>11 DEF BatchInv

\* A prompt whose loop still runs has no tag.
LEMMA OpenIsUntagged ==
    ASSUME BatchInv, NEW p \in Prompts, Collect(p)
    PROVE  prompt[p] = "open" /\ tag[p] = None
<1>1. prompt[p] = "open"
  BY CollectIs DEF Passes, Tags, GivesUp, Looking, ToTag, Gathered
<1> QED BY <1>1 DEF BatchInv, ProgressInv

\* The loop keeps what it has counted and what it has written together.
LEMMA CollectStep ==
    ASSUME BatchInv, NEW p \in Prompts, Collect(p), TypeOK'
    PROVE  BatchInv'
<1> USE DEF BatchInv
<1>1. UNCHANGED <<session, output, marked, seen, trainer, sample>> BY CollectFrame
<1>2. prompt[p] = "open" /\ tag[p] = None BY OpenIsUntagged
<1>3. \A q \in Prompts : q # p =>
          /\ prompt'[q] = prompt[q] /\ cursor'[q] = cursor[q]
          /\ counts'[q] = counts[q] /\ tag'[q] = tag[q]
          /\ KeysOf(q, queue') = KeysOf(q, queue)
  BY OthersSame
<1>4. Passes(p) \/ Tags(p) \/ GivesUp(p) BY CollectIs
<1>5. cursor[p] \in 0 .. N /\ counts[p].success \in Nat BY DEF TypeOK, PromptType
<1>6. OutputInv' BY <1>1 DEF OutputInv
<1>7. KeysOf(p, queue) = Written(p, cursor[p])
      /\ (counts[p].success > 0 <=> KeysOf(p, queue) # {})
  BY <1>2 DEF WrittenInv, StatusInv, Sound
<1>8. ASSUME GivesUp(p) PROVE ~Sound(p)'
  BY <1>2, <1>8 DEF GivesUp, EndPrompt, Sound, TypeOK, PromptType
<1>9. ASSUME Tags(p)
      PROVE  /\ cursor[p] = N /\ cursor'[p] = N /\ prompt'[p] # "open"
             /\ counts'[p] = counts[p] /\ queue' = queue /\ tag'[p] = Status(p)
  <2>1. cursor[p] = N /\ UNCHANGED <<cursor, counts, queue>>
    BY <1>9 DEF Tags, ToTag
  <2>2. prompt'[p] # "open" BY <1>9 DEF Tags, EndPrompt, TypeOK, PromptType
  <2>3. tag'[p] = Status(p) BY <1>9 DEF Tags, TypeOK, QueueType
  <2> QED BY <2>1, <2>2, <2>3
<1>10. ASSUME Passes(p)
       PROVE  /\ cursor'[p] = cursor[p] + 1 /\ cursor[p] \in Sessions
              /\ \A i \in Sessions : session[p][i] \in Over
              /\ tag'[p] = None
              /\ KeysOf(p, queue') = KeysOf(p, queue) \cup Keys(p, cursor[p], Outputs(p))
              /\ counts'[p].success > 0 <=> counts[p].success > 0 \/ Outputs(p) > 0
  <2>1. cursor[p] \in Sessions /\ (\A i \in Sessions : session[p][i] \in Over)
    BY <1>10 DEF Passes, Looking, Gathered
  <2>2. cursor'[p] = cursor[p] + 1 /\ tag'[p] = None
    BY <1>2, <1>10 DEF Passes, TypeOK, PromptType
  <2>3. Outputs(p) \in Nat BY <2>1 DEF Outputs, TypeOK, SessionType
  <2>4. CASE Failed(p) /\ Count(p, 0, 1, 0) /\ queue' = queue
    <3>1. Outputs(p) = 0
      BY <2>1, <2>4 DEF Failed, Outcome, Outputs, OutputInv
    <3>2. Keys(p, cursor[p], Outputs(p)) = {} BY <2>1, <3>1, KeysType
    <3>3. counts'[p].success = counts[p].success
      BY <1>5, <2>4 DEF Count, TypeOK, PromptType
    <3> QED BY <2>1, <2>2, <2>4, <3>1, <3>2, <3>3
  <2>5. CASE ToWrite(p) /\ Count(p, 1, 0, Outputs(p)) /\ Writes(p)
    <3>1. KeysOf(p, Keys(p, cursor[p], Outputs(p))) = Keys(p, cursor[p], Outputs(p))
      BY <2>1, <2>3, KeysType
    <3>2. KeysOf(p, queue') = KeysOf(p, queue) \cup Keys(p, cursor[p], Outputs(p))
      BY <2>5, <3>1 DEF Writes, KeysOf
    <3>3. counts'[p].success = counts[p].success + 1
      BY <2>5 DEF Count, TypeOK, PromptType
    <3>4. Outputs(p) > 0 BY <2>5 DEF ToWrite
    <3> QED BY <1>5, <2>1, <2>2, <3>2, <3>3, <3>4
  <2> QED BY <1>10, <2>4, <2>5 DEF Passes
<1>11. ProgressInv'
  <2>1. ASSUME NEW q \in Prompts, q # p
        PROVE  /\ cursor'[q] > 0 => \A i \in Sessions : session'[q][i] \in Over
               /\ tag'[q] # None => cursor'[q] = N /\ prompt'[q] # "open"
    BY <1>1, <1>3, <2>1 DEF ProgressInv
  <2>2. /\ cursor'[p] > 0 => \A i \in Sessions : session'[p][i] \in Over
        /\ tag'[p] # None => cursor'[p] = N /\ prompt'[p] # "open"
    <3>1. CASE Passes(p) BY <1>1, <1>10, <3>1
    <3>2. CASE Tags(p) BY <1>1, <1>9, <3>2 DEF ProgressInv
    <3>3. CASE GivesUp(p) BY <1>1, <1>2, <3>3 DEF GivesUp, ProgressInv
    <3> QED BY <1>4, <3>1, <3>2, <3>3
  <2> QED BY <2>1, <2>2 DEF ProgressInv
<1>12. WrittenInv' /\ StatusInv'
  <2> DEFINE Ok(q) ==
          /\ Sound(q)' => KeysOf(q, queue') = Written(q, cursor[q])'
          /\ Sound(q)' => (counts'[q].success > 0 <=> KeysOf(q, queue') # {})
          /\ tag'[q] # None => tag'[q] = Status(q)'
  <2>1. ASSUME NEW q \in Prompts, q # p PROVE Ok(q)
    <3>1. Written(q, cursor[q])' = Written(q, cursor[q]) BY <1>1, <1>3, <2>1 DEF Written
    <3>2. Status(q)' = Status(q) BY <1>3, <2>1 DEF Status
    <3> QED BY <1>3, <2>1, <3>1, <3>2 DEF WrittenInv, StatusInv, Sound
  <2>2. ASSUME Passes(p) PROVE Ok(p)
    <3>1. cursor[p] \in Sessions /\ Outputs(p) \in Nat
      BY <1>10, <2>2 DEF Outputs, TypeOK, SessionType
    <3>2. Written(p, cursor[p])' = Written(p, cursor[p] + 1)
      BY <1>1, <1>10, <2>2 DEF Written
    <3>3. Written(p, cursor[p] + 1)
            = Written(p, cursor[p]) \cup Keys(p, cursor[p], Outputs(p))
      BY <1>5, WrittenNext DEF Outputs
    <3>4. Outputs(p) > 0 <=> Keys(p, cursor[p], Outputs(p)) # {} BY <3>1, KeysType
    <3>5. KeysOf(p, queue') = Written(p, cursor[p])'
      BY <1>7, <1>10, <2>2, <3>2, <3>3
    <3>6. counts'[p].success > 0 <=> KeysOf(p, queue') # {}
      BY <1>7, <1>10, <2>2, <3>4
    <3> QED BY <1>10, <2>2, <3>5, <3>6
  <2>3. ASSUME Tags(p) PROVE Ok(p)
    <3>1. Written(p, cursor[p])' = Written(p, cursor[p]) BY <1>1, <1>9, <2>3 DEF Written
    <3>2. Status(p)' = Status(p) BY <1>9, <2>3 DEF Status
    <3> QED BY <1>7, <1>9, <2>3, <3>1, <3>2
  <2>4. ASSUME GivesUp(p) PROVE Ok(p)
    <3>1. tag'[p] = None BY <1>2, <2>4 DEF GivesUp
    <3> QED BY <1>8, <2>4, <3>1
  <2>5. \A q \in Prompts : Ok(q) BY <1>4, <2>1, <2>2, <2>3, <2>4
  <2> QED BY <2>5 DEF WrittenInv, StatusInv, KeysOf
<1>13. SeenInv'
  <2>1. ASSUME NEW q \in Prompts, seen.status[q] \in Tagged
        PROVE  tag'[q] # None /\ KeysOf(q, seen.keys) = KeysOf(q, queue')
    <3>1. tag[q] # None BY <2>1 DEF SeenInv
    <3>2. q # p BY <1>2, <3>1
    <3> QED BY <1>3, <2>1, <3>2 DEF SeenInv
  <2> QED BY <1>1, <2>1 DEF SeenInv, KeysOf
<1>14. MarkedInv' BY <1>1 DEF MarkedInv
<1>15. SampledInv'
  <2>1. CASE ~ (marked /\ trainer = "sampled") BY <1>1, <2>1 DEF SampledInv
  <2>2. CASE marked /\ trainer = "sampled"
    <3>1. \A q \in Prompts : tag[q] # None BY <2>2 DEF SampledInv
    <3> QED BY <1>2, <3>1
  <2> QED BY <2>1, <2>2
<1> QED BY <1>6, <1>11, <1>12, <1>13, <1>14, <1>15

\* A poll takes the tags and the keys at once.
LEMMA PollStep == ASSUME BatchInv, Poll, TypeOK' PROVE BatchInv'
<1>1. UNCHANGED <<session, output, prompt, cursor, counts, queue, tag, marked, trainer, sample>>
  BY DEF Poll, sessionVars, promptVars, queueVars
<1>2. OutputInv' /\ ProgressInv' /\ WrittenInv' /\ StatusInv' /\ SampledInv'
  BY <1>1 DEF BatchInv, OutputInv, ProgressInv, WrittenInv, StatusInv, SampledInv,
              Sound, Status, Written, KeysOf
<1>3. ASSUME NEW p \in Prompts
      PROVE  /\ seen'.keys = queue
             /\ seen'.status[p] = IF tag[p] = None THEN seen.status[p] ELSE tag[p]
  BY DEF Poll
<1>4. ASSUME NEW p \in Prompts, seen'.status[p] \in Tagged
      PROVE  tag[p] # None /\ KeysOf(p, seen'.keys) = KeysOf(p, queue)
  BY <1>3, <1>4 DEF BatchInv, SeenInv
<1>5. SeenInv' BY <1>1, <1>4 DEF SeenInv, KeysOf
<1>6. MarkedInv' BY <1>1, <1>3 DEF BatchInv, MarkedInv
<1> QED BY <1>2, <1>5, <1>6 DEF BatchInv

\* A trainer that has marked the uids samples when the replica has all tags, and so all
\* keys.
LEMMA SampleStep == ASSUME BatchInv, Sample, TypeOK' PROVE BatchInv'
<1>1. UNCHANGED <<session, output, prompt, cursor, counts, queue, tag, marked, seen>>
  BY DEF Sample, sessionVars, promptVars, queueVars
<1>2. OutputInv' /\ ProgressInv' /\ WrittenInv' /\ StatusInv' /\ SeenInv' /\ MarkedInv'
  BY <1>1 DEF BatchInv, OutputInv, ProgressInv, WrittenInv, StatusInv, SeenInv, MarkedInv,
              Sound, Status, Written, KeysOf
<1>3. ASSUME marked, NEW p \in Prompts
      PROVE  tag[p] # None /\ KeysOf(p, seen.keys) = KeysOf(p, queue)
  <2>1. seen.status[p] \notin {"running", None}
    BY <1>3 DEF Sample, BatchInv, MarkedInv
  <2>2. seen.status[p] \in {"running", "finished", "failure", None}
    BY DEF BatchInv, TypeOK, TrainerType
  <2>3. seen.status[p] \in Tagged BY <2>1, <2>2 DEF Tagged
  <2> QED BY <2>3 DEF BatchInv, SeenInv
<1>4. SampledInv' BY <1>1, <1>3 DEF Sample, SampledInv, KeysOf
<1> QED BY <1>2, <1>4 DEF BatchInv

\* A trainer that has marked them has no entry without a step.
LEMMA SampleRaisesStep == ASSUME BatchInv, SampleRaises, TypeOK' PROVE BatchInv'
<1>1. UNCHANGED <<session, output, prompt, cursor, counts, queue, tag, marked, seen>>
  BY DEF SampleRaises, sessionVars, promptVars, queueVars
<1>2. OutputInv' /\ ProgressInv' /\ WrittenInv' /\ StatusInv' /\ SeenInv' /\ MarkedInv'
  BY <1>1 DEF BatchInv, OutputInv, ProgressInv, WrittenInv, StatusInv, SeenInv, MarkedInv,
              Sound, Status, Written, KeysOf
<1>3. SampledInv' BY DEF SampleRaises, SampledInv
<1> QED BY <1>2, <1>3 DEF BatchInv

LEMMA BatchInit == Init => BatchInv
<1> SUFFICES ASSUME Init PROVE BatchInv OBVIOUS
<1>1. 0 \in 0 .. N /\ 0 \in Nat BY SessionsAssumption
<1>2. TypeOK
  <2>1. SessionType BY DEF Init, SessionType
  <2>2. PromptType BY <1>1 DEF Init, PromptType, Zero
  <2>3. BatchType /\ QueueType /\ TrainerType
    BY DEF Init, Submitted, BatchType, QueueType, TrainerType
  <2> QED BY <2>1, <2>2, <2>3 DEF TypeOK
<1>3. OutputInv /\ ProgressInv BY DEF Init, OutputInv, ProgressInv
<1>4. ASSUME NEW p \in Prompts
      PROVE  KeysOf(p, queue) = {} /\ Written(p, cursor[p]) = {}
  <2>1. cursor[p] = 0 /\ queue = {} BY DEF Init
  <2> QED BY <2>1, WrittenNothing DEF KeysOf
<1>5. WrittenInv BY <1>4 DEF WrittenInv
<1>6. StatusInv BY <1>4 DEF Init, StatusInv, Zero
<1>7. \A p \in Prompts : seen.status[p] = IF marked THEN "running" ELSE None
  BY DEF Init, Submitted
<1>8. SeenInv BY <1>7, NoneAssumption DEF SeenInv, Tagged
<1>9. MarkedInv BY <1>7, NoneAssumption DEF MarkedInv
<1>10. SampledInv BY DEF Init, SampledInv
<1> QED BY <1>2, <1>3, <1>5, <1>6, <1>8, <1>9, <1>10 DEF BatchInv

LEMMA BatchStep == BatchInv /\ [Next]_vars => BatchInv'
<1> SUFFICES ASSUME BatchInv, [Next]_vars PROVE BatchInv' OBVIOUS
<1>1. TypeOK' BY TypeStep DEF BatchInv
<1>2. ASSUME NEW p \in Prompts, NEW i \in Sessions, RunSession(p, i) PROVE BatchInv'
  BY <1>1, <1>2, RunSessionStep
<1>3. ASSUME NEW p \in Prompts, Collect(p) PROVE BatchInv' BY <1>1, <1>3, CollectStep
<1>4. CASE EndBatch \/ UNCHANGED vars
  <2>1. UNCHANGED <<session, output, prompt, cursor, counts, queue, tag, marked, seen, trainer,
                    sample>>
    BY <1>4 DEF EndBatch, vars, sessionVars, promptVars, queueVars, trainerVars
  <2> QED BY <1>1, <2>1 DEF BatchInv, OutputInv, ProgressInv, WrittenInv, StatusInv,
                            SeenInv, MarkedInv, SampledInv, Sound, Status, Written, KeysOf
<1>5. CASE Poll BY <1>1, <1>5, PollStep
<1>6. CASE Sample BY <1>1, <1>6, SampleStep
<1>7. CASE SampleRaises BY <1>1, <1>7, SampleRaisesStep
<1> QED BY <1>2, <1>3, <1>4, <1>5, <1>6, <1>7 DEF Next

-----------------------------------------------------------------------------
(* The accounts of a batch *)

\* Every outcome the loop is past counts once, the outputs are the keys, a prompt's
\* counts are returned after its tag, and the batch ends after all of its prompts.
AccountInv ==
    /\ IsFiniteSet(queue)
    /\ \A p \in Prompts :
           /\ counts[p].success + counts[p].failed = cursor[p]
           /\ prompt[p] \in {"open", "returned"} =>
                  counts[p].outputs = Cardinality(KeysOf(p, queue))
           /\ prompt[p] = "returned" => cursor[p] = N /\ tag[p] = Status(p)
           /\ batch # "running" => prompt[p] # "open"
    /\ StatsAccountForEverySession

\* A session has as many keys as trajectories.
LEMMA KeysCount ==
    ASSUME NEW p, NEW i, NEW k \in Nat
    PROVE  IsFiniteSet(Keys(p, i, k)) /\ Cardinality(Keys(p, i, k)) = k
<1>1. IsFiniteSet(0 .. k - 1) /\ Cardinality(0 .. k - 1) = k BY FS_Interval
<1>2. PICK T : T = Keys(p, i, k) OBVIOUS
<1>3. PICK f : f = [j \in 0 .. k - 1 |-> <<p, i, j>>] OBVIOUS
<1>4. f \in Bijection(0 .. k - 1, T)
  <2>1. f \in [0 .. k - 1 -> T] BY <1>2, <1>3 DEF Keys
  <2>2. \A a, b \in 0 .. k - 1 : f[a] = f[b] => a = b BY <1>3
  <2>3. \A t \in T : \E j \in 0 .. k - 1 : f[j] = t BY <1>2, <1>3 DEF Keys
  <2> QED BY <2>1, <2>2, <2>3 DEF Bijection, Injection, Surjection, IsInjective
<1>5. ExistsBijection(0 .. k - 1, T) BY <1>4 DEF ExistsBijection
<1>6. IsFiniteSet(T) /\ Cardinality(T) = Cardinality(0 .. k - 1) BY <1>1, <1>5, FS_Bijection
<1> QED BY <1>1, <1>2, <1>6

\* A batch has N sessions of every prompt.
LEMMA SessionsCount ==
    /\ IsFiniteSet(All)
    /\ \A p \in Prompts : Cardinality({ps \in All : ps[1] = p}) = N
<1>1. IsFiniteSet(Sessions) /\ Cardinality(Sessions) = N
  BY FS_Interval, SessionsAssumption DEF Sessions
<1>2. IsFiniteSet(All) BY <1>1, FS_Product, PromptsAssumption DEF All
<1>3. ASSUME NEW p \in Prompts PROVE Cardinality({ps \in All : ps[1] = p}) = N
  <2>1. {ps \in All : ps[1] = p} = {p} \X Sessions BY DEF All
  <2>2. IsFiniteSet({p}) /\ Cardinality({p}) = 1 BY FS_Singleton
  <2>3. Cardinality({p} \X Sessions) = 1 * N BY <1>1, <2>2, FS_Product
  <2> QED BY <2>1, <2>3, SessionsAssumption, SMTT(30)
<1> QED BY <1>2, <1>3

\* What the totals come to once no prompt is open and none was cancelled.
LEMMA TotalsAccount ==
    ASSUME BatchInv, AccountInv, \A p \in Prompts : prompt[p] \in {"returned", "raised"}
    PROVE  /\ Totals.success + Totals.failed = Cardinality(All)
           /\ Totals.outputs = Cardinality({key \in queue : prompt[key[1]] = "returned"})
           /\ Totals.failed_uids =
                  Cardinality({p \in Prompts : prompt[p] = "raised" \/ tag[p] = "failure"})
<1>1. PICK success, failed, outputs, failed_uids :
          /\ success = [p \in Prompts |-> Contribution(p).success]
          /\ failed = [p \in Prompts |-> Contribution(p).failed]
          /\ outputs = [p \in Prompts |-> Contribution(p).outputs]
          /\ failed_uids = [p \in Prompts |-> Contribution(p).failed_uids]
  OBVIOUS
<1>2. PICK a, b, c, d :
          /\ IsSum(a, [p \in Prompts |-> Contribution(p).success], Prompts)
          /\ IsSum(b, [p \in Prompts |-> Contribution(p).failed], Prompts)
          /\ IsSum(c, [p \in Prompts |-> Contribution(p).outputs], Prompts)
          /\ IsSum(d, [p \in Prompts |-> Contribution(p).failed_uids], Prompts)
          /\ Totals.success = a[Prompts] /\ Totals.failed = b[Prompts]
          /\ Totals.outputs = c[Prompts] /\ Totals.failed_uids = d[Prompts]
  BY TotalsAre, Zenon
<1>3. /\ IsSum(a, success, Prompts) /\ IsSum(b, failed, Prompts)
      /\ IsSum(c, outputs, Prompts) /\ IsSum(d, failed_uids, Prompts)
      /\ Totals.success = a[Prompts] /\ Totals.failed = b[Prompts]
      /\ Totals.outputs = c[Prompts] /\ Totals.failed_uids = d[Prompts]
  BY <1>2, <1>1, Zenon
<1>4. ASSUME NEW p \in Prompts
      PROVE  /\ success[p] \in Nat /\ failed[p] \in Nat /\ success[p] + failed[p] = N
             /\ outputs[p] = IF prompt[p] = "returned"
                             THEN Cardinality(KeysOf(p, queue)) ELSE 0
             /\ failed_uids[p] = IF prompt[p] = "raised" \/ tag[p] = "failure"
                                 THEN 1 ELSE 0
  <2>1. counts[p].success \in Nat /\ counts[p].failed \in Nat
    BY DEF BatchInv, TypeOK, PromptType
  <2>2. CASE prompt[p] = "raised"
    <3>1. Contribution(p) = [success |-> 0, failed |-> N, outputs |-> 0, failed_uids |-> 1]
      BY <2>2 DEF Contribution
    <3> QED BY <1>1, <2>2, <3>1, SessionsAssumption
  <2>3. CASE prompt[p] = "returned"
    <3>1. Contribution(p) = [success |-> counts[p].success, failed |-> counts[p].failed,
                             outputs |-> counts[p].outputs,
                             failed_uids |-> IF counts[p].success > 0 THEN 0 ELSE 1]
      BY <2>3 DEF Contribution
    <3>2. /\ counts[p].success + counts[p].failed = N
          /\ counts[p].outputs = Cardinality(KeysOf(p, queue))
          /\ tag[p] = Status(p)
      BY <2>3 DEF AccountInv
    <3>3. counts[p].success > 0 <=> tag[p] # "failure" BY <3>2 DEF Status
    <3> QED BY <1>1, <2>1, <2>3, <3>1, <3>2, <3>3
  <2> QED BY <2>2, <2>3
<1>5. success \in [Prompts -> Nat] /\ failed \in [Prompts -> Nat] BY <1>1, <1>4
<1>6. Totals.success + Totals.failed = Cardinality(All)
  <2>1. PICK each : each = [p \in Prompts |-> N] OBVIOUS
  <2>2. PICK e : IsSum(e, each, Prompts) BY SumExists, PromptsAssumption
  <2>3. each \in [Prompts -> Nat] BY <2>1, SessionsAssumption
  <2>4. \A p \in Prompts : success[p] + failed[p] = each[p] BY <1>4, <2>1
  <2>5. a[Prompts] + b[Prompts] = e[Prompts]
    BY <1>3, <1>5, <2>2, <2>3, <2>4, SumOfTwo, PromptsAssumption
  <2>6. PICK h : h = [ps \in All |-> ps[1]] OBVIOUS
  <2>7. h \in [All -> Prompts] BY <2>6 DEF All
  <2>8. ASSUME NEW p \in Prompts PROVE each[p] = Cardinality({ps \in All : h[ps] = p})
    <3>1. {ps \in All : h[ps] = p} = {ps \in All : ps[1] = p} BY <2>6
    <3> QED BY <2>1, <3>1, SessionsCount
  <2>9. e[Prompts] = Cardinality(All)
    BY <2>2, <2>3, <2>7, <2>8, SumCounts, SessionsCount, PromptsAssumption
  <2> QED BY <1>3, <2>5, <2>9
<1>7. Totals.outputs = Cardinality({key \in queue : prompt[key[1]] = "returned"})
  <2>1. PICK T : T = {key \in queue : prompt[key[1]] = "returned"} OBVIOUS
  <2>2. T \in SUBSET queue BY <2>1
  <2>3. IsFiniteSet(T) BY <2>2, FS_Subset DEF AccountInv
  <2>4. PICK h : h = [key \in T |-> key[1]] OBVIOUS
  <2>5. h \in [T -> Prompts]
    BY <2>2, <2>4 DEF BatchInv, TypeOK, QueueType, AllKeys
  <2>6. ASSUME NEW p \in Prompts
        PROVE  outputs[p] = Cardinality({key \in T : h[key] = p}) /\ outputs[p] \in Nat
    <3>1. PICK O : O = {key \in T : h[key] = p} OBVIOUS
    <3>2. O \in SUBSET T BY <3>1
    <3>3. Cardinality(O) \in Nat BY <2>3, <3>2, FS_Subset, FS_CardinalityType
    <3>4. CASE prompt[p] = "returned"
      <4>1. O = KeysOf(p, queue) BY <2>1, <2>4, <3>1, <3>4 DEF KeysOf
      <4> QED BY <1>4, <3>1, <3>3, <3>4, <4>1
    <3>5. CASE prompt[p] # "returned"
      <4>1. O = {} BY <2>1, <2>4, <3>1, <3>5
      <4>2. Cardinality(O) = 0 BY <4>1, FS_EmptySet
      <4> QED BY <1>4, <3>1, <3>5, <4>2
    <3> QED BY <3>4, <3>5
  <2>7. outputs \in [Prompts -> Nat] BY <1>1, <2>6
  <2>8. c[Prompts] = Cardinality(T)
    BY <1>3, <2>3, <2>5, <2>6, <2>7, SumCounts, PromptsAssumption
  <2> QED BY <1>3, <2>1, <2>8
<1>8. Totals.failed_uids =
          Cardinality({p \in Prompts : prompt[p] = "raised" \/ tag[p] = "failure"})
  <2>1. PICK T : T = {p \in Prompts : prompt[p] = "raised" \/ tag[p] = "failure"} OBVIOUS
  <2>2. T \in SUBSET Prompts BY <2>1
  <2>3. IsFiniteSet(T) BY <2>2, FS_Subset, PromptsAssumption
  <2>4. PICK h : h = [p \in T |-> p] OBVIOUS
  <2>5. h \in [T -> Prompts] BY <2>2, <2>4
  <2>6. ASSUME NEW p \in Prompts
        PROVE  failed_uids[p] = Cardinality({q \in T : h[q] = p}) /\ failed_uids[p] \in Nat
    <3>1. PICK O : O = {q \in T : h[q] = p} OBVIOUS
    <3>2. CASE p \in T
      <4>1. O = {p} BY <2>4, <3>1, <3>2
      <4>2. Cardinality(O) = 1 BY <4>1, FS_Singleton
      <4> QED BY <1>4, <2>1, <3>1, <3>2, <4>2
    <3>3. CASE p \notin T
      <4>1. O = {} BY <2>4, <3>1, <3>3
      <4>2. Cardinality(O) = 0 BY <4>1, FS_EmptySet
      <4> QED BY <1>4, <2>1, <3>1, <3>3, <4>2
    <3> QED BY <3>2, <3>3
  <2>7. failed_uids \in [Prompts -> Nat] BY <1>1, <2>6
  <2>8. d[Prompts] = Cardinality(T)
    BY <1>3, <2>3, <2>5, <2>6, <2>7, SumCounts, PromptsAssumption
  <2> QED BY <1>3, <2>1, <2>8
<1> QED BY <1>6, <1>7, <1>8

LEMMA AccountInit == Init => AccountInv
<1> SUFFICES ASSUME Init PROVE AccountInv OBVIOUS
<1>1. queue = {} /\ batch = "running" BY DEF Init
<1>2. IsFiniteSet(queue) /\ Cardinality({}) = 0 BY <1>1, FS_EmptySet
<1>3. ASSUME NEW p \in Prompts
      PROVE  /\ counts[p].success + counts[p].failed = cursor[p]
             /\ counts[p].outputs = Cardinality(KeysOf(p, queue))
             /\ prompt[p] # "returned"
  <2>1. KeysOf(p, queue) = {} BY <1>1 DEF KeysOf
  <2>2. counts[p] = Zero /\ cursor[p] = 0 /\ prompt[p] = "open" BY DEF Init
  <2> QED BY <1>2, <2>1, <2>2 DEF Zero
<1>4. StatsAccountForEverySession BY <1>1 DEF StatsAccountForEverySession
<1> QED BY <1>1, <1>2, <1>3, <1>4 DEF AccountInv

\* The loop of a prompt runs before the batch ends; it counts what it passes.
LEMMA CollectAccount ==
    ASSUME BatchInv, AccountInv, NEW p \in Prompts, Collect(p)
    PROVE  AccountInv'
<1>1. UNCHANGED <<session, output, batch, stats>> BY CollectFrame
<1>2. prompt[p] = "open" /\ tag[p] = None BY OpenIsUntagged
<1>3. batch = "running" BY <1>2 DEF AccountInv
<1>4. \A q \in Prompts : q # p =>
          /\ prompt'[q] = prompt[q] /\ cursor'[q] = cursor[q]
          /\ counts'[q] = counts[q] /\ tag'[q] = tag[q]
          /\ KeysOf(q, queue') = KeysOf(q, queue)
  BY OthersSame DEF BatchInv
<1>5. Passes(p) \/ Tags(p) \/ GivesUp(p) BY CollectIs
<1>6. /\ cursor[p] \in Nat
      /\ counts[p].success \in Nat /\ counts[p].failed \in Nat /\ counts[p].outputs \in Nat
  BY SessionsAssumption DEF BatchInv, TypeOK, PromptType
<1>7. /\ counts[p].success + counts[p].failed = cursor[p]
      /\ counts[p].outputs = Cardinality(KeysOf(p, queue))
  BY <1>2 DEF AccountInv
<1>8. ASSUME ToWrite(p)
      PROVE  /\ cursor[p] \in Sessions /\ Outputs(p) \in Nat
             /\ IsFiniteSet(queue \cup Keys(p, cursor[p], Outputs(p)))
  <2>1. cursor[p] \in Sessions /\ Outputs(p) \in Nat
    BY <1>8 DEF ToWrite, Looking, Outputs, BatchInv, TypeOK, SessionType
  <2>2. PICK K : K = Keys(p, cursor[p], Outputs(p)) OBVIOUS
  <2>3. IsFiniteSet(K) BY <2>1, <2>2, KeysCount
  <2>4. IsFiniteSet(queue) BY DEF AccountInv
  <2> QED BY <2>1, <2>2, <2>3, <2>4, FS_Union
<1>9. IsFiniteSet(queue')
  <2>1. queue' = queue \/ (ToWrite(p) /\ Writes(p))
    BY <1>5 DEF Passes, Tags, GivesUp
  <2>2. IsFiniteSet(queue) BY DEF AccountInv
  <2> QED BY <1>8, <2>1, <2>2 DEF Writes
<1>10. ASSUME Passes(p)
       PROVE  /\ counts'[p].success + counts'[p].failed = cursor'[p]
              /\ counts'[p].outputs = Cardinality(KeysOf(p, queue'))
              /\ prompt'[p] = "open"
  <2>1. cursor'[p] = cursor[p] + 1 /\ prompt'[p] = "open"
    BY <1>2, <1>10 DEF Passes, BatchInv, TypeOK, PromptType
  <2>2. CASE Failed(p) /\ Count(p, 0, 1, 0) /\ queue' = queue
    <3>1. counts'[p] = [success |-> counts[p].success + 0, failed |-> counts[p].failed + 1,
                        outputs |-> counts[p].outputs + 0]
      BY <2>2 DEF Count, BatchInv, TypeOK, PromptType
    <3>2. KeysOf(p, queue') = KeysOf(p, queue) BY <2>2
    <3> QED BY <1>6, <1>7, <2>1, <3>1, <3>2
  <2>3. CASE ToWrite(p) /\ Count(p, 1, 0, Outputs(p)) /\ Writes(p)
    <3>1. counts'[p] = [success |-> counts[p].success + 1, failed |-> counts[p].failed + 0,
                        outputs |-> counts[p].outputs + Outputs(p)]
      BY <2>3 DEF Count, BatchInv, TypeOK, PromptType
    <3>2. cursor[p] \in Sessions /\ Outputs(p) \in Nat BY <1>8, <2>3
    <3>3. PICK K, old, new : /\ K = Keys(p, cursor[p], Outputs(p))
                             /\ old = KeysOf(p, queue) /\ new = KeysOf(p, queue')
      OBVIOUS
    <3>4. new = old \cup K
      <4>1. KeysOf(p, K) = K BY <3>2, <3>3, KeysType
      <4>2. queue' = queue \cup K BY <2>3, <3>3 DEF Writes
      <4> QED BY <3>3, <4>1, <4>2 DEF KeysOf
    <3>5. old \cap K = {}
      <4>1. old = Written(p, cursor[p]) BY <1>2, <3>3 DEF BatchInv, WrittenInv, Sound
      <4>2. \A key \in old : key[2] \in 0 .. cursor[p] - 1 BY <4>1 DEF Written, Keys
      <4>3. \A key \in K : key[2] = cursor[p] BY <3>3 DEF Keys
      <4> QED BY <1>6, <4>2, <4>3
    <3>6. IsFiniteSet(K) /\ Cardinality(K) = Outputs(p) BY <3>2, <3>3, KeysCount
    <3>7. old \in SUBSET queue BY <3>3 DEF KeysOf
    <3>8. IsFiniteSet(old) BY <3>7, FS_Subset DEF AccountInv
    <3>9. Cardinality(old \cap K) = 0 BY <3>5, FS_EmptySet
    <3>10. Cardinality(old \cup K) = Cardinality(old) + Cardinality(K) - Cardinality(old \cap K)
      BY <3>6, <3>8, FS_Union
    <3>11. Cardinality(old) = counts[p].outputs BY <1>7, <3>3
    <3>12. Cardinality(new) = counts[p].outputs + Outputs(p)
      BY <1>6, <3>2, <3>4, <3>6, <3>9, <3>10, <3>11
    <3> QED BY <1>6, <1>7, <2>1, <3>1, <3>2, <3>3, <3>12
  <2> QED BY <1>10, <2>2, <2>3 DEF Passes
<1>11. ASSUME Tags(p)
       PROVE  /\ counts'[p] = counts[p] /\ cursor'[p] = cursor[p] /\ cursor[p] = N
              /\ KeysOf(p, queue') = KeysOf(p, queue)
              /\ tag'[p] = Status(p)'
  <2>1. cursor[p] = N /\ UNCHANGED <<cursor, counts, queue>> BY <1>11 DEF Tags, ToTag
  <2>2. tag'[p] = Status(p) BY <1>11 DEF Tags, BatchInv, TypeOK, QueueType
  <2>3. Status(p)' = Status(p) BY <2>1 DEF Status
  <2>4. KeysOf(p, queue') = KeysOf(p, queue) BY <2>1
  <2> QED BY <2>1, <2>2, <2>3, <2>4
<1>12. ASSUME GivesUp(p)
       PROVE  counts'[p] = counts[p] /\ cursor'[p] = cursor[p]
              /\ prompt'[p] \notin {"open", "returned"}
  BY <1>12 DEF GivesUp, EndPrompt, BatchInv, TypeOK, PromptType
<1> DEFINE Right(q) ==
        /\ counts'[q].success + counts'[q].failed = cursor'[q]
        /\ prompt'[q] \in {"open", "returned"} =>
               counts'[q].outputs = Cardinality(KeysOf(q, queue'))
        /\ prompt'[q] = "returned" => cursor'[q] = N /\ tag'[q] = Status(q)'
<1>13. Right(p)
  <2>1. CASE Passes(p) BY <1>10, <2>1
  <2>2. CASE Tags(p) BY <1>7, <1>11, <2>2
  <2>3. CASE GivesUp(p) BY <1>7, <1>12, <2>3
  <2> QED BY <1>5, <2>1, <2>2, <2>3
<1>14. ASSUME NEW q \in Prompts, q # p PROVE Right(q)
  <2>1. Status(q)' = Status(q) BY <1>4, <1>14 DEF Status
  <2>2. /\ counts[q].success + counts[q].failed = cursor[q]
        /\ prompt[q] \in {"open", "returned"} =>
               counts[q].outputs = Cardinality(KeysOf(q, queue))
        /\ prompt[q] = "returned" => cursor[q] = N /\ tag[q] = Status(q)
    BY DEF AccountInv
  <2> QED BY <1>4, <1>14, <2>1, <2>2
<1>15. \A q \in Prompts : Right(q) BY <1>13, <1>14
<1>16. StatsAccountForEverySession' BY <1>1, <1>3 DEF StatsAccountForEverySession
<1> QED BY <1>1, <1>3, <1>9, <1>15, <1>16 DEF AccountInv, KeysOf

\* The batch ends with the totals of its prompts.
LEMMA EndBatchAccount == ASSUME BatchInv, AccountInv, EndBatch PROVE AccountInv'
<1>1. UNCHANGED <<prompt, cursor, counts, queue, tag>>
  BY DEF EndBatch, promptVars, queueVars
<1>2. \A p \in Prompts : prompt[p] # "open" BY DEF EndBatch
<1>3. StatsAccountForEverySession'
  <2>1. CASE \E p \in Prompts : prompt[p] = "cancelled"
    <3>1. batch' = "propagated" BY <2>1 DEF EndBatch
    <3> QED BY <3>1 DEF StatsAccountForEverySession
  <2>2. CASE ~ \E p \in Prompts : prompt[p] = "cancelled"
    <3>1. \A p \in Prompts : prompt[p] \in {"returned", "raised"}
      BY <1>2, <2>2 DEF BatchInv, TypeOK, PromptType
    <3>2. stats' = Totals BY <2>2 DEF EndBatch
    <3>3. /\ Totals.success + Totals.failed = Cardinality(All)
          /\ Totals.outputs = Cardinality({key \in queue : prompt[key[1]] = "returned"})
          /\ Totals.failed_uids =
                 Cardinality({p \in Prompts : prompt[p] = "raised" \/ tag[p] = "failure"})
      BY <3>1, TotalsAccount
    <3> QED BY <1>1, <3>2, <3>3 DEF StatsAccountForEverySession, All, Sessions
  <2> QED BY <2>1, <2>2
<1>4. IsFiniteSet(queue') BY <1>1 DEF AccountInv
<1> QED BY <1>1, <1>2, <1>3, <1>4 DEF AccountInv, Status, KeysOf

LEMMA AccountStep == BatchInv /\ AccountInv /\ [Next]_vars => AccountInv'
<1> SUFFICES ASSUME BatchInv, AccountInv, [Next]_vars PROVE AccountInv' OBVIOUS
<1>1. ASSUME UNCHANGED <<prompt, cursor, counts, queue, tag, batch, stats>>
      PROVE  AccountInv'
  <2>1. IsFiniteSet(queue') BY <1>1 DEF AccountInv
  <2>2. StatsAccountForEverySession'
    BY <1>1 DEF AccountInv, StatsAccountForEverySession, All, Sessions
  <2> QED BY <1>1, <2>1, <2>2 DEF AccountInv, Status, KeysOf
<1>2. ASSUME NEW p \in Prompts, NEW i \in Sessions, RunSession(p, i) PROVE AccountInv'
  BY <1>1, <1>2, RunSessionIs
     DEF BatchInv, SessionStep, promptVars, batchVars, queueVars
<1>3. ASSUME NEW p \in Prompts, Collect(p) PROVE AccountInv' BY <1>3, CollectAccount
<1>4. CASE EndBatch BY <1>4, EndBatchAccount
<1>5. CASE Poll \/ Sample \/ SampleRaises \/ UNCHANGED vars
  BY <1>1, <1>5 DEF Poll, Sample, SampleRaises, vars, promptVars, batchVars, queueVars
<1> QED BY <1>2, <1>3, <1>4, <1>5 DEF Next

-----------------------------------------------------------------------------
(* The batch implements the store of groups *)

(* The abstract state, function by function.                               *)
OverOf == [p \in Prompts |-> {i \in Sessions : session[p][i] \in Over}]
StatusOf == [p \in Prompts |-> IF tag[p] = None THEN "running" ELSE tag[p]]
GroupOf == [p \in Prompts |-> IF tag[p] = None THEN {} ELSE {key \in queue : key[1] = p}]
ReplicaOf ==
    [p \in Prompts |->
        IF seen.status[p] \in Tagged
        THEN [status |-> seen.status[p], group |-> {key \in seen.keys : key[1] = p}]
        ELSE [status |-> "running", group |-> {}]]

\* Nothing has ended, and nothing is published, at first.
LEMMA StoreStart == Init => Store!StoreInit
<1> SUFFICES ASSUME Init PROVE Store!StoreInit OBVIOUS
<1>1. OverOf = [p \in Prompts |-> {}] BY DEF Init, OverOf, Over
<1>2. StatusOf = [p \in Prompts |-> "running"] BY DEF Init, StatusOf
<1>3. GroupOf = [p \in Prompts |-> {}] BY DEF Init, GroupOf
<1>4. ReplicaOf = [p \in Prompts |-> [status |-> "running", group |-> {}]]
  <2>1. \A p \in Prompts : seen.status[p] \notin Tagged
    BY NoneAssumption DEF Init, Submitted, Tagged
  <2> QED BY <2>1 DEF ReplicaOf
<1> QED BY <1>1, <1>2, <1>3, <1>4
       DEF Init, Store!StoreInit, OverOf, StatusOf, GroupOf, ReplicaOf

\* A session that ends is one of the store that does; one that starts is nothing to it.
LEMMA SessionIsEnd ==
    ASSUME BatchInv, NEW p \in Prompts, NEW i \in Sessions, RunSession(p, i)
    PROVE  Store!EndSession(p, i) \/ UNCHANGED Store!storeVars
<1>1. SessionStep(p, i) BY RunSessionIs DEF BatchInv
<1>2. UNCHANGED <<queue, tag, seen>>
  BY <1>1 DEF SessionStep, queueVars, trainerVars
<1>3. StatusOf' = StatusOf /\ GroupOf' = GroupOf /\ ReplicaOf' = ReplicaOf
  BY <1>2 DEF StatusOf, GroupOf, ReplicaOf
<1>4. PICK state \in {"running"} \cup Over, k \in Nat :
          /\ session' = [session EXCEPT ![p][i] = state]
          /\ output' = [output EXCEPT ![p][i] = k]
          /\ state # "returned" => k = output[p][i]
  BY <1>1 DEF SessionStep
<1>5. session[p][i] \notin Over BY <1>1 DEF SessionStep
<1>6. /\ session'[p][i] = state /\ output'[p][i] = k
      /\ \A q \in Prompts, j \in Sessions : q # p \/ j # i => session'[q][j] = session[q][j]
  BY <1>4 DEF BatchInv, TypeOK, SessionType
<1>7. CASE state \in Over
  <2>1. OverOf' = [OverOf EXCEPT ![p] = @ \cup {i}]
    <3>1. ASSUME NEW q \in Prompts
          PROVE  {j \in Sessions : session'[q][j] \in Over}
                   = IF q = p THEN {j \in Sessions : session[p][j] \in Over} \cup {i}
                     ELSE {j \in Sessions : session[q][j] \in Over}
      BY <1>6, <1>7
    <3> QED BY <3>1 DEF OverOf
  <2>2. i \in Sessions \ OverOf[p] BY <1>5 DEF OverOf
  <2>3. output'[p][i] \in Nat /\ output' = [output EXCEPT ![p][i] = output'[p][i]]
    BY <1>4, <1>6
  <2>4. Store!EndSession(p, i)
    BY <1>3, <2>1, <2>2, <2>3
       DEF Store!EndSession, OverOf, StatusOf, GroupOf, ReplicaOf
  <2> QED BY <2>4
<1>8. CASE state \notin Over
  <2>1. OverOf' = OverOf
    <3>1. ASSUME NEW q \in Prompts
          PROVE  {j \in Sessions : session'[q][j] \in Over}
                   = {j \in Sessions : session[q][j] \in Over}
      BY <1>5, <1>6, <1>8
    <3> QED BY <3>1 DEF OverOf
  <2>2. output' = output
    <3>1. k = output[p][i] BY <1>4, <1>8 DEF Over
    <3> QED BY <1>4, <3>1 DEF BatchInv, TypeOK, SessionType
  <2> QED BY <1>3, <2>1, <2>2 DEF Store!storeVars, OverOf, StatusOf, GroupOf, ReplicaOf
<1> QED BY <1>7, <1>8

\* The loop of a prompt publishes its group with the tag, whole; until then, and when
\* it gives up, the store has none of it.
LEMMA CollectIsPublish ==
    ASSUME BatchInv, NEW p \in Prompts, Collect(p)
    PROVE  Store!Publish(p) \/ UNCHANGED Store!storeVars
<1>1. UNCHANGED <<session, output, seen>> BY CollectFrame
<1>2. OverOf' = OverOf /\ ReplicaOf' = ReplicaOf BY <1>1 DEF OverOf, ReplicaOf
<1>3. prompt[p] = "open" /\ tag[p] = None BY OpenIsUntagged
<1>4. \A q \in Prompts : q # p =>
          tag'[q] = tag[q] /\ KeysOf(q, queue') = KeysOf(q, queue)
  BY OthersSame DEF BatchInv
<1>5. CASE Passes(p) \/ GivesUp(p)
  <2>1. tag' = tag BY <1>5 DEF Passes, GivesUp
  <2>2. StatusOf' = StatusOf BY <2>1 DEF StatusOf
  <2>3. GroupOf' = GroupOf BY <1>3, <1>4, <2>1 DEF GroupOf, KeysOf
  <2> QED BY <1>1, <1>2, <2>2, <2>3
         DEF Store!storeVars, OverOf, StatusOf, GroupOf, ReplicaOf
<1>6. CASE Tags(p)
  <2>1. cursor[p] = N /\ queue' = queue /\ tag' = [tag EXCEPT ![p] = Status(p)]
    BY <1>6 DEF Tags, ToTag
  <2>2. \A i \in Sessions : session[p][i] \in Over BY <1>6 DEF Tags, ToTag, Gathered
  <2>3. OverOf[p] = Sessions BY <2>2 DEF OverOf
  <2>4. tag'[p] = Status(p) BY <2>1 DEF BatchInv, TypeOK, QueueType
  <2>5. /\ KeysOf(p, queue) = Written(p, N)
        /\ counts[p].success > 0 <=> KeysOf(p, queue) # {}
    BY <1>3, <2>1 DEF BatchInv, WrittenInv, StatusInv, Sound
  <2>6. PICK T : T = Store!Trajectories(p) OBVIOUS
  <2>7. KeysOf(p, queue) = T
    BY <2>5, <2>6 DEF Store!Trajectories, Written, Keys, Sessions
  <2>8. Status(p) = IF T = {} THEN "failure" ELSE "finished"
    BY <2>5, <2>7 DEF Status
  <2>9. StatusOf' = [StatusOf EXCEPT ![p] = IF T = {} THEN "failure" ELSE "finished"]
    <3>1. ASSUME NEW q \in Prompts
          PROVE  (IF tag'[q] = None THEN "running" ELSE tag'[q])
                   = IF q = p THEN (IF T = {} THEN "failure" ELSE "finished") ELSE StatusOf[q]
      BY <1>4, <2>4, <2>8, NoneAssumption DEF StatusOf
    <3> QED BY <3>1 DEF StatusOf
  <2>10. GroupOf' = [GroupOf EXCEPT ![p] = T]
    <3>1. ASSUME NEW q \in Prompts
          PROVE  (IF tag'[q] = None THEN {} ELSE {key \in queue' : key[1] = q})
                   = IF q = p THEN T ELSE GroupOf[q]
      <4>1. CASE q = p
        <5>1. tag'[p] # None BY <2>4, <2>8, NoneAssumption
        <5> QED BY <2>1, <2>7, <4>1, <5>1 DEF KeysOf
      <4>2. CASE q # p BY <1>4, <2>1, <4>2 DEF GroupOf
      <4> QED BY <4>1, <4>2
    <3> QED BY <3>1 DEF GroupOf
  <2>11. StatusOf[p] = "running" BY <1>3 DEF StatusOf
  <2>12. Store!Publish(p)
    BY <1>1, <1>2, <2>3, <2>6, <2>9, <2>10, <2>11
       DEF Store!Publish, OverOf, StatusOf, GroupOf, ReplicaOf
  <2> QED BY <2>12
<1> QED BY <1>5, <1>6, CollectIs

\* A poll reads every group as it is in the queue, and whole, if its tag is there.
LEMMA PollIsRead == ASSUME BatchInv, Poll PROVE Store!Read
<1>1. UNCHANGED <<session, output, queue, tag>>
  BY DEF Poll, sessionVars, queueVars
<1>2. OverOf' = OverOf /\ StatusOf' = StatusOf /\ GroupOf' = GroupOf
  BY <1>1 DEF OverOf, StatusOf, GroupOf
<1>3. ASSUME NEW p \in Prompts
      PROVE  /\ seen'.keys = queue
             /\ seen'.status[p] = IF tag[p] = None THEN seen.status[p] ELSE tag[p]
  BY DEF Poll
<1>4. ASSUME NEW p \in Prompts
      PROVE  (IF seen'.status[p] \in Tagged
              THEN [status |-> seen'.status[p], group |-> {key \in seen'.keys : key[1] = p}]
              ELSE [status |-> "running", group |-> {}])
                = [status |-> StatusOf[p], group |-> GroupOf[p]]
  <2>1. CASE tag[p] = None
    <3>1. seen'.status[p] \notin Tagged BY <1>3, <2>1 DEF BatchInv, SeenInv
    <3>2. StatusOf[p] = "running" /\ GroupOf[p] = {} BY <2>1 DEF StatusOf, GroupOf
    <3> QED BY <3>1, <3>2
  <2>2. CASE tag[p] # None
    <3>1. tag[p] \in Tagged BY <2>2 DEF BatchInv, TypeOK, QueueType, Tagged
    <3>2. StatusOf[p] = tag[p] /\ GroupOf[p] = {key \in queue : key[1] = p}
      BY <2>2 DEF StatusOf, GroupOf
    <3> QED BY <1>3, <2>2, <3>1, <3>2
  <2> QED BY <2>1, <2>2
<1>5. ReplicaOf' = [p \in Prompts |-> [status |-> StatusOf[p], group |-> GroupOf[p]]]
  BY <1>4 DEF ReplicaOf
<1> QED BY <1>1, <1>2, <1>5 DEF Store!Read, OverOf, StatusOf, GroupOf, ReplicaOf

\* Every step of the batch is a step of the store, or nothing to it.
LEMMA StepIsStored == BatchInv /\ [Next]_vars => [Store!StoreNext]_(Store!storeVars)
<1> SUFFICES ASSUME BatchInv, [Next]_vars
             PROVE  Store!StoreNext \/ UNCHANGED Store!storeVars
  OBVIOUS
<1>1. ASSUME NEW p \in Prompts, NEW i \in Sessions, RunSession(p, i)
      PROVE  Store!StoreNext \/ UNCHANGED Store!storeVars
  BY <1>1, SessionIsEnd DEF Store!StoreNext
<1>2. ASSUME NEW p \in Prompts, Collect(p)
      PROVE  Store!StoreNext \/ UNCHANGED Store!storeVars
  BY <1>2, CollectIsPublish DEF Store!StoreNext
<1>3. CASE Poll BY <1>3, PollIsRead DEF Store!StoreNext
<1>4. CASE EndBatch \/ Sample \/ SampleRaises \/ UNCHANGED vars
  <2>1. UNCHANGED <<session, output, queue, tag, seen>>
    BY <1>4 DEF EndBatch, Sample, SampleRaises, vars, sessionVars, queueVars, trainerVars
  <2> QED BY <2>1 DEF Store!storeVars
<1> QED BY <1>1, <1>2, <1>3, <1>4 DEF Next

-----------------------------------------------------------------------------
(* Theorems *)

\* The inductive invariant of a batch: what the loop of a prompt has passed, counted
\* and written agree, and a replica with a uid's tag has all of its keys, whether or not the
\* trainer knew the uid before.
THEOREM Safety == Spec => []BatchInv
BY BatchInit, BatchStep, PTL DEF Spec

\* The variables keep their types, the sums of the statistics (framework.py:367-370)
\* with them.
THEOREM TypeCorrect == Spec => []TypeOK
<1>1. BatchInv => TypeOK BY DEF BatchInv
<1> QED BY <1>1, Safety, PTL

\* A replica with the tag of a uid has its whole group, however the trainer's polls fall
\* between the puts of the prompts' loops (_write_session_trajectories_to_tq before the
\* tag), marked or not; and the sample of a trainer that has marked the uids is made of
\* whole groups.
THEOREM WholeGroups == Spec => []GroupsAreWhole
<1>1. ASSUME BatchInv, NEW p \in Prompts, tag[p] # None
      PROVE  KeysOf(p, queue) = SuccessfulKeys(p)
  <2>1. KeysOf(p, queue) = Written(p, N)
    BY <1>1 DEF BatchInv, ProgressInv, WrittenInv, Sound
  <2> QED BY <2>1 DEF Written, SuccessfulKeys, Sessions
<1>2. BatchInv => TaggedIsWhole
  <2> SUFFICES ASSUME BatchInv, NEW p \in Prompts, seen.status[p] \in Tagged
               PROVE  {key \in seen.keys : key[1] = p} = SuccessfulKeys(p)
    BY DEF TaggedIsWhole
  <2>1. tag[p] # None /\ KeysOf(p, seen.keys) = KeysOf(p, queue) BY DEF BatchInv, SeenInv
  <2> QED BY <1>1, <2>1 DEF KeysOf
<1>3. BatchInv => MarkedSampleIsWhole
  <2> SUFFICES ASSUME BatchInv, marked, trainer = "sampled"
               PROVE  sample = UNION {SuccessfulKeys(p) : p \in Prompts}
    BY DEF MarkedSampleIsWhole
  <2>1. ASSUME NEW p \in Prompts PROVE KeysOf(p, sample) = SuccessfulKeys(p)
    <3>1. tag[p] # None /\ KeysOf(p, sample) = KeysOf(p, queue)
      BY DEF BatchInv, SampledInv
    <3> QED BY <1>1, <3>1
  <2>2. \A key \in sample : key[1] \in Prompts
    BY DEF BatchInv, TypeOK, TrainerType, AllKeys
  <2>3. sample = UNION {KeysOf(p, sample) : p \in Prompts} BY <2>2 DEF KeysOf
  <2> QED BY <2>1, <2>3
<1>4. BatchInv => GroupsAreWhole BY <1>2, <1>3 DEF GroupsAreWhole
<1> QED BY <1>4, Safety, PTL

\* A uid is tagged "finished" exactly when it has trajectories in the queue: the count
\* of successes the tag is made of (framework.py:436) has not lost touch with the puts.
THEOREM TagTellsOutputs == Spec => []StatusTellsOutputs
<1>1. BatchInv => StatusTellsOutputs
  <2> SUFFICES ASSUME BatchInv, NEW p \in Prompts, tag[p] # None
               PROVE  tag[p] = "finished" <=> \E key \in queue : key[1] = p
    BY DEF StatusTellsOutputs
  <2>1. tag[p] = Status(p) /\ (counts[p].success > 0 <=> KeysOf(p, queue) # {})
    BY DEF BatchInv, StatusInv, Sound
  <2> QED BY <2>1 DEF Status, KeysOf
<1> QED BY <1>1, Safety, PTL

\* Once a batch has ended its statistics add up (framework.py:340-375): every session
\* of every prompt is counted once, the outputs are the keys in the queue of the
\* prompts that returned, and the failed uids are those that raised or were tagged so.
THEOREM StatsAddUp == Spec => []StatsAccountForEverySession
<1>1. Init => BatchInv /\ AccountInv BY BatchInit, AccountInit
<1>2. BatchInv /\ AccountInv /\ [Next]_vars => (BatchInv /\ AccountInv)'
  BY BatchStep, AccountStep
<1>3. AccountInv => StatsAccountForEverySession BY DEF AccountInv
<1> QED BY <1>1, <1>2, <1>3, PTL DEF Spec

\* The batch implements the store of groups (module GroupStore): what the loops put
\* piece by piece and the trainer reads from a replica is a group published at once,
\* whole and with the status it has, or never, and read as it was published.
THEOREM Implementation == Spec => ImplementsGroups
BY StoreStart, StepIsStored, Safety, PTL DEF Spec, ImplementsGroups, Store!StoreSpec
=============================================================================
