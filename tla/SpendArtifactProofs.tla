--------------------------- MODULE SpendArtifactProofs ---------------------------
(***************************************************************************)
(* What SpendArtifact says of a spend, from the typed destinations to the  *)
(* bytes that are submitted, for every layout, chain length, set of tags,  *)
(* references and amounts that its assumptions allow. The order is that of *)
(* the data: sums and digits, the one-time signature's chains, the image   *)
(* on the wire and its reading, the plan, its signature, the order of the  *)
(* destinations, their references, what the planner refuses, a spend typed *)
(* again, a damaged copy; and last the inductive invariant.                *)
(***************************************************************************)
EXTENDS SpendArtifact, FiniteSetTheorems, FunctionTheorems, SequenceTheorems,
        WellFoundedInduction, TLAPS

-----------------------------------------------------------------------------
(* Induction, and functions defined by recursion.                           *)

\* A nonempty set of natural numbers has a least element.
LEMMA LeastNatural ==
  ASSUME NEW T, T \subseteq Nat, T # {}
  PROVE  \E x \in T : \A y \in T : x <= y
<1> DEFINE R == StrictSubsetOrdering(Nat)
           U == {0 .. t : t \in T}
<1>1. U \subseteq FiniteSubsetsOf(Nat) /\ U # {}
  <2>1. \A t \in T : 0 .. t \subseteq Nat /\ IsFiniteSet(0 .. t)
    BY FS_Interval
  <2>2. QED
    BY <2>1 DEF FiniteSubsetsOf
<1>2. IsWellFoundedOn(R, FiniteSubsetsOf(Nat))
  BY FS_StrictSubsetOrderingWellFounded
<1>3. PICK u \in U : \A v \in U : ~ (<<v, u>> \in R)
  <2> HIDE DEF R, U
  <2>1. QED
    BY <1>1, <1>2, WFMin
<1>4. PICK x \in T : u = 0 .. x
  BY <1>3
<1>5. ASSUME NEW y \in T, y < x
      PROVE  FALSE
  <2>1. <<0 .. y, 0 .. x>> \in (SUBSET Nat) \X (SUBSET Nat)
    BY <1>4
  <2>2. 0 .. y \subseteq 0 .. x /\ x \in 0 .. x /\ x \notin 0 .. y
    BY <1>4, <1>5
  <2>3. 0 .. y # 0 .. x
    BY <2>2
  <2>4. <<0 .. y, 0 .. x>> \in R
    BY <2>1, <2>2, <2>3 DEF StrictSubsetOrdering
  <2>5. QED
    BY <1>3, <1>4, <2>4
<1>6. QED
  BY <1>4, <1>5

\* What holds of 0, and of i whenever of i - 1, holds up to n: T is the set of
\* the numbers of which it holds.
LEMMA UpTo ==
  ASSUME NEW n \in Nat, NEW T, 0 \in T, \A i \in 1 .. n : i - 1 \in T => i \in T
  PROVE  \A i \in 0 .. n : i \in T
<1> DEFINE Bad == {i \in 0 .. n : i \notin T}
<1>1. SUFFICES ASSUME Bad # {} PROVE FALSE
  OBVIOUS
<1>2. PICK m \in Bad : \A i \in Bad : m <= i
  <2>1. Bad \subseteq Nat
    OBVIOUS
  <2> HIDE DEF Bad
  <2>2. QED
    BY <1>1, <2>1, LeastNatural
<1>3. m # 0
  BY <1>2
<1>4. m - 1 \in 0 .. n /\ m - 1 \notin Bad
  BY <1>2, <1>3
<1>5. QED
  BY <1>2, <1>3, <1>4

\* A function of 1 .. n built up by step from base.
Recursive(V, base, n, step) ==
  base \in V /\ n \in Nat /\ step \in [V \X (1 .. n) -> V]

\* Some function is.
Unrolls(V, base, n, step) ==
  \E g \in [0 .. n -> V] : g[0] = base /\ \A i \in 1 .. n : g[i] = step[<<g[i - 1], i>>]

\* A recursion has a function, whatever the step: it is found one longer from
\* one shorter.
LEMMA Recursion ==
  ASSUME NEW V, NEW base, NEW n, NEW step, Recursive(V, base, n, step)
  PROVE  Unrolls(V, base, n, step)
<1> DEFINE Good(g, m) == g[0] = base /\ \A i \in 1 .. m : g[i] = step[<<g[i - 1], i>>]
           T == {m \in 0 .. n : \E g \in [0 .. m -> V] : Good(g, m)}
<1> base \in V /\ n \in Nat /\ step \in [V \X (1 .. n) -> V]
  BY DEF Recursive
<1>1. 0 \in T
  <2> DEFINE h == [i \in 0 .. 0 |-> base]
  <2>1. h \in [0 .. 0 -> V] /\ Good(h, 0)
    OBVIOUS
  <2>2. 0 \in 0 .. n
    OBVIOUS
  <2> HIDE DEF h, Good
  <2>3. QED
    BY <2>1, <2>2
<1>2. ASSUME NEW m \in 1 .. n, m - 1 \in T
      PROVE  m \in T
  <2>1. PICK g \in [0 .. m - 1 -> V] : Good(g, m - 1)
    BY <1>2
  <2> DEFINE h == [i \in 0 .. m |-> IF i = m THEN step[<<g[m - 1], m>>] ELSE g[i]]
  <2>2. step[<<g[m - 1], m>>] \in V
    <3>1. <<g[m - 1], m>> \in V \X (1 .. n)
      BY <2>1
    <3>2. QED
      BY <3>1
  <2>3. h \in [0 .. m -> V]
    BY <2>1, <2>2
  <2>4. h[0] = base
    BY <2>1
  <2>5. ASSUME NEW i \in 1 .. m
        PROVE  h[i] = step[<<h[i - 1], i>>]
    <3>1. i \in Int /\ i - 1 \in 0 .. m - 1 /\ i - 1 # m
      OBVIOUS
    <3>5. h[i - 1] = g[i - 1]
      BY <3>1
    <3>2. h[i] = IF i = m THEN step[<<g[m - 1], m>>] ELSE g[i]
      OBVIOUS
    <3> HIDE DEF h
    <3>3. CASE i = m
      BY <3>5, <3>2, <3>3
    <3>4. CASE i # m
      <4>1. i \in 1 .. m - 1
        BY <3>4
      <4>2. QED
        BY <2>1, <3>2, <3>5, <4>1
    <3>6. QED
      BY <3>3, <3>4
  <2>6. Good(h, m)
    BY <2>4, <2>5
  <2> HIDE DEF h, Good
  <2>7. QED
    BY <2>3, <2>6
<1>3. n \in T
  <2> HIDE DEF T
  <2>1. QED
    BY <1>1, <1>2, UpTo
<1>4. QED
  BY <1>3 DEF Unrolls

-----------------------------------------------------------------------------
(* Sums.                                                                    *)

\* Terms 1 .. n of a sum.
Summand(f, n) == n \in Nat /\ \A i \in 1 .. n : f[i] \in Int

\* A sum is the sum before its last term, and the last term.
LEMMA TotalStep ==
  ASSUME NEW f, NEW n, Summand(f, n)
  PROVE  /\ Total(f, 0) = 0
         /\ \A i \in 1 .. n : Total(f, i) = Total(f, i - 1) + f[i]
         /\ \A i \in 0 .. n : Total(f, i) \in Int
<1>1. n \in Nat /\ \A i \in 1 .. n : f[i] \in Int
  BY DEF Summand
<1> DEFINE step == [p \in Int \X (1 .. n) |-> p[1] + f[p[2]]]
<1>2. step \in [Int \X (1 .. n) -> Int]
  BY <1>1
<1>3. PICK g \in [0 .. n -> Int] : g[0] = 0 /\ \A i \in 1 .. n : g[i] = step[<<g[i - 1], i>>]
  <2>1. Recursive(Int, 0, n, step)
    BY <1>1, <1>2 DEF Recursive
  <2> HIDE DEF step
  <2>2. Unrolls(Int, 0, n, step)
    BY <2>1, Recursion, Zenon
  <2>3. QED
    BY <2>2 DEF Unrolls
<1>4. \A i \in 1 .. n : g[i] = g[i - 1] + f[i]
  <2> TAKE i \in 1 .. n
  <2>1. i - 1 \in 0 .. n
    BY <1>1
  <2>2. g[i - 1] \in Int
    BY <1>3, <2>1
  <2>4. <<g[i - 1], i>> \in Int \X (1 .. n)
    BY <2>2
  <2>3. QED
    BY <1>3, <2>4
<1>5. ASSUME NEW m \in 0 .. n
      PROVE  Total(f, m) = g[m]
  <2> DEFINE sum == CHOOSE s : s = [i \in 0 .. m |-> IF i = 0 THEN 0 ELSE s[i - 1] + f[i]]
             k == [i \in 0 .. m |-> g[i]]
             T == {i \in 0 .. m : sum[i] = g[i]}
  <2>1. k = [i \in 0 .. m |-> IF i = 0 THEN 0 ELSE k[i - 1] + f[i]]
    <3>1. \A i \in 1 .. m : i \in 1 .. n /\ i - 1 \in 0 .. m
      BY <1>1
    <3>2. \A i \in 0 .. m : k[i] = IF i = 0 THEN 0 ELSE k[i - 1] + f[i]
      BY <1>3, <1>4, <3>1
    <3>3. QED
      BY <3>2
  <2>2. sum = [i \in 0 .. m |-> IF i = 0 THEN 0 ELSE sum[i - 1] + f[i]]
    <3> HIDE DEF k
    <3>1. QED
      BY <2>1
  <2>3. 0 \in T
    <3> HIDE DEF sum
    <3>1. QED
      BY <2>2, <1>3
  <2>4. \A i \in 1 .. m : i - 1 \in T => i \in T
    <3> HIDE DEF sum
    <3>1. QED
      BY <2>2, <1>1, <1>4
  <2>5. m \in T
    <3> HIDE DEF T
    <3>1. m \in Nat
      OBVIOUS
    <3>2. QED
      BY <2>3, <2>4, <3>1, UpTo
  <2>6. QED
    BY <2>5 DEF Total
<1>6. QED
  BY <1>1, <1>3, <1>4, <1>5

\* A sum no term of which is more than another's is not more than it; and it is
\* less where a term is.
LEMMA TotalCompares ==
  ASSUME NEW f, NEW g, NEW n, Summand(f, n), Summand(g, n),
         \A i \in 1 .. n : f[i] <= g[i]
  PROVE  /\ Total(f, n) <= Total(g, n)
         /\ \A k \in 1 .. n : f[k] < g[k] => Total(f, n) < Total(g, n)
<1> n \in Nat /\ \A i \in 1 .. n : f[i] \in Int /\ g[i] \in Int
  BY DEF Summand
<1> DEFINE T == {i \in 0 .. n : /\ Total(f, i) <= Total(g, i)
                                /\ \A k \in 1 .. i : f[k] < g[k] => Total(f, i) < Total(g, i)}
<1>1. 0 \in T
  BY TotalStep
<1>2. ASSUME NEW i \in 1 .. n, i - 1 \in T
      PROVE  i \in T
  <2>1. Total(f, i - 1) <= Total(g, i - 1) /\ f[i] <= g[i]
    BY <1>2
  <2>2. /\ Total(f, i) = Total(f, i - 1) + f[i] /\ Total(g, i) = Total(g, i - 1) + g[i]
        /\ Total(f, i - 1) \in Int /\ Total(g, i - 1) \in Int
    <3>1. i - 1 \in 0 .. n
      OBVIOUS
    <3>2. QED
      BY <3>1, TotalStep
  <2>3. Total(f, i) <= Total(g, i)
    BY <2>1, <2>2
  <2>4. ASSUME NEW k \in 1 .. i, f[k] < g[k]
        PROVE  Total(f, i) < Total(g, i)
    <3>1. CASE k = i
      BY <3>1, <2>1, <2>2, <2>4
    <3>2. CASE k # i
      <4>1. k \in 1 .. i - 1
        BY <3>2
      <4>2. Total(f, i - 1) < Total(g, i - 1)
        BY <4>1, <1>2, <2>4
      <4>3. QED
        BY <4>2, <2>1, <2>2
    <3>3. QED
      BY <3>1, <3>2
  <2>5. QED
    BY <2>3, <2>4
<1>3. n \in T
  <2> HIDE DEF T
  <2>1. QED
    BY <1>1, <1>2, UpTo
<1>4. QED
  BY <1>3

\* Sums of the same terms are the same.
LEMMA TotalOfSame ==
  ASSUME NEW f, NEW g, NEW n, Summand(f, n), \A i \in 1 .. n : g[i] = f[i]
  PROVE  Total(g, n) = Total(f, n)
<1>1. Summand(g, n) /\ n \in Nat /\ \A i \in 1 .. n : f[i] \in Int /\ f[i] <= g[i] /\ g[i] <= f[i]
  BY DEF Summand
<1>2. Total(f, n) <= Total(g, n)
  BY <1>1, TotalCompares
<1>3. Total(g, n) <= Total(f, n)
  BY <1>1, TotalCompares
<1>4. Total(f, n) \in Int /\ Total(g, n) \in Int
  BY <1>1, TotalStep
<1>5. QED
  BY <1>2, <1>3, <1>4

\* A sum of terms in 0 .. c is in 0 .. n * c, and is not less than a part of it.
LEMMA TotalBounds ==
  ASSUME NEW f, NEW n \in Nat, NEW c \in Nat, \A i \in 1 .. n : f[i] \in 0 .. c
  PROVE  /\ Summand(f, n)
         /\ Total(f, n) \in 0 .. n * c
         /\ \A i \in 0 .. n : Total(f, i) \in 0 .. Total(f, n)
<1>0. Summand(f, n)
  BY DEF Summand
<1> DEFINE T == {i \in 0 .. n : /\ Total(f, i) \in 0 .. i * c
                                /\ \A k \in 0 .. i : Total(f, k) \in 0 .. Total(f, i)}
<1>1. 0 \in T
  BY <1>0, TotalStep
<1>2. ASSUME NEW i \in 1 .. n, i - 1 \in T
      PROVE  i \in T
  <2>1. /\ Total(f, i) = Total(f, i - 1) + f[i]
        /\ Total(f, i - 1) \in Int /\ Total(f, i) \in Int
    <3>1. i - 1 \in 0 .. n
      OBVIOUS
    <3>2. QED
      BY <1>0, <3>1, TotalStep
  <2>2. Total(f, i - 1) \in 0 .. (i - 1) * c /\ f[i] \in 0 .. c
    BY <1>2
  <2>3. (i - 1) * c + c = i * c /\ (i - 1) * c \in Int /\ i * c \in Int
    OBVIOUS
  <2>4. Total(f, i) \in 0 .. i * c
    BY <2>1, <2>2, <2>3
  <2>5. ASSUME NEW k \in 0 .. i
        PROVE  Total(f, k) \in 0 .. Total(f, i)
    <3>1. CASE k = i
      BY <3>1, <2>4, <2>1
    <3>2. CASE k # i
      <4>1. k \in 0 .. i - 1
        BY <3>2
      <4>2. Total(f, k) \in 0 .. Total(f, i - 1)
        BY <4>1, <1>2
      <4>3. QED
        BY <4>2, <2>1, <2>2
    <3>3. QED
      BY <3>1, <3>2
  <2>6. QED
    BY <2>4, <2>5
<1>3. n \in T
  <2> HIDE DEF T
  <2>1. QED
    BY <1>1, <1>2, UpTo
<1>4. QED
  BY <1>0, <1>3

\* One term changed changes the sum by as much.
LEMMA TotalUpdate ==
  ASSUME NEW f, NEW g, NEW n, Summand(f, n), Summand(g, n), NEW k \in 1 .. n,
         \A i \in 1 .. n : i # k => g[i] = f[i]
  PROVE  Total(g, n) = Total(f, n) - f[k] + g[k]
<1> n \in Nat /\ \A i \in 1 .. n : f[i] \in Int /\ g[i] \in Int
  BY DEF Summand
<1> DEFINE T == {i \in 0 .. n : Total(g, i) = Total(f, i) + IF i < k THEN 0 ELSE g[k] - f[k]}
<1>1. 0 \in T
  BY TotalStep
<1>2. ASSUME NEW i \in 1 .. n, i - 1 \in T
      PROVE  i \in T
  <2>1. /\ Total(f, i) = Total(f, i - 1) + f[i] /\ Total(g, i) = Total(g, i - 1) + g[i]
        /\ Total(f, i - 1) \in Int /\ Total(g, i - 1) \in Int
    <3>1. i - 1 \in 0 .. n
      OBVIOUS
    <3>2. QED
      BY <3>1, TotalStep
  <2>2. Total(g, i - 1) = Total(f, i - 1) + IF i - 1 < k THEN 0 ELSE g[k] - f[k]
    BY <1>2
  <2>3. i # k => g[i] = f[i]
    OBVIOUS
  <2>4. QED
    BY <2>1, <2>2, <2>3
<1>3. n \in T
  <2> HIDE DEF T
  <2>1. QED
    BY <1>1, <1>2, UpTo
<1>4. Total(f, n) \in Int
  BY TotalStep
<1>5. QED
  BY <1>3, <1>4

\* An order of 1 .. n.
Arranges(p, n) ==
  /\ p \in [1 .. n -> 1 .. n]
  /\ \A i, j \in 1 .. n : p[i] = p[j] => i = j
  /\ \A j \in 1 .. n : \E i \in 1 .. n : p[i] = j

\* A sum is of its terms in any order: the last term is exchanged with the one
\* in its place, and the rest is shorter.
LEMMA TotalArranged ==
  ASSUME NEW f, NEW n, Summand(f, n), NEW p, Arranges(p, n)
  PROVE  Total([i \in 1 .. n |-> f[p[i]]], n) = Total(f, n)
<1> n \in Nat /\ \A i \in 1 .. n : f[i] \in Int
  BY DEF Summand
<1> DEFINE T == {m \in 0 .. n : \A q : Arranges(q, m) => Total([i \in 1 .. m |-> f[q[i]]], m) = Total(f, m)}
<1>1. 0 \in T
  <2>1. ASSUME NEW q
        PROVE  Total([i \in 1 .. 0 |-> f[q[i]]], 0) = Total(f, 0)
    <3>1. Summand([i \in 1 .. 0 |-> f[q[i]]], 0) /\ Summand(f, 0)
      BY DEF Summand
    <3>2. QED
      BY <3>1, TotalStep
  <2>2. QED
    BY <2>1
<1>2. ASSUME NEW m \in 1 .. n, m - 1 \in T
      PROVE  m \in T
  <2>1. SUFFICES ASSUME NEW q, Arranges(q, m)
                 PROVE  Total([i \in 1 .. m |-> f[q[i]]], m) = Total(f, m)
    OBVIOUS
  <2>2. /\ q \in [1 .. m -> 1 .. m]
        /\ \A i, j \in 1 .. m : q[i] = q[j] => i = j
        /\ \A j \in 1 .. m : \E i \in 1 .. m : q[i] = j
    BY <2>1 DEF Arranges
  <2>3. PICK k \in 1 .. m : q[k] = m
    BY <2>2
  <2> DEFINE r == [i \in 1 .. m - 1 |-> IF i = k THEN q[m] ELSE q[i]]
             a == [i \in 1 .. m |-> f[q[i]]]
             b == [i \in 1 .. m - 1 |-> f[r[i]]]
  <2>4. Arranges(r, m - 1)
    <3>0. \A i \in 1 .. m - 1 : i \in 1 .. m /\ i # m
      OBVIOUS
    <3>6. \A i \in 1 .. m : q[i] \in 1 .. m /\ (i # k => q[i] # m)
      BY <2>2, <2>3
    <3>1. \A i \in 1 .. m - 1 : r[i] \in 1 .. m /\ r[i] # m
      <4>1. TAKE i \in 1 .. m - 1
      <4>2. m \in 1 .. m
        OBVIOUS
      <4>3. CASE i = k
        BY <4>2, <4>3, <3>0, <3>6
      <4>4. CASE i # k
        BY <4>4, <3>0, <3>6
      <4>5. QED
        BY <4>3, <4>4
    <3>2. r \in [1 .. m - 1 -> 1 .. m - 1]
      BY <3>1
    <3>3. \A i, j \in 1 .. m - 1 : r[i] = r[j] => i = j
      <4>1. TAKE i, j \in 1 .. m - 1
      <4>2. m \in 1 .. m /\ i \in 1 .. m /\ j \in 1 .. m /\ i # m /\ j # m
        BY <3>0
      <4>3. r[i] = (IF i = k THEN q[m] ELSE q[i]) /\ r[j] = (IF j = k THEN q[m] ELSE q[j])
        OBVIOUS
      <4> HIDE DEF r
      <4>4. QED
        BY <4>2, <4>3, <2>2
    <3>4. ASSUME NEW j \in 1 .. m - 1
          PROVE  \E i \in 1 .. m - 1 : r[i] = j
      <4>1. PICK i \in 1 .. m : q[i] = j
        BY <2>2
      <4>2. i # k
        BY <4>1, <2>3
      <4>3. CASE i = m
        <5>1. k \in 1 .. m - 1 /\ r[k] = j
          BY <4>1, <4>2, <4>3
        <5>2. QED
          BY <5>1
      <4>4. CASE i # m
        <5>1. i \in 1 .. m - 1 /\ r[i] = j
          BY <4>1, <4>2, <4>4
        <5>2. QED
          BY <5>1
      <4>5. QED
        BY <4>3, <4>4
    <3>5. QED
      BY <3>2, <3>3, <3>4 DEF Arranges
  <2>5. Total(b, m - 1) = Total(f, m - 1)
    <3>1. \A s : Arranges(s, m - 1) => Total([i \in 1 .. m - 1 |-> f[s[i]]], m - 1) = Total(f, m - 1)
      BY <1>2
    <3> HIDE DEF r
    <3>2. QED
      BY <2>4, <3>1
  <2>6. Summand(a, m) /\ Summand(a, m - 1) /\ Summand(f, m)
    <3>1. m \in Nat /\ m - 1 \in Nat /\ 1 .. m \subseteq 1 .. n /\ 1 .. m - 1 \subseteq 1 .. m
      OBVIOUS
    <3>2. \A i \in 1 .. m : a[i] \in Int /\ f[i] \in Int
      BY <2>2, <3>1
    <3> HIDE DEF a
    <3>3. QED
      BY <3>1, <3>2 DEF Summand
  <2>7. /\ Total(a, m) = Total(a, m - 1) + a[m] /\ Total(f, m) = Total(f, m - 1) + f[m]
        /\ Total(a, m - 1) \in Int /\ Total(f, m - 1) \in Int
    <3>1. m \in 1 .. m /\ m - 1 \in 0 .. m
      OBVIOUS
    <3> HIDE DEF a
    <3>2. QED
      BY <2>6, <3>1, TotalStep
  <2>8. Summand(b, m - 1)
    <3>1. \A i \in 1 .. m - 1 : r[i] \in 1 .. m - 1 /\ r[i] \in 1 .. n
      <4> HIDE DEF r
      <4>1. 1 .. m - 1 \subseteq 1 .. n
        OBVIOUS
      <4>2. r \in [1 .. m - 1 -> 1 .. m - 1]
        BY <2>4 DEF Arranges
      <4>3. QED
        BY <4>1, <4>2
    <3> HIDE DEF r
    <3>2. \A i \in 1 .. m - 1 : b[i] \in Int
      BY <3>1
    <3> HIDE DEF b
    <3>3. QED
      BY <3>2 DEF Summand
  <2>9. CASE k = m
    <3>1. \A i \in 1 .. m - 1 : b[i] = a[i]
      BY <2>9
    <3>2. Total(b, m - 1) = Total(a, m - 1)
      <4> HIDE DEF a, b
      <4>1. QED
        BY <2>6, <3>1, TotalOfSame
    <3>3. a[m] = f[m]
      BY <2>3, <2>9
    <3> HIDE DEF a, b
    <3>4. QED
      BY <2>5, <2>7, <3>2, <3>3 DEF a
  <2>10. CASE k # m
    <3>1. k \in 1 .. m - 1 /\ \A i \in 1 .. m - 1 : i # k => b[i] = a[i]
      BY <2>10
    <3>2. b[k] = a[m] /\ a[k] = f[m]
      BY <2>3, <3>1
    <3>3. Total(b, m - 1) = Total(a, m - 1) - a[k] + b[k]
      <4> HIDE DEF a, b
      <4>1. QED
        BY <2>6, <2>8, <3>1, TotalUpdate
    <3>4. a[m] \in Int /\ a[k] \in Int
      <4> HIDE DEF a
      <4>1. QED
        BY <2>6 DEF Summand
    <3>5. Total(a, m) = Total(f, m)
      <4> HIDE DEF a, b
      <4>1. QED
        BY <2>5, <2>7, <3>2, <3>3, <3>4
    <3>6. QED
      BY <3>5
  <2>11. QED
    BY <2>9, <2>10
<1>3. n \in T
  <2> HIDE DEF T
  <2>1. QED
    BY <1>1, <1>2, UpTo
<1>4. QED
  BY <1>3

-----------------------------------------------------------------------------
(* The digits.                                                              *)

\* Division as the code's shifts and masks use it.
LEMMA Division ==
  ASSUME NEW a \in Nat, NEW b \in Nat \ {0}
  PROVE  /\ a \div b \in Nat /\ a % b \in 0 .. b - 1
         /\ a = b * (a \div b) + (a % b)
  OBVIOUS

\* The quotient and the rest are what they are of.
LEMMA DivisionOf ==
  ASSUME NEW q \in Nat, NEW b \in Nat \ {0}, NEW r \in 0 .. b - 1
  PROVE  (b * q + r) \div b = q /\ (b * q + r) % b = r
<1> DEFINE a == b * q + r
<1>1. a \in Nat
  OBVIOUS
<1> HIDE DEF a
<1>2. /\ a \div b \in Nat /\ a % b \in 0 .. b - 1
      /\ a = b * (a \div b) + (a % b)
  BY <1>1, Division
<1>3. a = b * q + r
  BY DEF a
<1>4. b * q + r = b * (a \div b) + (a % b)
  BY <1>2, <1>3
<1>5. a \div b = q
  <2> DEFINE s == a \div b
             t == a % b
  <2>1. s \in Nat /\ t \in 0 .. b - 1 /\ b * q + r = b * s + t
    BY <1>2, <1>4
  <2> HIDE DEF s, t
  <2>2. ASSUME s < q PROVE FALSE
    <3>1. b * q >= b * s + b
      BY <2>1, <2>2
    <3>2. QED
      BY <2>1, <3>1
  <2>3. ASSUME q < s PROVE FALSE
    <3>1. b * s >= b * q + b
      BY <2>1, <2>3
    <3>2. QED
      BY <2>1, <3>1
  <2>4. s = q
    BY <2>1, <2>2, <2>3
  <2>5. QED
    BY <2>4 DEF s
<1>6. a % b = r
  <2> DEFINE t == a % b
  <2>1. t \in Int /\ b * q \in Int /\ b * q + r = b * q + t
    BY <1>2, <1>4, <1>5
  <2> HIDE DEF t
  <2>2. t = r
    BY <2>1
  <2>3. QED
    BY <2>2 DEF t
<1>7. QED
  BY <1>5, <1>6 DEF a

\* A number below b * b has its quotient by b below b.
LEMMA SmallQuotient ==
  ASSUME NEW b \in Nat \ {0}, NEW c \in Nat, NEW a \in 0 .. b * c - 1
  PROVE  a \div b \in 0 .. c - 1
<1>1. /\ a \div b \in Nat /\ (a % b) \in 0 .. b - 1
      /\ a = b * (a \div b) + (a % b)
  <2>1. a \in Nat
    OBVIOUS
  <2>2. QED
    BY <2>1, Division
<1> DEFINE s == a \div b
<1>2. ASSUME s >= c PROVE FALSE
  <2>1. s \in Nat /\ b * s <= a
    BY <1>1
  <2> HIDE DEF s
  <2>2. b * s >= b * c
    BY <1>2, <2>1
  <2>3. QED
    BY <2>1, <2>2
<1>3. QED
  BY <1>1, <1>2

\* The digests, as the chains read them.
Messages == [1 .. WOTSN -> 0 .. ByteSize - 1]
\* Sequences of n digits.
Digits(n) == [1 .. n -> 0 .. WOTSW - 1]

\* A digest is its digits, two to a byte.
LEMMA DigitsOfMessage ==
  ASSUME NEW msg \in Messages
  PROVE  LET d == BaseW(WOTSLEN1, msg)
         IN  /\ d \in Digits(WOTSLEN1)
             /\ \A k \in 1 .. WOTSN : msg[k] = WOTSW * d[2 * k - 1] + d[2 * k]
<1> DEFINE d == BaseW(WOTSLEN1, msg)
<1>1. WOTSW \in Nat \ {0} /\ WOTSN \in Nat
  BY WotsAssumption
<1>2. \A k \in 1 .. WOTSN : /\ msg[k] \in Nat
                           /\ msg[k] \div WOTSW \in 0 .. WOTSW - 1
                           /\ msg[k] % WOTSW \in 0 .. WOTSW - 1
                           /\ msg[k] = WOTSW * (msg[k] \div WOTSW) + (msg[k] % WOTSW)
  <2>1. TAKE k \in 1 .. WOTSN
  <2>2. msg[k] \in 0 .. WOTSW * WOTSW - 1
    BY DEF Messages, ByteSize
  <2>3. msg[k] \in Nat
    BY <2>2, <1>1
  <2>4. msg[k] \div WOTSW \in 0 .. WOTSW - 1
    BY <1>1, <2>2, SmallQuotient
  <2>5. QED
    BY <1>1, <2>3, <2>4, Division
<1>3. \A i \in 1 .. WOTSLEN1 :
        d[i] = IF i % 2 = 1 THEN msg[(i + 1) \div 2] \div WOTSW ELSE msg[i \div 2] % WOTSW
  BY DEF BaseW
<1>4. DOMAIN d = 1 .. WOTSLEN1 /\ d = [i \in 1 .. WOTSLEN1 |-> d[i]]
  BY DEF BaseW
<1> HIDE DEF d
<1>5. ASSUME NEW i \in 1 .. WOTSLEN1
      PROVE  d[i] \in 0 .. WOTSW - 1
  <2>1. CASE i % 2 = 1
    <3>1. (i + 1) \div 2 \in 1 .. WOTSN
      BY <2>1, <1>1 DEF WOTSLEN1
    <3>2. QED
      BY <3>1, <2>1, <1>2, <1>3
  <2>2. CASE i % 2 # 1
    <3>1. i \div 2 \in 1 .. WOTSN
      BY <2>2, <1>1 DEF WOTSLEN1
    <3>2. QED
      BY <3>1, <2>2, <1>2, <1>3
  <2>3. QED
    BY <2>1, <2>2
<1>6. d \in Digits(WOTSLEN1)
  BY <1>4, <1>5 DEF Digits
<1>7. ASSUME NEW k \in 1 .. WOTSN
      PROVE  msg[k] = WOTSW * d[2 * k - 1] + d[2 * k]
  <2>1. /\ 2 * k - 1 \in 1 .. WOTSLEN1 /\ 2 * k \in 1 .. WOTSLEN1
        /\ (2 * k - 1) % 2 = 1 /\ ((2 * k - 1) + 1) \div 2 = k
        /\ (2 * k) % 2 # 1 /\ (2 * k) \div 2 = k
    BY <1>1 DEF WOTSLEN1
  <2>2. d[2 * k - 1] = msg[k] \div WOTSW /\ d[2 * k] = msg[k] % WOTSW
    BY <2>1, <1>3
  <2>3. QED
    BY <2>2, <1>2
<1>8. QED
  BY <1>6, <1>7 DEF d

\* A function of 1 .. n is a sequence of length n.
LEMMA FunctionIsSeq ==
  ASSUME NEW S, NEW n \in Nat, NEW d \in [1 .. n -> S]
  PROVE  d \in Seq(S) /\ Len(d) = n
<1>1. d \in Seq(S)
  BY SeqDef
<1>2. Len(d) \in Nat /\ 1 .. Len(d) = 1 .. n
  BY <1>1, LenProperties
<1>3. ASSUME Len(d) < n PROVE FALSE
  <2>1. n \in 1 .. n /\ n \notin 1 .. Len(d)
    BY <1>2, <1>3
  <2>2. QED
    BY <1>2, <2>1
<1>4. ASSUME n < Len(d) PROVE FALSE
  <2>1. Len(d) \in 1 .. Len(d) /\ Len(d) \notin 1 .. n
    BY <1>2, <1>4
  <2>2. QED
    BY <1>2, <2>1
<1>5. QED
  BY <1>1, <1>2, <1>3, <1>4

\* What the digits leave is at most that of all of them, and fits the checksum.
LEMMA RemainingBounds ==
  ASSUME NEW d \in Digits(WOTSLEN1)
  PROVE  /\ Summand([i \in 1 .. WOTSLEN1 |-> WOTSW - 1 - d[i]], WOTSLEN1)
         /\ Remaining(d) \in 0 .. WOTSW * WOTSW * WOTSW - 1
<1>1. WOTSLEN1 \in Nat /\ WOTSW - 1 \in Nat /\ WOTSLEN1 * (WOTSW - 1) < WOTSW * WOTSW * WOTSW
  BY WotsAssumption DEF WOTSLEN1
<1> DEFINE f == [i \in 1 .. WOTSLEN1 |-> WOTSW - 1 - d[i]]
<1>2. \A i \in 1 .. WOTSLEN1 : f[i] \in 0 .. WOTSW - 1
  BY <1>1 DEF Digits
<1>3. Summand(f, WOTSLEN1) /\ Total(f, WOTSLEN1) \in 0 .. WOTSLEN1 * (WOTSW - 1)
  <2> HIDE DEF f
  <2>1. QED
    BY <1>1, <1>2, TotalBounds
<1>4. Remaining(d) \in 0 .. WOTSLEN1 * (WOTSW - 1)
  BY <1>3 DEF Remaining
<1>5. WOTSW * WOTSW * WOTSW \in Int /\ WOTSLEN1 * (WOTSW - 1) \in Int
  BY WotsAssumption, <1>1
<1>6. Remaining(d) \in 0 .. WOTSW * WOTSW * WOTSW - 1
  BY <1>1, <1>4, <1>5
<1>7. QED
  BY <1>3, <1>6

\* The checksum is what the digits leave, written in three digits: shifted past
\* the fourth of its two bytes, nothing of it is lost.
LEMMA ChecksumDigits ==
  ASSUME NEW d \in Digits(WOTSLEN1)
  PROVE  LET x == WotsChecksum(d)
         IN  /\ x \in Digits(WOTSLEN2)
             /\ Remaining(d) = WOTSW * (WOTSW * x[1] + x[2]) + x[3]
<1> DEFINE w == WOTSW
           B == ByteSize
           r == Remaining(d)
           v == r * w
           b == v \div B
           c == v % B
           x == WotsChecksum(d)
<1>1. w \in Nat \ {0} /\ B \in Nat \ {0} /\ B = w * w
  BY WotsAssumption DEF ByteSize
<1>2. r \in Nat /\ r <= w * w * w - 1 /\ v \in Nat
  <2>1. r \in 0 .. WOTSW * WOTSW * WOTSW - 1
    BY RemainingBounds
  <2> HIDE DEF r
  <2>2. w * w * w \in Int
    BY <1>1
  <2>3. QED
    BY <1>1, <2>1, <2>2
<1>3. v \in 0 .. B * B - 1
  <2> HIDE DEF r, B, w
  <2>1. v = r * w
    OBVIOUS
  <2> HIDE DEF v
  <2>2. w * w * w \in Nat /\ r + 1 <= w * w * w
    BY <1>1, <1>2
  <2>3. (r + 1) * w <= (w * w * w) * w
    BY <1>1, <1>2, <2>2
  <2>4. (r + 1) * w = v + w /\ (w * w * w) * w = B * B
    BY <1>1, <1>2, <2>1
  <2>5. QED
    BY <1>1, <1>2, <2>3, <2>4
<1>4. b \in 0 .. B - 1 /\ c \in 0 .. B - 1 /\ v = B * b + c
  <2> HIDE DEF v, B
  <2>1. b \in 0 .. B - 1
    BY <1>1, <1>3, SmallQuotient
  <2>2. QED
    BY <1>1, <1>2, <2>1, Division
<1>5. b % B = b
  <2> HIDE DEF b, B
  <2>1. b = B * 0 + b
    BY <1>1, <1>4
  <2>2. (B * 0 + b) % B = b
    BY <1>1, <1>4, DivisionOf
  <2>3. QED
    BY <2>1, <2>2
<1>6. /\ x = [i \in 1 .. 3 |-> IF i % 2 = 1 THEN <<b, c>>[(i + 1) \div 2] \div w
                                           ELSE <<b, c>>[i \div 2] % w]
  <2>1. UllToBytes(v) = <<b, c>>
    BY <1>5 DEF UllToBytes
  <2>2. x = BaseW(WOTSLEN2, UllToBytes(v))
    BY DEF WotsChecksum
  <2> HIDE DEF v, b, c, x
  <2>3. QED
    BY <2>1, <2>2 DEF BaseW, WOTSLEN2
<1>7. x[1] = b \div w /\ x[2] = b % w /\ x[3] = c \div w /\ DOMAIN x = 1 .. 3
  <2> HIDE DEF b, c, x
  <2>1. 1 % 2 = 1 /\ 2 % 2 # 1 /\ 3 % 2 = 1 /\ (1 + 1) \div 2 = 1 /\ 2 \div 2 = 1 /\ (3 + 1) \div 2 = 2
    OBVIOUS
  <2>2. QED
    BY <1>6, <2>1
<1>8. /\ b \div w \in 0 .. w - 1 /\ b % w \in 0 .. w - 1 /\ c \div w \in 0 .. w - 1
      /\ b = w * (b \div w) + (b % w)
      /\ c = w * (c \div w) + (c % w) /\ c % w \in 0 .. w - 1
  <2> HIDE DEF b, c, w
  <2>1. b \in 0 .. w * w - 1 /\ c \in 0 .. w * w - 1 /\ b \in Nat /\ c \in Nat
    BY <1>1, <1>4
  <2>2. b \div w \in 0 .. w - 1 /\ c \div w \in 0 .. w - 1
    BY <1>1, <2>1, SmallQuotient
  <2>3. QED
    BY <1>1, <2>1, <2>2, Division
<1>9. r = w * b + (c \div w)
  <2> DEFINE q == c \div w
             t == c % w
  <2>1. v = r * w /\ c = w * q + t /\ t \in 0 .. w - 1 /\ q \in Int
    BY <1>8
  <2> HIDE DEF v, b, c, r, w, B, q, t
  <2>2. r * w = w * (w * b) + w * q + t
    BY <1>1, <1>4, <2>1
  <2>3. r * w = w * r /\ w * (w * b) + w * q = w * (w * b + q) /\ w * b + q \in Int
    BY <1>1, <1>2, <1>4, <2>1
  <2>4. ASSUME r > w * b + q PROVE FALSE
    <3>1. w * r >= w * (w * b + q) + w
      BY <1>1, <1>2, <2>3, <2>4
    <3>2. QED
      BY <1>1, <2>1, <2>2, <2>3, <3>1
  <2>5. ASSUME r < w * b + q PROVE FALSE
    <3>1. w * (w * b + q) >= w * r + w
      BY <1>1, <1>2, <2>3, <2>5
    <3>2. QED
      BY <1>1, <2>1, <2>2, <2>3, <3>1
  <2>6. r = w * b + q
    BY <1>2, <2>3, <2>4, <2>5
  <2>7. QED
    BY <2>6 DEF q
<1>10. x \in Digits(WOTSLEN2)
  <2> HIDE DEF x, b, c
  <2>1. x = [i \in 1 .. 3 |-> x[i]]
    BY <1>6
  <2>2. \A i \in 1 .. 3 : x[i] \in 0 .. w - 1
    BY <1>7, <1>8
  <2>3. QED
    BY <2>1, <2>2 DEF Digits, WOTSLEN2
<1>11. r = w * (w * x[1] + x[2]) + x[3]
  <2> HIDE DEF x, b, c, r
  <2>1. QED
    BY <1>7, <1>8, <1>9
<1>12. QED
  BY <1>10, <1>11

\* How far each chain is walked.
Lengths == Digits(WOTSLEN)

\* The digits, and then the checksum's.
LEMMA LengthsOfMessage ==
  ASSUME NEW msg \in Messages
  PROVE  LET l == ChainLengths(msg)
             d == BaseW(WOTSLEN1, msg)
             x == WotsChecksum(d)
         IN  /\ l \in Lengths
             /\ \A i \in 1 .. WOTSLEN1 : l[i] = d[i]
             /\ \A i \in 1 .. WOTSLEN2 : l[WOTSLEN1 + i] = x[i]
<1> DEFINE l == ChainLengths(msg)
           d == BaseW(WOTSLEN1, msg)
           x == WotsChecksum(d)
<1>1. d \in Digits(WOTSLEN1)
  BY DigitsOfMessage
<1>2. x \in Digits(WOTSLEN2)
  <2> HIDE DEF d
  <2>1. QED
    BY <1>1, ChecksumDigits
<1>3. WOTSLEN1 \in Nat /\ WOTSLEN2 \in Nat /\ WOTSLEN = WOTSLEN1 + WOTSLEN2
  BY WotsAssumption DEF WOTSLEN1, WOTSLEN2, WOTSLEN
<1>4. l = d \o x
  BY DEF ChainLengths
<1> HIDE DEF l, d, x
<1>5. /\ d \in Seq(0 .. WOTSW - 1) /\ Len(d) = WOTSLEN1
      /\ x \in Seq(0 .. WOTSW - 1) /\ Len(x) = WOTSLEN2
  BY <1>1, <1>2, <1>3, FunctionIsSeq DEF Digits
<1>6. /\ l \in Seq(0 .. WOTSW - 1) /\ Len(l) = WOTSLEN
      /\ \A i \in 1 .. WOTSLEN : l[i] = IF i <= WOTSLEN1 THEN d[i] ELSE x[i - WOTSLEN1]
  BY <1>3, <1>4, <1>5, ConcatProperties
<1>7. l \in Lengths
  BY <1>6, LenProperties DEF Lengths, Digits
<1>8. \A i \in 1 .. WOTSLEN1 : i \in 1 .. WOTSLEN /\ i <= WOTSLEN1
  BY <1>3
<1>9. \A i \in 1 .. WOTSLEN2 : WOTSLEN1 + i \in 1 .. WOTSLEN /\ ~(WOTSLEN1 + i <= WOTSLEN1)
                                 /\ (WOTSLEN1 + i) - WOTSLEN1 = i
  BY <1>3
<1>10. QED
  BY <1>6, <1>7, <1>8, <1>9 DEF l, d, x

\* Digests are told apart by their lengths, and of two of them each has a chain
\* that is shorter than the other's.
THEOREM LengthsDiffer ==
  ASSUME NEW m \in Messages, NEW n \in Messages,
         \A i \in 1 .. WOTSLEN : ChainLengths(m)[i] >= ChainLengths(n)[i]
  PROVE  m = n
<1> DEFINE k == ChainLengths(m)
           l == ChainLengths(n)
           d == BaseW(WOTSLEN1, m)
           e == BaseW(WOTSLEN1, n)
           x == WotsChecksum(d)
           y == WotsChecksum(e)
<1>1. /\ \A i \in 1 .. WOTSLEN1 : k[i] = d[i] /\ l[i] = e[i]
      /\ \A i \in 1 .. WOTSLEN2 : k[WOTSLEN1 + i] = x[i] /\ l[WOTSLEN1 + i] = y[i]
  BY LengthsOfMessage
<1>2. /\ d \in Digits(WOTSLEN1) /\ e \in Digits(WOTSLEN1)
      /\ \A i \in 1 .. WOTSN : m[i] = WOTSW * d[2 * i - 1] + d[2 * i]
      /\ \A i \in 1 .. WOTSN : n[i] = WOTSW * e[2 * i - 1] + e[2 * i]
  BY DigitsOfMessage
<1> HIDE DEF d, e
<1>3. /\ x \in Digits(WOTSLEN2) /\ Remaining(d) = WOTSW * (WOTSW * x[1] + x[2]) + x[3]
      /\ y \in Digits(WOTSLEN2) /\ Remaining(e) = WOTSW * (WOTSW * y[1] + y[2]) + y[3]
  BY <1>2, ChecksumDigits
<1>4. WOTSLEN1 \in Nat /\ WOTSLEN2 = 3 /\ WOTSLEN = WOTSLEN1 + 3 /\ WOTSW \in Nat \ {0}
      /\ WOTSN \in Nat /\ WOTSLEN1 = 2 * WOTSN
  BY WotsAssumption DEF WOTSLEN1, WOTSLEN2, WOTSLEN
<1>5. \A i \in 1 .. WOTSLEN : k[i] >= l[i]
  OBVIOUS
<1> HIDE DEF k, l, x, y
<1>6. \A i \in 1 .. WOTSLEN1 : d[i] >= e[i]
  <2>1. \A i \in 1 .. WOTSLEN1 : i \in 1 .. WOTSLEN
    BY <1>4
  <2>2. QED
    BY <1>1, <1>5, <2>1
<1>7. x[1] >= y[1] /\ x[2] >= y[2] /\ x[3] >= y[3]
  <2>1. \A i \in 1 .. 3 : WOTSLEN1 + i \in 1 .. WOTSLEN
    BY <1>4
  <2>2. \A i \in 1 .. 3 : x[i] >= y[i]
    BY <1>1, <1>4, <1>5, <2>1
  <2>3. QED
    BY <2>2
<1>8. Remaining(d) >= Remaining(e)
  <2>1. /\ x[1] \in Int /\ x[2] \in Int /\ x[3] \in Int
        /\ y[1] \in Int /\ y[2] \in Int /\ y[3] \in Int
    BY <1>3, <1>4 DEF Digits
  <2>2. WOTSW * x[1] >= WOTSW * y[1]
    BY <1>4, <1>7, <2>1
  <2>3. WOTSW * x[1] + x[2] >= WOTSW * y[1] + y[2] /\ WOTSW * x[1] + x[2] \in Int
        /\ WOTSW * y[1] + y[2] \in Int
    BY <1>4, <1>7, <2>1, <2>2
  <2>4. WOTSW * (WOTSW * x[1] + x[2]) >= WOTSW * (WOTSW * y[1] + y[2])
    BY <1>4, <2>3
  <2>5. QED
    BY <1>3, <1>4, <1>7, <2>1, <2>3, <2>4
<1> DEFINE f == [i \in 1 .. WOTSLEN1 |-> WOTSW - 1 - d[i]]
           g == [i \in 1 .. WOTSLEN1 |-> WOTSW - 1 - e[i]]
<1>9. /\ Summand(f, WOTSLEN1) /\ Summand(g, WOTSLEN1)
      /\ Remaining(d) = Total(f, WOTSLEN1) /\ Remaining(e) = Total(g, WOTSLEN1)
      /\ Remaining(d) \in Int /\ Remaining(e) \in Int
  BY <1>2, <1>4, RemainingBounds DEF Remaining
<1>10. \A i \in 1 .. WOTSLEN1 : d[i] \in Int /\ e[i] \in Int
  BY <1>2, <1>4 DEF Digits
<1>11. \A i \in 1 .. WOTSLEN1 : f[i] <= g[i] /\ (d[i] # e[i] => f[i] < g[i])
  BY <1>4, <1>6, <1>10
<1>12. \A i \in 1 .. WOTSLEN1 : d[i] = e[i]
  <2> HIDE DEF f, g
  <2>1. \A i \in 1 .. WOTSLEN1 : f[i] < g[i] => Total(f, WOTSLEN1) < Total(g, WOTSLEN1)
    BY <1>9, <1>11, TotalCompares
  <2>2. QED
    BY <2>1, <1>8, <1>9, <1>11
<1>13. \A i \in 1 .. WOTSN : m[i] = n[i]
  <2>1. TAKE i \in 1 .. WOTSN
  <2>2. 2 * i - 1 \in 1 .. WOTSLEN1 /\ 2 * i \in 1 .. WOTSLEN1
    BY <1>4
  <2>3. d[2 * i - 1] = e[2 * i - 1] /\ d[2 * i] = e[2 * i]
    BY <1>12, <2>2
  <2>4. QED
    BY <1>2, <2>3
<1>14. QED
  <2>1. m = [i \in 1 .. WOTSN |-> m[i]] /\ n = [i \in 1 .. WOTSN |-> n[i]]
    BY DEF Messages
  <2>2. QED
    BY <2>1, <1>13

\* Some chain is left short of its end, a digest of the highest digits having
\* the lowest checksum.
LEMMA SomeChainIsShort ==
  ASSUME NEW msg \in Messages
  PROVE  \E i \in 1 .. WOTSLEN : ChainLengths(msg)[i] < WOTSW - 1
<1> DEFINE l == ChainLengths(msg)
           d == BaseW(WOTSLEN1, msg)
           x == WotsChecksum(d)
<1>1. /\ l \in Lengths
      /\ \A i \in 1 .. WOTSLEN1 : l[i] = d[i]
      /\ \A i \in 1 .. WOTSLEN2 : l[WOTSLEN1 + i] = x[i]
  BY LengthsOfMessage
<1>2. d \in Digits(WOTSLEN1)
  BY DigitsOfMessage
<1> HIDE DEF d
<1>3. x \in Digits(WOTSLEN2) /\ Remaining(d) = WOTSW * (WOTSW * x[1] + x[2]) + x[3]
  BY <1>2, ChecksumDigits
<1>4. WOTSLEN1 \in Nat /\ WOTSLEN2 = 3 /\ WOTSLEN = WOTSLEN1 + 3 /\ WOTSW \in Nat /\ WOTSW > 1
  BY WotsAssumption DEF WOTSLEN1, WOTSLEN2, WOTSLEN
<1> HIDE DEF l, x
<1>5. SUFFICES ASSUME \A i \in 1 .. WOTSLEN : ~(l[i] < WOTSW - 1)
               PROVE  FALSE
  BY DEF l
<1>6. \A i \in 1 .. WOTSLEN1 : d[i] = WOTSW - 1
  <2>1. TAKE i \in 1 .. WOTSLEN1
  <2>2. i \in 1 .. WOTSLEN /\ d[i] \in 0 .. WOTSW - 1
    BY <1>2, <1>4 DEF Digits
  <2>3. QED
    BY <1>1, <1>4, <1>5, <2>2
<1> DEFINE f == [i \in 1 .. WOTSLEN1 |-> WOTSW - 1 - d[i]]
<1>7. Remaining(d) = 0
  <2>1. \A i \in 1 .. WOTSLEN1 : f[i] \in 0 .. 0
    BY <1>4, <1>6
  <2>2. Remaining(d) = Total(f, WOTSLEN1)
    BY DEF Remaining
  <2> HIDE DEF f
  <2>3. Total(f, WOTSLEN1) \in 0 .. WOTSLEN1 * 0
    BY <1>4, <2>1, TotalBounds
  <2>4. QED
    BY <1>4, <2>2, <2>3
<1>8. x[3] >= WOTSW - 1 /\ x[1] \in Nat /\ x[2] \in Nat /\ x[3] \in Nat
  <2>1. WOTSLEN1 + 3 \in 1 .. WOTSLEN /\ x[3] \in 0 .. WOTSW - 1
        /\ x[1] \in 0 .. WOTSW - 1 /\ x[2] \in 0 .. WOTSW - 1
    BY <1>3, <1>4 DEF Digits
  <2>2. l[WOTSLEN1 + 3] = x[3]
    BY <1>1, <1>4
  <2>3. QED
    BY <1>4, <1>5, <2>1, <2>2
<1>9. WOTSW * (WOTSW * x[1] + x[2]) >= 0
  <2>1. WOTSW * x[1] + x[2] \in Nat
    BY <1>4, <1>8
  <2>2. QED
    BY <1>4, <2>1
<1>10. QED
  BY <1>3, <1>4, <1>7, <1>8, <1>9

-----------------------------------------------------------------------------
(* The chains.                                                              *)

\* The addresses of one key.
Addresses(own) == [own : {own}, chain : Int, hash : Int, mask : Int]

\* A chain's element after n steps from s, of chain i under the address `own`.
Walked(e, own, i, s, n) ==
  [e EXCEPT !.steps = @ \o [k \in 1 .. n |-> <<own, i - 1, s + k - 1>>]]

\* The address these steps leave.
Left(at, i, s, n) ==
  IF n = 0 THEN [at EXCEPT !.chain = i - 1]
  ELSE [own |-> at.own, chain |-> i - 1, hash |-> s + n - 1, mask |-> 1]

\* What chain i leaves: the element walked on, and the address.
RunIs(run, e, own, at, i, s, n) ==
  /\ run.out = Walked(e, own, i, s, n)
  /\ run.adrs = Left(at, i, s, n)
  /\ Left(at, i, s, n) \in Addresses(own)

\* A step of the loop over the chains, within the bound on a chain's steps.
LEMMA ChainRun ==
  ASSUME NEW e, NEW own, NEW at \in Addresses(own), NEW i \in Nat,
         NEW s \in Nat, NEW n \in Nat, s + n <= WOTSW
  PROVE  RunIs(GenChain(e, s, n, [at EXCEPT !.chain = i - 1]), e, own, at, i, s, n)
<1> DEFINE a == [at EXCEPT !.chain = i - 1]
           run == GenChain(e, s, n, a)
<1>1. /\ a.own = own /\ a.chain = i - 1 /\ a.hash = at.hash /\ a.mask = at.mask
      /\ a \in Addresses(own) /\ at.own = own
  BY DEF Addresses
<1>2. (IF s + n <= WOTSW THEN n ELSE WOTSW - s) = n
  OBVIOUS
<1> HIDE DEF a
<1>3. /\ run.out = [e EXCEPT !.steps = @ \o [k \in 1 .. n |-> <<a.own, a.chain, s + k - 1>>]]
      /\ run.adrs = IF n = 0 THEN a ELSE [own |-> a.own, chain |-> a.chain, hash |-> s + n - 1, mask |-> 1]
  BY <1>2 DEF GenChain
<1>4. run.out = Walked(e, own, i, s, n)
  BY <1>1, <1>3 DEF Walked
<1>6. run.adrs = Left(at, i, s, n)
  BY <1>1, <1>3 DEF Left, a
<1>7. Left(at, i, s, n) \in Addresses(own)
  <2>1. CASE n = 0
    BY <2>1, <1>1 DEF Left, a
  <2>2. CASE n # 0
    BY <2>2, <1>1 DEF Left, Addresses
  <2>3. QED
    BY <2>1, <2>2
<1>8. QED
  BY <1>4, <1>6, <1>7 DEF a, RunIs

\* Where the chains may be walked from, and how far.
Walkable(starts, steps, own, adrs) ==
  /\ starts \in [1 .. WOTSLEN -> Nat] /\ steps \in [1 .. WOTSLEN -> Nat]
  /\ \A i \in 1 .. WOTSLEN : starts[i] + steps[i] <= WOTSW
  /\ adrs \in Addresses(own)

\* The addresses a walk threads from one chain to the next.
Threads(g, starts, steps, own, adrs) ==
  /\ g \in [0 .. WOTSLEN -> Addresses(own)]
  /\ g[0] = adrs
  /\ \A i \in 1 .. WOTSLEN : g[i] = Left(g[i - 1], i, starts[i], steps[i])

\* What a walk over all the chains leaves.
WalkIs(walk, elements, starts, steps, own, adrs) ==
  /\ walk.chains = [i \in 1 .. WOTSLEN |-> Walked(elements[i], own, i, starts[i], steps[i])]
  /\ \E g : Threads(g, starts, steps, own, adrs) /\ walk.adrs = g[WOTSLEN]

\* Whatever is left in the address, each chain is walked under its own number.
LEMMA WalkOfChains ==
  ASSUME NEW elements, NEW starts, NEW steps, NEW own, NEW adrs,
         Walkable(starts, steps, own, adrs)
  PROVE  WalkIs(EachChain(elements, starts, steps, adrs), elements, starts, steps, own, adrs)
<1> DEFINE L == WOTSLEN
           V == Addresses(own)
           Run(i, at) == GenChain(elements[i], starts[i], steps[i], [at EXCEPT !.chain = i - 1])
           step == [p \in V \X (1 .. L) |-> Left(p[1], p[2], starts[p[2]], steps[p[2]])]
           after == CHOOSE a : a = [i \in 0 .. L |-> IF i = 0 THEN adrs ELSE Run(i, a[i - 1]).adrs]
<1>1. /\ L \in Nat /\ adrs \in V
      /\ \A i \in 1 .. L : starts[i] \in Nat /\ steps[i] \in Nat /\ starts[i] + steps[i] <= WOTSW
                             /\ i \in Nat
  BY WotsAssumption DEF Walkable, WOTSLEN, WOTSLEN1, WOTSLEN2
<1>2. ASSUME NEW i \in 1 .. L, NEW at \in V
      PROVE  /\ Run(i, at).out = Walked(elements[i], own, i, starts[i], steps[i])
             /\ Run(i, at).adrs = Left(at, i, starts[i], steps[i])
             /\ Left(at, i, starts[i], steps[i]) \in V
  <2> DEFINE e == elements[i]
             s == starts[i]
             n == steps[i]
  <2>1. at \in Addresses(own) /\ i \in Nat /\ s \in Nat /\ n \in Nat /\ s + n <= WOTSW
    BY <1>1
  <2> HIDE DEF e, s, n
  <2>2. RunIs(GenChain(e, s, n, [at EXCEPT !.chain = i - 1]), e, own, at, i, s, n)
    BY <2>1, ChainRun, Zenon
  <2>3. QED
    BY <2>2 DEF e, s, n, RunIs
<1> HIDE DEF L, V, Run
<1>3. step \in [V \X (1 .. L) -> V]
  BY <1>2
<1>4. PICK g \in [0 .. L -> V] : g[0] = adrs /\ \A i \in 1 .. L : g[i] = step[<<g[i - 1], i>>]
  <2>1. Recursive(V, adrs, L, step)
    BY <1>1, <1>3 DEF Recursive
  <2> HIDE DEF step
  <2>2. Unrolls(V, adrs, L, step)
    BY <2>1, Recursion, Zenon
  <2>3. QED
    BY <2>2 DEF Unrolls
<1>5. \A i \in 1 .. L : /\ g[i] = Left(g[i - 1], i, starts[i], steps[i])
                        /\ g[i] = Run(i, g[i - 1]).adrs
                        /\ g[i - 1] \in V
  <2> TAKE i \in 1 .. L
  <2>1. i - 1 \in 0 .. L
    BY <1>1
  <2>2. g[i - 1] \in V
    BY <1>4, <2>1
  <2>3. <<g[i - 1], i>> \in V \X (1 .. L)
    BY <2>2
  <2>4. g[i] = Left(g[i - 1], i, starts[i], steps[i])
    BY <1>4, <2>3
  <2>5. QED
    BY <1>2, <2>2, <2>4
<1>6. g = [i \in 0 .. L |-> IF i = 0 THEN adrs ELSE Run(i, g[i - 1]).adrs]
  <2>1. \A i \in 0 .. L : i # 0 => i \in 1 .. L
    BY <1>1
  <2>2. \A i \in 0 .. L : g[i] = IF i = 0 THEN adrs ELSE Run(i, g[i - 1]).adrs
    BY <1>4, <1>5, <2>1
  <2>3. QED
    BY <1>4, <2>2
<1>7. after = [i \in 0 .. L |-> IF i = 0 THEN adrs ELSE Run(i, after[i - 1]).adrs]
  BY <1>6
<1> HIDE DEF after
<1>8. \A i \in 0 .. L : after[i] = g[i]
  <2> DEFINE T == {i \in 0 .. L : after[i] = g[i]}
  <2>1. 0 \in T
    BY <1>1, <1>4, <1>7
  <2>2. ASSUME NEW i \in 1 .. L, i - 1 \in T
        PROVE  i \in T
    <3>1. i \in 0 .. L /\ i # 0 /\ after[i - 1] = g[i - 1]
      BY <1>1, <2>2
    <3>2. after[i] = Run(i, after[i - 1]).adrs
      BY <1>7, <3>1
    <3>3. QED
      BY <1>5, <3>1, <3>2
  <2> HIDE DEF T
  <2>3. \A i \in 0 .. L : i \in T
    BY <1>1, <2>1, <2>2, UpTo
  <2>4. QED
    BY <2>3 DEF T
<1>9. EachChain(elements, starts, steps, adrs)
        = [chains |-> [i \in 1 .. L |-> Run(i, after[i - 1]).out], adrs |-> after[L]]
  BY DEF EachChain, after, Run, L
<1>10. \A i \in 1 .. L : Run(i, after[i - 1]).out = Walked(elements[i], own, i, starts[i], steps[i])
  <2> TAKE i \in 1 .. L
  <2>1. i - 1 \in 0 .. L
    BY <1>1
  <2>2. after[i - 1] \in V
    BY <1>5, <1>8, <2>1
  <2>3. QED
    BY <1>2, <2>2
<1>11. EachChain(elements, starts, steps, adrs).chains
         = [i \in 1 .. L |-> Walked(elements[i], own, i, starts[i], steps[i])]
  BY <1>9, <1>10
<1>12. Threads(g, starts, steps, own, adrs)
  BY <1>4, <1>5 DEF Threads, L, V
<1>13. EachChain(elements, starts, steps, adrs).adrs = g[L]
  BY <1>1, <1>8, <1>9
<1>14. QED
  BY <1>11, <1>12, <1>13 DEF L, WalkIs

\* What is assumed of the chains, as numbers.
LEMMA ChainsAssumption ==
  /\ WOTSW \in Nat /\ WOTSW > 1 /\ WOTSN \in Nat /\ WOTSN > 0 /\ WOTSLEN \in Nat /\ WOTSLEN > 3
  BY WotsAssumption DEF WOTSLEN, WOTSLEN1, WOTSLEN2

\* The address the last step of the last chain leaves.
FinalAddress(own) ==
  [own |-> own, chain |-> WOTSLEN - 1, hash |-> WOTSW - 2, mask |-> 1]

\* A walk of every chain to its end leaves the address of the last step of the
\* last chain, its hash word being of the last chain that was not there yet.
LEMMA AddressAfterWalk ==
  ASSUME NEW g, NEW starts, NEW steps, NEW own, NEW adrs,
         Walkable(starts, steps, own, adrs), Threads(g, starts, steps, own, adrs),
         \A i \in 1 .. WOTSLEN : starts[i] + steps[i] = WOTSW - 1,
         \E i \in 1 .. WOTSLEN : steps[i] > 0
  PROVE  g[WOTSLEN] = FinalAddress(own)
<1> DEFINE Ends(i) == g[i].hash = WOTSW - 2 /\ g[i].mask = 1
           T == {i \in 0 .. WOTSLEN : /\ i > 0 => g[i].chain = i - 1
                                      /\ (\E k \in 1 .. i : steps[k] > 0) => Ends(i)}
<1>1. 0 \in T
  BY ChainsAssumption
<1>2. ASSUME NEW i \in 1 .. WOTSLEN, i - 1 \in T
      PROVE  i \in T
  <2>1. /\ starts[i] \in Nat /\ steps[i] \in Nat /\ starts[i] + steps[i] = WOTSW - 1
        /\ g[i] = Left(g[i - 1], i, starts[i], steps[i])
        /\ g[i - 1] \in Addresses(own)
    <3>1. i - 1 \in 0 .. WOTSLEN
      BY ChainsAssumption
    <3>2. QED
      BY <3>1 DEF Walkable, Threads
  <2>2. CASE steps[i] = 0
    <3>1. g[i] = [g[i - 1] EXCEPT !.chain = i - 1]
      BY <2>1, <2>2 DEF Left
    <3>2. g[i].chain = i - 1 /\ g[i].hash = g[i - 1].hash /\ g[i].mask = g[i - 1].mask
      BY <2>1, <3>1 DEF Addresses
    <3>3. ASSUME NEW k \in 1 .. i, steps[k] > 0
          PROVE  Ends(i)
      <4>1. k \in 1 .. i - 1
        BY <2>2, <3>3
      <4>2. Ends(i - 1)
        BY <4>1, <3>3, <1>2
      <4>3. QED
        BY <4>2, <3>2
    <3>4. QED
      BY <3>2, <3>3, ChainsAssumption
  <2>3. CASE steps[i] # 0
    <3>1. g[i] = [own |-> g[i - 1].own, chain |-> i - 1, hash |-> starts[i] + steps[i] - 1, mask |-> 1]
      BY <2>3, <2>1 DEF Left
    <3>2. g[i].chain = i - 1 /\ Ends(i)
      BY <3>1, <2>1, ChainsAssumption
    <3>3. QED
      BY <3>2, ChainsAssumption
  <2>4. QED
    BY <2>2, <2>3
<1>3. WOTSLEN \in T
  <2> HIDE DEF T
  <2>1. QED
    BY <1>1, <1>2, UpTo, ChainsAssumption
<1>4. g[WOTSLEN].chain = WOTSLEN - 1 /\ Ends(WOTSLEN)
  BY <1>3, ChainsAssumption
<1>5. g[WOTSLEN] \in Addresses(own)
  BY ChainsAssumption DEF Threads
<1>6. QED
  BY <1>4, <1>5 DEF FinalAddress, Addresses

\* What the chains read of a digest is bytes of their size.
LEMMA DigestIsMessage ==
  ASSUME NEW bytes \in Seq(Int)
  PROVE  DigestBytes(Sha256(bytes)) \in Messages
<1> DEFINE f(i) == [k \in DOMAIN bytes |-> (2 * i * k + 1) * bytes[k]]
           n == Len(bytes)
<1>1. n \in Nat /\ DOMAIN bytes = 1 .. n /\ \A k \in 1 .. n : bytes[k] \in Int
  BY LenProperties
<1>2. ASSUME NEW i \in 1 .. WOTSN
      PROVE  Total(f(i), n) % ByteSize \in 0 .. ByteSize - 1
  <2>1. \A k \in 1 .. n : f(i)[k] \in Int
    BY <1>1
  <2> HIDE DEF f, n
  <2>2. Summand(f(i), n)
    BY <1>1, <2>1 DEF Summand
  <2>3. n \in 0 .. n
    BY <1>1
  <2>4. Total(f(i), n) \in Int
    BY <2>2, <2>3, TotalStep
  <2> DEFINE t == Total(f(i), n)
  <2>5. t \in Int /\ ByteSize \in Nat \ {0}
    BY <2>4, ChainsAssumption DEF ByteSize
  <2> HIDE DEF t
  <2>6. t % ByteSize \in 0 .. ByteSize - 1
    BY <2>5
  <2>7. QED
    BY <2>6 DEF t
<1>3. Sha256(bytes).hash = bytes
  BY DEF Sha256
<1>4. DigestBytes(Sha256(bytes)) = [i \in 1 .. WOTSN |-> Total(f(i), n) % ByteSize]
  BY <1>3 DEF DigestBytes
<1> HIDE DEF f, n
<1>5. QED
  BY <1>2, <1>4 DEF Messages

\* Chain i of a secret before its first step.
Seed(secret, i) == [secret |-> secret, chain |-> i - 1, steps |-> <<>>]

\* The n steps of chain i from step s on.
FullSteps(own, i, s, n) == [k \in 1 .. n |-> <<own, i - 1, s + k - 1>>]

\* The element of a chain a number of steps from its seed.
LEMMA WalkedFromSeed ==
  ASSUME NEW secret, NEW own, NEW i \in Nat, NEW s \in Nat, NEW n \in Nat
  PROVE  Walked(Seed(secret, i), own, i, s, n)
           = [secret |-> secret, chain |-> i - 1, steps |-> FullSteps(own, i, s, n)]
<1> DEFINE S == {own} \X Int \X Int
           q == FullSteps(own, i, s, n)
<1>1. q \in [1 .. n -> S]
  BY DEF FullSteps
<1> HIDE DEF S
<1>2. q \in Seq(S)
  <2> HIDE DEF q
  <2>1. QED
    BY <1>1, FunctionIsSeq
<1> HIDE DEF q
<1>3. <<>> \o q = q
  BY <1>2, ConcatEmptySeq
<1>4. Walked(Seed(secret, i), own, i, s, n) = [Seed(secret, i) EXCEPT !.steps = @ \o q]
  BY DEF Walked, q, FullSteps
<1>5. Seed(secret, i).steps = <<>>
  BY DEF Seed
<1>6. [Seed(secret, i) EXCEPT !.steps = @ \o q] = [secret |-> secret, chain |-> i - 1, steps |-> q]
  BY <1>3 DEF Seed
<1>7. QED
  BY <1>4, <1>6 DEF q

\* Chain i of a secret after these steps.
Elem(secret, i, steps) == [secret |-> secret, chain |-> i - 1, steps |-> steps]

\* Chain i signed at m and walked on for n steps from l.
WalksOn(secret, own, i, m, l, n) ==
  /\ Walked(Elem(secret, i, FullSteps(own, i, 0, m)), own, i, l, n)
       = Elem(secret, i, FullSteps(own, i, 0, m) \o FullSteps(own, i, l, n))
  /\ FullSteps(own, i, 0, m) \o FullSteps(own, i, l, n) = FullSteps(own, i, 0, l + n) <=> m = l

\* A chain walked on from m steps under its own address is at the end of it if
\* and only if it was left where the walk takes it up.
LEMMA WalkedOn ==
  ASSUME NEW secret, NEW own, NEW i \in Nat, NEW m \in Nat, NEW l \in Nat, NEW n \in Nat
  PROVE  WalksOn(secret, own, i, m, l, n)
<1> DEFINE S == {own} \X Int \X Int
           a == FullSteps(own, i, 0, m)
           b == FullSteps(own, i, l, n)
           c == FullSteps(own, i, 0, l + n)
<1>1. Walked(Elem(secret, i, a), own, i, l, n) = Elem(secret, i, a \o b)
  <2>1. Walked(Elem(secret, i, a), own, i, l, n) = [Elem(secret, i, a) EXCEPT !.steps = @ \o b]
    BY DEF Walked, FullSteps
  <2> HIDE DEF a, b
  <2>2. \A x : [Elem(secret, i, a) EXCEPT !.steps = x] = Elem(secret, i, x)
    BY DEF Elem
  <2>3. Elem(secret, i, a).steps = a
    BY DEF Elem
  <2>4. QED
    BY <2>1, <2>2, <2>3
<1>2. /\ a \in [1 .. m -> S] /\ b \in [1 .. n -> S] /\ c \in [1 .. l + n -> S]
      /\ \A k \in 1 .. m : a[k] = <<own, i - 1, 0 + k - 1>>
      /\ \A k \in 1 .. n : b[k] = <<own, i - 1, l + k - 1>>
      /\ \A k \in 1 .. l + n : c[k] = <<own, i - 1, 0 + k - 1>>
  BY DEF FullSteps
<1> HIDE DEF S, a, b, c
<1>3. /\ a \in Seq(S) /\ Len(a) = m /\ b \in Seq(S) /\ Len(b) = n
      /\ c \in Seq(S) /\ Len(c) = l + n
  <2>1. l + n \in Nat
    OBVIOUS
  <2>2. QED
    BY <1>2, <2>1, FunctionIsSeq
<1>4. /\ a \o b \in Seq(S) /\ Len(a \o b) = m + n
      /\ \A k \in 1 .. m + n : (a \o b)[k] = IF k <= m THEN a[k] ELSE b[k - m]
  BY <1>3, ConcatProperties
<1>5. a \o b = c => m = l
  BY <1>3, <1>4
<1>6. ASSUME m = l
      PROVE  a \o b = c
  <2>1. \A k \in 1 .. m + n : (a \o b)[k] = c[k]
    <3> TAKE k \in 1 .. m + n
    <3>1. c[k] = <<own, i - 1, k - 1>>
      BY <1>2, <1>6
    <3>2. CASE k <= m
      <4>1. k \in 1 .. m
        BY <3>2
      <4>2. QED
        BY <1>2, <1>4, <3>1, <3>2, <4>1
    <3>3. CASE ~(k <= m)
      <4>1. k - m \in 1 .. n /\ l + (k - m) - 1 = k - 1
        BY <1>6, <3>3
      <4>2. b[k - m] = <<own, i - 1, k - 1>>
        BY <1>2, <4>1
      <4>3. QED
        BY <1>4, <3>1, <3>3, <4>2
    <3>4. QED
      BY <3>2, <3>3
  <2>2. QED
    BY <1>3, <1>4, <1>6, <2>1, SeqEqual
<1>7. QED
  BY <1>1, <1>5, <1>6 DEF a, b, c, WalksOn

\* Generation walks each chain from its seed to its end.
LEMMA PublicKeyIs ==
  ASSUME NEW key
  PROVE  /\ PublicKey(key) = [i \in 1 .. WOTSLEN |-> Elem(key, i, FullSteps(key, i, 0, WOTSW - 1))]
         /\ WotsPkgen(key, Adrs(key)).adrs = FinalAddress(key)
<1> DEFINE E == ExpandSeed(key)
           z == All(0)
           w == All(WOTSW - 1)
           walk == EachChain(E, z, w, Adrs(key))
<1>1. /\ z \in [1 .. WOTSLEN -> Nat] /\ w \in [1 .. WOTSLEN -> Nat]
      /\ \A i \in 1 .. WOTSLEN : z[i] = 0 /\ w[i] = WOTSW - 1
      /\ \A i \in 1 .. WOTSLEN : E[i] = Seed(key, i)
  BY ChainsAssumption DEF All, ExpandSeed, Seed
<1>2. Adrs(key) \in Addresses(key)
  BY DEF Adrs, Addresses
<1> HIDE DEF E, z, w
<1>3. Walkable(z, w, key, Adrs(key))
  BY <1>1, <1>2, ChainsAssumption DEF Walkable
<1> HIDE DEF walk
<1>4. WalkIs(walk, E, z, w, key, Adrs(key))
  BY <1>3, WalkOfChains, Zenon DEF walk
<1>5. \A i \in 1 .. WOTSLEN :
        Walked(E[i], key, i, z[i], w[i]) = Elem(key, i, FullSteps(key, i, 0, WOTSW - 1))
  <2> TAKE i \in 1 .. WOTSLEN
  <2>1. i \in Nat /\ 0 \in Nat /\ WOTSW - 1 \in Nat
    BY ChainsAssumption
  <2>2. Walked(Seed(key, i), key, i, 0, WOTSW - 1) = Elem(key, i, FullSteps(key, i, 0, WOTSW - 1))
    BY <2>1, WalkedFromSeed DEF Elem
  <2>3. QED
    BY <1>1, <2>2
<1>6. PICK g : Threads(g, z, w, key, Adrs(key)) /\ walk.adrs = g[WOTSLEN]
  BY <1>4, Zenon DEF WalkIs
<1>7. g[WOTSLEN] = FinalAddress(key)
  <2>1. \A i \in 1 .. WOTSLEN : z[i] + w[i] = WOTSW - 1 /\ w[i] > 0
    BY <1>1, ChainsAssumption
  <2>2. 1 \in 1 .. WOTSLEN
    BY ChainsAssumption
  <2>3. \E i \in 1 .. WOTSLEN : w[i] > 0
    BY <2>1, <2>2
  <2>4. QED
    BY <1>3, <1>6, <2>1, <2>3, AddressAfterWalk
<1>8. WotsPkgen(key, Adrs(key)) = walk
  BY DEF WotsPkgen, E, z, w, walk
<1>9. walk.chains = [i \in 1 .. WOTSLEN |-> Walked(E[i], key, i, z[i], w[i])]
  BY <1>4 DEF WalkIs
<1>10. QED
  BY <1>5, <1>6, <1>7, <1>8, <1>9 DEF PublicKey

\* Signing walks each chain from its seed by its length.
LEMMA ChainsAre ==
  ASSUME NEW sig, sig.over \in Messages
  PROVE  Chains(sig) = [i \in 1 .. WOTSLEN |->
           Elem(sig.key, i, FullSteps(sig.key, i, 0, ChainLengths(sig.over)[i]))]
<1> DEFINE key == sig.key
           E == ExpandSeed(key)
           z == All(0)
           l == ChainLengths(sig.over)
           walk == EachChain(E, z, l, Adrs(key))
<1>1. /\ z \in [1 .. WOTSLEN -> Nat] /\ \A i \in 1 .. WOTSLEN : z[i] = 0
      /\ \A i \in 1 .. WOTSLEN : E[i] = Seed(key, i)
  BY DEF All, ExpandSeed, Seed
<1>2. Adrs(key) \in Addresses(key)
  BY DEF Adrs, Addresses
<1>3. l \in [1 .. WOTSLEN -> 0 .. WOTSW - 1]
  BY LengthsOfMessage DEF Lengths, Digits
<1> HIDE DEF key, E, z, l
<1>4. l \in [1 .. WOTSLEN -> Nat] /\ \A i \in 1 .. WOTSLEN : l[i] \in Nat /\ z[i] + l[i] <= WOTSW
  BY <1>1, <1>3, ChainsAssumption
<1>5. Walkable(z, l, key, Adrs(key))
  BY <1>1, <1>2, <1>4 DEF Walkable
<1> HIDE DEF walk
<1>10. WalkIs(walk, E, z, l, key, Adrs(key))
  BY <1>5, WalkOfChains, Zenon DEF walk
<1>6. walk.chains = [i \in 1 .. WOTSLEN |-> Walked(E[i], key, i, z[i], l[i])]
  BY <1>10 DEF WalkIs
<1>7. \A i \in 1 .. WOTSLEN : Walked(E[i], key, i, z[i], l[i]) = Elem(key, i, FullSteps(key, i, 0, l[i]))
  <2> TAKE i \in 1 .. WOTSLEN
  <2>1. i \in Nat /\ 0 \in Nat /\ l[i] \in Nat
    BY <1>4, ChainsAssumption
  <2>2. Walked(Seed(key, i), key, i, 0, l[i]) = Elem(key, i, FullSteps(key, i, 0, l[i]))
    BY <2>1, WalkedFromSeed DEF Elem
  <2>3. QED
    BY <1>1, <2>2
<1>8. Chains(sig) = walk.chains
  BY DEF Chains, WotsSign, key, E, z, l, walk
<1>9. QED
  BY <1>6, <1>7, <1>8 DEF key, l

\* Recovery under the key's own address finds the key that signed if and only if
\* the digest is the one signed, and always ends on the same address.
THEOREM RecoveryFinds ==
  ASSUME NEW sig, sig.over \in Messages,
         NEW digest, DigestBytes(digest) \in Messages, NEW adrs \in Addresses(sig.key)
  PROVE  /\ PkFromSig(sig, digest, adrs).adrs = FinalAddress(sig.key)
         /\ \A key : PkFromSig(sig, digest, adrs).chains = PublicKey(key)
                       <=> key = sig.key /\ sig.over = DigestBytes(digest)
<1> DEFINE own == sig.key
           msg == DigestBytes(digest)
           l == ChainLengths(msg)
           m == ChainLengths(sig.over)
           rest == [i \in 1 .. WOTSLEN |-> WOTSW - 1 - l[i]]
           C == Chains(sig)
           walk == EachChain(C, l, rest, adrs)
<1>1. /\ l \in [1 .. WOTSLEN -> 0 .. WOTSW - 1] /\ m \in [1 .. WOTSLEN -> 0 .. WOTSW - 1]
  BY LengthsOfMessage DEF Lengths, Digits
<1>2. \E i \in 1 .. WOTSLEN : l[i] < WOTSW - 1
  BY SomeChainIsShort
<1>3. \A i \in 1 .. WOTSLEN : C[i] = Elem(own, i, FullSteps(own, i, 0, m[i]))
  BY ChainsAre
<1>4. adrs \in Addresses(own)
  OBVIOUS
<1>5. (\A i \in 1 .. WOTSLEN : m[i] = l[i]) => sig.over = msg
  <2> HIDE DEF msg
  <2>1. (\A i \in 1 .. WOTSLEN : m[i] = l[i]) => \A i \in 1 .. WOTSLEN : m[i] >= l[i]
    BY <1>1, ChainsAssumption
  <2>2. QED
    BY <2>1, LengthsDiffer DEF msg
<1>6. sig.over = msg => m = l
  OBVIOUS
<1>7. PkFromSig(sig, digest, adrs) = walk
  BY DEF PkFromSig, WotsPkFromSig
<1> HIDE DEF own, msg, l, m, C
<1>8. /\ \A i \in 1 .. WOTSLEN : /\ l[i] \in Nat /\ m[i] \in Nat /\ rest[i] \in Nat
                                 /\ l[i] + rest[i] = WOTSW - 1 /\ rest[i] = WOTSW - 1 - l[i]
      /\ l \in [1 .. WOTSLEN -> Nat] /\ rest \in [1 .. WOTSLEN -> Nat]
  BY <1>1, ChainsAssumption
<1>9. \E i \in 1 .. WOTSLEN : rest[i] > 0
  BY <1>1, <1>2, ChainsAssumption
<1> HIDE DEF rest
<1>10. Walkable(l, rest, own, adrs)
  <2>1. \A i \in 1 .. WOTSLEN : l[i] + rest[i] <= WOTSW
    BY <1>8, ChainsAssumption
  <2>2. QED
    BY <1>4, <1>8, <2>1, Zenon DEF Walkable
<1> HIDE DEF walk
<1>16. WalkIs(walk, C, l, rest, own, adrs)
  BY <1>10, WalkOfChains, Zenon DEF walk
<1>11. walk.adrs = FinalAddress(own)
  <2>1. PICK g : Threads(g, l, rest, own, adrs) /\ walk.adrs = g[WOTSLEN]
    BY <1>16, Zenon DEF WalkIs
  <2>2. \A i \in 1 .. WOTSLEN : l[i] + rest[i] = WOTSW - 1
    BY <1>8
  <2>3. QED
    BY <1>9, <1>10, <2>1, <2>2, AddressAfterWalk
<1>12. walk.chains = [i \in 1 .. WOTSLEN |-> Walked(C[i], own, i, l[i], rest[i])]
  BY <1>16 DEF WalkIs
<1> DEFINE a(i) == FullSteps(own, i, 0, m[i]) \o FullSteps(own, i, l[i], rest[i])
           f(i) == FullSteps(own, i, 0, WOTSW - 1)
<1>13. \A i \in 1 .. WOTSLEN : /\ Walked(C[i], own, i, l[i], rest[i]) = Elem(own, i, a(i))
                               /\ a(i) = f(i) <=> m[i] = l[i]
  <2> TAKE i \in 1 .. WOTSLEN
  <2>1. i \in Nat /\ m[i] \in Nat /\ l[i] \in Nat /\ rest[i] \in Nat /\ l[i] + rest[i] = WOTSW - 1
    BY <1>8, ChainsAssumption
  <2> DEFINE x == m[i]
             y == l[i]
             n == rest[i]
  <2>2. x \in Nat /\ y \in Nat /\ n \in Nat /\ y + n = WOTSW - 1
    BY <2>1
  <2> HIDE DEF x, y, n
  <2>6. WalksOn(own, own, i, x, y, n)
    BY <2>1, <2>2, WalkedOn, Zenon
  <2>3. Walked(Elem(own, i, FullSteps(own, i, 0, x)), own, i, y, n)
          = Elem(own, i, FullSteps(own, i, 0, x) \o FullSteps(own, i, y, n))
    BY <2>6, Zenon DEF WalksOn
  <2>4. FullSteps(own, i, 0, x) \o FullSteps(own, i, y, n) = FullSteps(own, i, 0, y + n) <=> x = y
    BY <2>6, Zenon DEF WalksOn
  <2>5. QED
    BY <1>3, <2>2, <2>3, <2>4 DEF x, y, n
<1>14. ASSUME NEW key
       PROVE  walk.chains = PublicKey(key) <=> key = own /\ sig.over = msg
  <2>1. PublicKey(key) = [i \in 1 .. WOTSLEN |-> Elem(key, i, FullSteps(key, i, 0, WOTSW - 1))]
    BY PublicKeyIs
  <2>2. walk.chains = [i \in 1 .. WOTSLEN |-> Elem(own, i, a(i))]
    <3> HIDE DEF a
    <3>1. QED
      BY <1>12, <1>13
  <2>3. ASSUME walk.chains = PublicKey(key)
        PROVE  key = own /\ sig.over = msg
    <3>1. \A i \in 1 .. WOTSLEN : Elem(own, i, a(i)) = Elem(key, i, FullSteps(key, i, 0, WOTSW - 1))
      <4> HIDE DEF a
      <4>1. QED
        BY <2>1, <2>2, <2>3
    <3>2. \A i \in 1 .. WOTSLEN : own = key /\ a(i) = FullSteps(key, i, 0, WOTSW - 1)
      <4> HIDE DEF a
      <4>1. QED
        BY <3>1 DEF Elem
    <3>3. own = key
      <4>1. 1 \in 1 .. WOTSLEN
        BY ChainsAssumption
      <4>2. QED
        BY <3>2, <4>1
    <3>4. \A i \in 1 .. WOTSLEN : m[i] = l[i]
      <4> HIDE DEF a
      <4>1. QED
        BY <1>13, <3>2, <3>3
    <3>5. QED
      BY <1>5, <3>3, <3>4
  <2>4. ASSUME key = own, sig.over = msg
        PROVE  walk.chains = PublicKey(key)
    <3>1. \A i \in 1 .. WOTSLEN : a(i) = f(i)
      <4> HIDE DEF a, f
      <4>1. QED
        BY <1>6, <1>13, <2>4
    <3> HIDE DEF a
    <3>2. QED
      BY <2>1, <2>2, <2>4, <3>1
  <2>5. QED
    BY <2>3, <2>4
<1>15. QED
  BY <1>7, <1>11, <1>14 DEF own, msg

-----------------------------------------------------------------------------
(* The wire image.                                                          *)

\* What is assumed of the layout, as numbers.
LEMMA WireAssumption ==
  /\ Base \in Nat /\ Base > 1 /\ ReferenceLen \in Nat /\ ReferenceLen > 0
  /\ SizeMdst = ReferenceLen + 3 /\ SizeMdst \in Nat /\ SizeMdst > 3
  /\ MaxDestinations \in Nat /\ MaxDestinations > 0 /\ MaxDestinations <= Base
  BY ArtifactAssumption DEF SizeMdst

\* A sequence of n elements of S.
Of(S, s, n) == s \in Seq(S) /\ Len(s) = n /\ n \in Nat

\* r is s and then t.
Joined(S, r, s, m, t, n) ==
  /\ Of(S, r, m + n)
  /\ \A k \in 1 .. m : r[k] = s[k]
  /\ \A k \in 1 .. n : r[m + k] = t[k]

\* Where the elements of two sequences are in their concatenation.
LEMMA JoinOf ==
  ASSUME NEW S, NEW s, NEW m, Of(S, s, m), NEW t, NEW n, Of(S, t, n)
  PROVE  Joined(S, s \o t, s, m, t, n)
<1>1. /\ s \in Seq(S) /\ Len(s) = m /\ m \in Nat
      /\ t \in Seq(S) /\ Len(t) = n /\ n \in Nat
  BY DEF Of
<1> DEFINE r == s \o t
<1>2. /\ r \in Seq(S) /\ Len(r) = Len(s) + Len(t)
      /\ \A i \in 1 .. Len(s) + Len(t) : r[i] = IF i <= Len(s) THEN s[i] ELSE t[i - Len(s)]
  BY <1>1, ConcatProperties
<1> HIDE DEF r
<1>3. \A k \in 1 .. m : r[k] = s[k]
  <2> TAKE k \in 1 .. m
  <2>1. k \in 1 .. m + n /\ k <= m
    BY <1>1
  <2>2. QED
    BY <1>1, <1>2, <2>1
<1>4. \A k \in 1 .. n : r[m + k] = t[k]
  <2> TAKE k \in 1 .. n
  <2>1. m + k \in 1 .. m + n /\ ~(m + k <= m) /\ (m + k) - m = k
    BY <1>1
  <2>2. QED
    BY <1>1, <1>2, <2>1
<1>5. QED
  BY <1>1, <1>2, <1>3, <1>4 DEF Joined, Of, r

\* A word is read back as the number it was written from.
LEMMA NumberOfWord ==
  ASSUME NEW n \in Nat
  PROVE  /\ Word(n) \in Seq(Int) /\ Len(Word(n)) = 2
         /\ Word(n)[1] = n % Base /\ Word(n)[2] = n \div Base
         /\ \A w : w[1] = Word(n)[1] /\ w[2] = Word(n)[2] => Number(w) = n
<1> DEFINE q == n \div Base
           r == n % Base
<1>1. q \in Int /\ r \in Int /\ n = Base * q + r
  BY WireAssumption, Division
<1>2. Word(n) = <<r, q>>
  BY DEF Word
<1> HIDE DEF q, r
<1>3. <<r, q>> \in Seq(Int) /\ Len(<<r, q>>) = 2
  BY <1>1
<1>4. \A w : w[1] = r /\ w[2] = q => Number(w) = n
  BY <1>1, WireAssumption DEF Number
<1>5. QED
  BY <1>2, <1>3, <1>4 DEF q, r

\* The destinations that can be written.
Mdsts == [tag : Int, reference : [1 .. ReferenceLen -> Int], amount : Nat]

\* s is the image of d.
ImageIs(s, d) ==
  /\ s \in Seq(Int) /\ Len(s) = SizeMdst
  /\ s[1] = d.tag
  /\ \A k \in 1 .. ReferenceLen : s[k + 1] = d.reference[k]
  /\ s[ReferenceLen + 2] = Word(d.amount)[1]
  /\ s[ReferenceLen + 3] = Word(d.amount)[2]

\* A destination's image.
LEMMA ImageOfMdst ==
  ASSUME NEW d \in Mdsts
  PROVE  ImageIs(MdstImage(d), d)
<1> DEFINE a == <<d.tag>>
           b == d.reference
           c == Word(d.amount)
           R == ReferenceLen
<1>1. R \in Nat /\ R > 0 /\ SizeMdst = R + 3
  BY WireAssumption
<1>2. Of(Int, a, 1) /\ a[1] = d.tag
  BY DEF Mdsts, Of
<1>3. Of(Int, b, R)
  <2>1. b \in [1 .. R -> Int]
    BY DEF Mdsts
  <2> HIDE DEF b
  <2>2. QED
    BY <1>1, <2>1, FunctionIsSeq DEF Of
<1>4. Of(Int, c, 2)
  <2>1. d.amount \in Nat
    BY DEF Mdsts
  <2>2. QED
    BY <2>1, NumberOfWord DEF Of
<1>5. MdstImage(d) = (a \o b) \o c
  BY DEF MdstImage
<1> DEFINE ab == a \o b
           s == ab \o c
<1> HIDE DEF a, b, c, R, ab, s
<1>6. Joined(Int, ab, a, 1, b, R)
  BY <1>2, <1>3, JoinOf, Zenon DEF ab
<1>7. Joined(Int, s, ab, 1 + R, c, 2)
  <2>1. Of(Int, ab, 1 + R)
    BY <1>6 DEF Joined
  <2>2. QED
    BY <2>1, <1>4, JoinOf, Zenon DEF s
<1>8. s[1] = a[1]
  BY <1>1, <1>6, <1>7 DEF Joined
<1>9. \A k \in 1 .. R : s[k + 1] = b[k]
  <2> TAKE k \in 1 .. R
  <2>1. 1 + k \in 1 .. 1 + R /\ k + 1 = 1 + k
    BY <1>1
  <2>2. QED
    BY <2>1, <1>6, <1>7 DEF Joined
<1>10. s[R + 2] = c[1] /\ s[R + 3] = c[2]
  <2>1. 1 \in 1 .. 2 /\ 2 \in 1 .. 2 /\ (1 + R) + 1 = R + 2 /\ (1 + R) + 2 = R + 3
    BY <1>1
  <2>2. QED
    BY <2>1, <1>7 DEF Joined
<1>11. s \in Seq(Int) /\ Len(s) = R + 3
  BY <1>1, <1>7 DEF Joined, Of
<1>12. QED
  BY <1>1, <1>2, <1>5, <1>8, <1>9, <1>10, <1>11 DEF ImageIs, s, ab, R, b, c

\* The products that place one destination after another.
LEMMA Multiples ==
  ASSUME NEW k \in Nat, NEW i \in Nat, NEW p \in Nat, p < i
  PROVE  /\ k * p \in Nat /\ k * i \in Nat /\ k * (p + 1) = k * p + k
         /\ k * p + k <= k * i
  OBVIOUS

\* n sequences of length k.
Parts(parts, n, k) ==
  /\ n \in Nat \ {0} /\ k \in Nat
  /\ parts \in [1 .. n -> Seq(Int)] /\ \A i \in 1 .. n : Len(parts[i]) = k

\* s is the parts one after another.
LaidOut(s, parts, n, k) ==
  /\ s \in Seq(Int) /\ Len(s) = k * n
  /\ \A p \in 1 .. n : \A j \in 1 .. k : s[k * (p - 1) + j] = parts[p][j]

\* One more part after those laid out.
LEMMA OneMorePart ==
  ASSUME NEW parts, NEW n, NEW k, Parts(parts, n, k), NEW i \in 2 .. n, NEW s,
         LaidOut(s, parts, i - 1, k)
  PROVE  LaidOut(s \o parts[i], parts, i, k)
<1> DEFINE t == parts[i]
           m == k * (i - 1)
<1>1. t \in Seq(Int) /\ Len(t) = k /\ k \in Nat /\ n \in Nat
  BY DEF Parts
<1>2. s \in Seq(Int) /\ Len(s) = m
  BY DEF LaidOut
<1>3. m \in Nat /\ k * i = m + k
  BY <1>1
<1>4. \A p \in 1 .. i - 1 : \A j \in 1 .. k : /\ s[k * (p - 1) + j] = parts[p][j]
                                             /\ k * (p - 1) + j \in 1 .. m
  <2> TAKE p \in 1 .. i - 1
  <2> TAKE j \in 1 .. k
  <2>1. s[k * (p - 1) + j] = parts[p][j]
    BY DEF LaidOut
  <2>2. p - 1 \in Nat /\ i - 1 \in Nat /\ p - 1 < i - 1
    BY <1>1
  <2>3. k * (p - 1) \in Nat /\ k * (p - 1) + k <= m
    BY <1>1, <2>2, Multiples
  <2> DEFINE q == k * (p - 1)
  <2> HIDE DEF q, m
  <2>4. q + j \in 1 .. m
    BY <1>1, <1>3, <2>3 DEF q
  <2>5. QED
    BY <2>1, <2>4 DEF q
<1> HIDE DEF t, m
<1> DEFINE r == s \o t
<1> HIDE DEF r
<1>5. Joined(Int, r, s, m, t, k)
  BY <1>1, <1>2, <1>3, JoinOf, Zenon DEF Of, r
<1>6. ASSUME NEW p \in 1 .. i, NEW j \in 1 .. k
      PROVE  r[k * (p - 1) + j] = parts[p][j]
  <2>1. CASE p = i
    <3>1. r[m + j] = t[j]
      BY <1>5 DEF Joined
    <3>2. QED
      BY <2>1, <3>1 DEF m, t
  <2>2. CASE p # i
    <3>1. p \in 1 .. i - 1
      BY <2>2
    <3> DEFINE x == k * (p - 1) + j
    <3>2. x \in 1 .. m /\ s[x] = parts[p][j]
      BY <1>4, <3>1
    <3> HIDE DEF x
    <3>3. r[x] = s[x]
      BY <1>5, <3>2 DEF Joined
    <3>4. QED
      BY <3>2, <3>3 DEF x
  <2>3. QED
    BY <2>1, <2>2
<1>7. r \in Seq(Int) /\ Len(r) = k * i
  BY <1>3, <1>5 DEF Joined, Of
<1>8. QED
  BY <1>6, <1>7 DEF LaidOut, t, r

\* Parts of one length flattened are one after another.
LEMMA FlattenParts ==
  ASSUME NEW parts, NEW n, NEW k, Parts(parts, n, k)
  PROVE  LaidOut(FlattenSeq(parts), parts, n, k)
<1> DEFINE V == Seq(Int)
           step == [p \in V \X (1 .. n - 1) |-> p[1] \o parts[p[2] + 1]]
           flatten == CHOOSE f : f = [i \in 1 .. n |-> IF i = 1 THEN parts[i] ELSE f[i - 1] \o parts[i]]
<1>1. /\ n \in Nat \ {0} /\ k \in Nat
      /\ parts \in [1 .. n -> V] /\ \A i \in 1 .. n : Len(parts[i]) = k /\ parts[i] \in V
  BY DEF Parts
<1>2. Len(parts) = n
  <2>1. n \in Nat
    BY <1>1
  <2> HIDE DEF V
  <2>2. QED
    BY <1>1, <2>1, FunctionIsSeq
<1>3. step \in [V \X (1 .. n - 1) -> V]
  <2>1. \A p \in V \X (1 .. n - 1) : p[1] \in V /\ parts[p[2] + 1] \in V
    BY <1>1
  <2>2. \A x, y \in V : x \o y \in V
    BY ConcatProperties
  <2> HIDE DEF V
  <2>3. QED
    BY <2>1, <2>2
<1> HIDE DEF V
<1>4. PICK g \in [0 .. n - 1 -> V] :
        g[0] = parts[1] /\ \A i \in 1 .. n - 1 : g[i] = step[<<g[i - 1], i>>]
  <2>1. Recursive(V, parts[1], n - 1, step)
    BY <1>1, <1>3 DEF Recursive
  <2> HIDE DEF step
  <2>2. Unrolls(V, parts[1], n - 1, step)
    BY <2>1, Recursion, Zenon
  <2>3. QED
    BY <2>2 DEF Unrolls
<1>5. \A i \in 1 .. n - 1 : g[i] = g[i - 1] \o parts[i + 1]
  <2> TAKE i \in 1 .. n - 1
  <2>1. i - 1 \in 0 .. n - 1
    BY <1>1
  <2>2. g[i - 1] \in V
    BY <1>4, <2>1
  <2>3. <<g[i - 1], i>> \in V \X (1 .. n - 1)
    BY <2>2
  <2>4. QED
    BY <1>4, <2>3
<1> HIDE DEF step
<1> DEFINE h == [i \in 1 .. n |-> g[i - 1]]
<1>6. h = [i \in 1 .. n |-> IF i = 1 THEN parts[i] ELSE h[i - 1] \o parts[i]]
  <2>1. ASSUME NEW i \in 1 .. n, i # 1
        PROVE  h[i] = h[i - 1] \o parts[i]
    <3>1. i - 1 \in 1 .. n - 1 /\ i - 1 \in 1 .. n /\ (i - 1) + 1 = i
      BY <1>1, <2>1
    <3>2. g[i - 1] = g[(i - 1) - 1] \o parts[i]
      BY <1>5, <3>1
    <3>3. QED
      BY <3>1, <3>2
  <2>5. h[1] = parts[1]
    BY <1>1, <1>4
  <2>2. \A i \in 1 .. n : h[i] = IF i = 1 THEN parts[i] ELSE h[i - 1] \o parts[i]
    <3> HIDE DEF h
    <3>1. QED
      BY <2>1, <2>5
  <2>3. DOMAIN h = 1 .. n /\ h = [i \in 1 .. n |-> h[i]]
    OBVIOUS
  <2> HIDE DEF h
  <2>4. QED
    BY <2>2, <2>3
<1> HIDE DEF h
<1>7. flatten = [i \in 1 .. n |-> IF i = 1 THEN parts[i] ELSE flatten[i - 1] \o parts[i]]
  BY <1>6
<1>8. FlattenSeq(parts) = flatten[n]
  BY <1>1, <1>2 DEF FlattenSeq
<1> HIDE DEF flatten
<1> DEFINE T == {i \in 0 .. n : i > 0 => LaidOut(flatten[i], parts, i, k)}
<1>9. 0 \in T
  BY <1>1
<1>10. ASSUME NEW i \in 1 .. n, i - 1 \in T
       PROVE  i \in T
  <2>1. CASE i = 1
    <3>1. flatten[1] = parts[1] /\ parts[1] \in Seq(Int) /\ Len(parts[1]) = k
      BY <1>1, <1>7 DEF V
    <3>2. k * 1 = k /\ \A j \in 1 .. k : k * (1 - 1) + j = j
      BY <1>1
    <3>3. \A p \in 1 .. 1 : p = 1
      OBVIOUS
    <3>4. LaidOut(flatten[1], parts, 1, k)
      BY <3>1, <3>2, <3>3 DEF LaidOut
    <3>6. 1 \in 0 .. n
      BY <1>1
    <3>5. QED
      BY <2>1, <3>4, <3>6
  <2>2. CASE i # 1
    <3>1. i \in 2 .. n /\ i - 1 > 0
      BY <1>1, <2>2
    <3>2. LaidOut(flatten[i - 1], parts, i - 1, k)
      BY <1>10, <3>1
    <3>3. LaidOut(flatten[i - 1] \o parts[i], parts, i, k)
      BY <3>1, <3>2, OneMorePart
    <3>4. flatten[i] = flatten[i - 1] \o parts[i]
      BY <1>7, <2>2
    <3>6. i \in 0 .. n
      BY <1>1
    <3>5. QED
      BY <3>3, <3>4, <3>6
  <2>3. QED
    BY <2>1, <2>2
<1>11. n \in T
  <2> HIDE DEF T
  <2>1. n \in Nat /\ n \in 0 .. n
    BY <1>1
  <2>2. QED
    BY <1>9, <1>10, <2>1, UpTo
<1>12. QED
  BY <1>1, <1>8, <1>11

\* A transaction whose fields can be written.
IsTx(tx) ==
  /\ tx = [reserved |-> tx.reserved, src |-> tx.src, chg |-> tx.chg, send |-> tx.send,
           change |-> tx.change, fee |-> tx.fee, btl |-> tx.btl, dsts |-> tx.dsts,
           wots |-> tx.wots, trailer |-> tx.trailer]
  /\ tx.reserved \in Int
  /\ tx.src \in [tag : Int, key : Int] /\ tx.chg \in [tag : Int, key : Int]
  /\ tx.send \in Nat /\ tx.change \in Nat /\ tx.fee \in Nat /\ tx.btl \in Nat
  /\ tx.dsts \in Seq(Mdsts) /\ Len(tx.dsts) > 0
  /\ tx.wots = [signature |-> tx.wots.signature, adrs |-> tx.wots.adrs]
  /\ \/ tx.trailer = NoTrailer
     \/ /\ tx.trailer = [nonce |-> tx.trailer.nonce, id |-> tx.trailer.id]
        /\ tx.trailer.nonce \in Nat

\* The header's fields.
Header(tx) ==
  <<DatMdst, DsaWots, CountByte(Len(tx.dsts)), tx.reserved>>
    \o <<tx.src.tag, tx.src.key, tx.chg.tag, tx.chg.key>>
    \o Word(tx.send) \o Word(tx.change) \o Word(tx.fee) \o Word(tx.btl)

\* h is the header's bytes.
HeaderIs(h, tx) ==
  /\ Of(Int, h, SizeHdr)
  /\ h[1] = DatMdst /\ h[2] = DsaWots /\ h[3] = Len(tx.dsts) - 1 /\ h[4] = tx.reserved
  /\ h[5] = tx.src.tag /\ h[6] = tx.src.key /\ h[7] = tx.chg.tag /\ h[8] = tx.chg.key
  /\ h[9] = Word(tx.send)[1] /\ h[10] = Word(tx.send)[2]
  /\ h[11] = Word(tx.change)[1] /\ h[12] = Word(tx.change)[2]
  /\ h[13] = Word(tx.fee)[1] /\ h[14] = Word(tx.fee)[2]
  /\ h[15] = Word(tx.btl)[1] /\ h[16] = Word(tx.btl)[2]

\* A word is two bytes.
LEMMA WordsAre ==
  ASSUME NEW n \in Nat
  PROVE  Word(n) = <<Word(n)[1], Word(n)[2]>> /\ Word(n)[1] \in Int /\ Word(n)[2] \in Int
<1>1. Word(n) \in Seq(Int) /\ Len(Word(n)) = 2
  BY NumberOfWord
<1>2. Word(n)[1] \in Int /\ Word(n)[2] \in Int
  BY <1>1, ElementOfSeq
<1>3. QED
  BY <1>2 DEF Word

\* The header's bytes.
LEMMA HeaderOfTx ==
  ASSUME NEW tx, IsTx(tx)
  PROVE  HeaderIs(Header(tx), tx)
<1> DEFINE n == Len(tx.dsts)
           a == Word(tx.send)
           b == Word(tx.change)
           c == Word(tx.fee)
           d == Word(tx.btl)
           p == <<DatMdst, DsaWots, CountByte(n), tx.reserved>>
           q == <<tx.src.tag, tx.src.key, tx.chg.tag, tx.chg.key>>
<1>1. n \in Nat /\ tx.reserved \in Int /\ tx.src.tag \in Int /\ tx.src.key \in Int
      /\ tx.chg.tag \in Int /\ tx.chg.key \in Int
  BY LenProperties DEF IsTx
<1>2. /\ Of(Int, a, 2) /\ Of(Int, b, 2) /\ Of(Int, c, 2) /\ Of(Int, d, 2)
  <2>1. tx.send \in Nat /\ tx.change \in Nat /\ tx.fee \in Nat /\ tx.btl \in Nat
    BY DEF IsTx
  <2>2. QED
    BY <2>1, NumberOfWord DEF Of
<1> HIDE DEF n
<1>3. Of(Int, p, 4) /\ p[1] = DatMdst /\ p[2] = DsaWots /\ p[3] = n - 1 /\ p[4] = tx.reserved
  BY <1>1 DEF Of, CountByte, DatMdst, DsaWots
<1>4. Of(Int, q, 4) /\ q[1] = tx.src.tag /\ q[2] = tx.src.key /\ q[3] = tx.chg.tag /\ q[4] = tx.chg.key
  BY <1>1 DEF Of
<1>5. Header(tx) = ((((p \o q) \o a) \o b) \o c) \o d
  BY DEF Header, n
<1> DEFINE s1 == p \o q
           s2 == s1 \o a
           s3 == s2 \o b
           s4 == s3 \o c
           s5 == s4 \o d
<1> HIDE DEF p, q, a, b, c, d, s1, s2, s3, s4, s5
<1>6. Joined(Int, s1, p, 4, q, 4)
  BY <1>3, <1>4, JoinOf, Zenon DEF s1
<1>7. Joined(Int, s2, s1, 8, a, 2)
  <2>1. Of(Int, s1, 8)
    BY <1>6 DEF Joined
  <2>2. QED
    BY <1>2, <2>1, JoinOf, Zenon DEF s2
<1>8. Joined(Int, s3, s2, 10, b, 2)
  <2>1. Of(Int, s2, 10)
    BY <1>7 DEF Joined
  <2>2. QED
    BY <1>2, <2>1, JoinOf, Zenon DEF s3
<1>9. Joined(Int, s4, s3, 12, c, 2)
  <2>1. Of(Int, s3, 12)
    BY <1>8 DEF Joined
  <2>2. QED
    BY <1>2, <2>1, JoinOf, Zenon DEF s4
<1>10. Joined(Int, s5, s4, 14, d, 2)
  <2>1. Of(Int, s4, 14)
    BY <1>9 DEF Joined
  <2>2. QED
    BY <1>2, <2>1, JoinOf, Zenon DEF s5
<1>11. Of(Int, s5, 16) /\ s5[15] = d[1] /\ s5[16] = d[2] /\ \A k \in 1 .. 14 : s5[k] = s4[k]
  BY <1>10 DEF Joined
<1>12. s4[13] = c[1] /\ s4[14] = c[2] /\ \A k \in 1 .. 12 : s4[k] = s3[k]
  BY <1>9 DEF Joined
<1>13. s3[11] = b[1] /\ s3[12] = b[2] /\ \A k \in 1 .. 10 : s3[k] = s2[k]
  BY <1>8 DEF Joined
<1>14. s2[9] = a[1] /\ s2[10] = a[2] /\ \A k \in 1 .. 8 : s2[k] = s1[k]
  BY <1>7 DEF Joined
<1>15. /\ s1[5] = q[1] /\ s1[6] = q[2] /\ s1[7] = q[3] /\ s1[8] = q[4]
       /\ \A k \in 1 .. 4 : s1[k] = p[k]
  BY <1>6 DEF Joined
<1>16. /\ s5[1] = p[1] /\ s5[2] = p[2] /\ s5[3] = p[3] /\ s5[4] = p[4]
       /\ s5[5] = q[1] /\ s5[6] = q[2] /\ s5[7] = q[3] /\ s5[8] = q[4]
  BY <1>11, <1>12, <1>13, <1>14, <1>15
<1>17. /\ s5[9] = a[1] /\ s5[10] = a[2] /\ s5[11] = b[1] /\ s5[12] = b[2]
       /\ s5[13] = c[1] /\ s5[14] = c[2]
  BY <1>11, <1>12, <1>13, <1>14
<1>18. Header(tx) = s5
  BY <1>5 DEF s1, s2, s3, s4, s5
<1>19. QED
  BY <1>3, <1>4, <1>11, <1>16, <1>17, <1>18 DEF HeaderIs, SizeHdr, n, a, b, c, d

\* The destinations' images.
Images(tx) == [i \in DOMAIN tx.dsts |-> MdstImage(tx.dsts[i])]

\* The bytes of the header and the destinations.
PrefixIs(s, tx) ==
  /\ Of(Int, s, SizeHdr + SizeMdst * Len(tx.dsts))
  /\ \A k \in 1 .. SizeHdr : s[k] = Header(tx)[k]
  /\ \A i \in 1 .. Len(tx.dsts) : \A j \in 1 .. SizeMdst :
       s[SizeHdr + (SizeMdst * (i - 1) + j)] = MdstImage(tx.dsts[i])[j]

\* Where the destinations' bytes are.
LEMMA PlaceOfMdst ==
  ASSUME NEW n \in Nat, NEW i \in 1 .. n, NEW j \in 1 .. SizeMdst
  PROVE  SizeMdst * (i - 1) + j \in 1 .. SizeMdst * n
<1>1. SizeMdst \in Nat /\ i - 1 \in Nat /\ i - 1 < n
  BY WireAssumption
<1>2. SizeMdst * (i - 1) \in Nat /\ SizeMdst * (i - 1) + SizeMdst <= SizeMdst * n /\ SizeMdst * n \in Nat
  BY <1>1, Multiples
<1> DEFINE q == SizeMdst * (i - 1)
           m == SizeMdst * n
           z == SizeMdst
<1> HIDE DEF q, m, z
<1>3. q + j \in 1 .. m
  <2>1. z \in Nat /\ j \in 1 .. z /\ q \in Nat /\ q + z <= m /\ m \in Nat
    BY <1>1, <1>2 DEF q, m, z
  <2>2. QED
    BY <2>1
<1>4. QED
  BY <1>3 DEF q, m

\* The signed prefix is the header and then each destination in its place.
LEMMA PrefixOfTx ==
  ASSUME NEW tx, IsTx(tx)
  PROVE  PrefixIs(SignedPrefix(tx), tx)
<1> DEFINE n == Len(tx.dsts)
           m == SizeMdst * n
           h == Header(tx)
           f == FlattenSeq(Images(tx))
           s == h \o f
<1>1. n \in Nat \ {0} /\ DOMAIN tx.dsts = 1 .. n /\ \A i \in 1 .. n : tx.dsts[i] \in Mdsts
  BY LenProperties DEF IsTx
<1>2. Of(Int, h, SizeHdr)
  BY HeaderOfTx DEF HeaderIs
<1>3. LaidOut(f, Images(tx), n, SizeMdst)
  <2>1. \A i \in 1 .. n : MdstImage(tx.dsts[i]) \in Seq(Int) /\ Len(MdstImage(tx.dsts[i])) = SizeMdst
    BY <1>1, ImageOfMdst DEF ImageIs
  <2> HIDE DEF n
  <2>2. Parts(Images(tx), n, SizeMdst)
    BY <1>1, <2>1, WireAssumption DEF Parts, Images
  <2>3. QED
    BY <2>2, FlattenParts, Zenon
<1>4. SignedPrefix(tx) = s
  BY DEF SignedPrefix, Header, Images
<1>5. Of(Int, f, m)
  <2>1. m \in Nat
    <3> HIDE DEF n
    <3>1. QED
      BY <1>1, WireAssumption
  <2>2. QED
    BY <1>3, <2>1 DEF LaidOut, Of
<1> HIDE DEF n, m, h, f, s
<1>6. Joined(Int, s, h, SizeHdr, f, m)
  BY <1>2, <1>5, JoinOf, Zenon DEF s
<1>7. ASSUME NEW i \in 1 .. n, NEW j \in 1 .. SizeMdst
      PROVE  s[SizeHdr + (SizeMdst * (i - 1) + j)] = MdstImage(tx.dsts[i])[j]
  <2> DEFINE x == SizeMdst * (i - 1) + j
  <2>1. x \in 1 .. m
    BY <1>1, PlaceOfMdst DEF m
  <2>2. f[x] = Images(tx)[i][j]
    BY <1>3 DEF LaidOut
  <2> HIDE DEF x
  <2>3. s[SizeHdr + x] = f[x]
    BY <1>6, <2>1 DEF Joined
  <2>4. QED
    BY <1>1, <2>2, <2>3 DEF x, Images
<1>8. QED
  BY <1>4, <1>6, <1>7 DEF PrefixIs, Joined, n, m, h

\* What the bytes of tx are: numbers, and what is in it that is not one.
BytesOf(tx) == Int \cup {tx.wots.signature, tx.wots.adrs, tx.trailer.id}

\* How long the prefix and the trailer are.
PrefixLen(tx) == SizeHdr + SizeMdst * Len(tx.dsts)
TrailerLen(tx) == IF tx.trailer = NoTrailer THEN 0 ELSE SizeTlr

\* s is the bytes of tx.
WireIs(s, tx) ==
  /\ Of(BytesOf(tx), s, PrefixLen(tx) + SizeWots + TrailerLen(tx))
  /\ \A k \in 1 .. PrefixLen(tx) : s[k] = SignedPrefix(tx)[k]
  /\ s[PrefixLen(tx) + 1] = tx.wots.signature
  /\ s[PrefixLen(tx) + 2] = tx.wots.adrs
  /\ tx.trailer # NoTrailer =>
       /\ s[PrefixLen(tx) + 3] = Word(tx.trailer.nonce)[1]
       /\ s[PrefixLen(tx) + 4] = Word(tx.trailer.nonce)[2]
       /\ s[PrefixLen(tx) + 5] = tx.trailer.id

\* The image is the prefix, the signature and its address, and the trailer.
LEMMA WireOfTx ==
  ASSUME NEW tx, IsTx(tx)
  PROVE  WireIs(ToWire(tx), tx)
<1> DEFINE B == BytesOf(tx)
           m == PrefixLen(tx)
           p == SignedPrefix(tx)
           q == WotsVal(tx)
           r == IF tx.trailer = NoTrailer THEN <<>> ELSE Word(tx.trailer.nonce) \o <<tx.trailer.id>>
           pq == p \o q
           s == pq \o r
<1>1. ToWire(tx) = s
  BY DEF ToWire
<1>2. Of(Int, p, m) /\ m \in Nat
  BY PrefixOfTx DEF PrefixIs, PrefixLen, Of
<1>3. Of(B, p, m)
  <2>1. Int \subseteq B
    BY DEF BytesOf
  <2> HIDE DEF B, p, m
  <2>2. QED
    BY <1>2, <2>1, SeqMonotonic DEF Of
<1>4. Of(B, q, 2) /\ q[1] = tx.wots.signature /\ q[2] = tx.wots.adrs
  BY DEF WotsVal, Of, BytesOf
<1>5. /\ Of(B, r, TrailerLen(tx))
      /\ tx.trailer # NoTrailer =>
           /\ r[1] = Word(tx.trailer.nonce)[1]
           /\ r[2] = Word(tx.trailer.nonce)[2]
           /\ r[3] = tx.trailer.id
  <2>1. CASE tx.trailer = NoTrailer
    BY <2>1 DEF Of, TrailerLen
  <2>2. CASE tx.trailer # NoTrailer
    <3>1. tx.trailer.nonce \in Nat
      BY <2>2 DEF IsTx
    <3> DEFINE w == Word(tx.trailer.nonce)
    <3>2. w = <<w[1], w[2]>> /\ w[1] \in Int /\ w[2] \in Int
      BY <3>1, WordsAre
    <3>3. Of(B, w, 2)
      <4> HIDE DEF w
      <4>1. Of(B, <<w[1], w[2]>>, 2)
        BY <3>2 DEF Of, BytesOf
      <4>2. QED
        BY <3>2, <4>1
    <3> DEFINE d == <<tx.trailer.id>>
    <3>4. Of(B, d, 1) /\ d[1] = tx.trailer.id
      BY DEF Of, BytesOf
    <3>5. r = w \o d
      BY <2>2
    <3> HIDE DEF B, w, d, r
    <3>6. Joined(B, w \o d, w, 2, d, 1)
      BY <3>3, <3>4, JoinOf, Zenon
    <3>9. Joined(B, r, w, 2, d, 1)
      BY <3>5, <3>6, Zenon
    <3>7. Of(B, r, 3) /\ r[1] = w[1] /\ r[2] = w[2] /\ r[3] = d[1]
      BY <3>9 DEF Joined
    <3>8. QED
      BY <2>2, <3>4, <3>7 DEF TrailerLen, SizeTlr, w
  <2>3. QED
    BY <2>1, <2>2
<1> DEFINE l == TrailerLen(tx)
<1> HIDE DEF B, m, p, q, r, pq, s, l
<1>6. Joined(B, pq, p, m, q, 2)
  BY <1>3, <1>4, JoinOf, Zenon DEF pq
<1>7. Joined(B, s, pq, m + 2, r, l)
  <2>1. Of(B, pq, m + 2)
    BY <1>6 DEF Joined
  <2>2. QED
    BY <1>5, <2>1, JoinOf, Zenon DEF s, l
<1>8. \A k \in 1 .. m : s[k] = p[k]
  <2> TAKE k \in 1 .. m
  <2>1. k \in 1 .. m + 2
    BY <1>2
  <2>2. QED
    BY <1>6, <1>7, <2>1 DEF Joined
<1>9. s[m + 1] = q[1] /\ s[m + 2] = q[2]
  <2>1. m + 1 \in 1 .. m + 2 /\ m + 2 \in 1 .. m + 2 /\ 1 \in 1 .. 2 /\ 2 \in 1 .. 2
    BY <1>2
  <2>2. QED
    BY <1>6, <1>7, <2>1 DEF Joined
<1>10. tx.trailer # NoTrailer => s[m + 3] = r[1] /\ s[m + 4] = r[2] /\ s[m + 5] = r[3]
  <2> SUFFICES ASSUME tx.trailer # NoTrailer PROVE s[m + 3] = r[1] /\ s[m + 4] = r[2] /\ s[m + 5] = r[3]
    OBVIOUS
  <2>1. l = 3
    BY DEF l, TrailerLen, SizeTlr
  <2>2. s[(m + 2) + 1] = r[1] /\ s[(m + 2) + 2] = r[2] /\ s[(m + 2) + 3] = r[3]
    BY <1>7, <2>1 DEF Joined
  <2>3. (m + 2) + 1 = m + 3 /\ (m + 2) + 2 = m + 4 /\ (m + 2) + 3 = m + 5
    BY <1>2
  <2>4. QED
    BY <2>2, <2>3
<1>11. Of(B, s, m + SizeWots + l)
  BY <1>7 DEF Joined, SizeWots
<1>12. WireIs(s, tx)
  BY <1>4, <1>5, <1>8, <1>9, <1>10, <1>11 DEF WireIs, B, m, p, l
<1>13. QED
  BY <1>1, <1>12

\* Two bytes in a sequence that are a word's are read as its number.
LEMMA WordIsRead ==
  ASSUME NEW s, NEW i \in Int, NEW e \in Int, e = i + 1, NEW x \in Nat,
         s[i] = Word(x)[1], s[e] = Word(x)[2]
  PROVE  Number(SubSeq(s, i, e)) = x
<1> DEFINE S == {s[i], s[e]}
           w == SubSeq(s, i, e)
<1>1. \A j \in i .. e : s[j] \in S
  <2> TAKE j \in i .. e
  <2>1. j = i \/ j = e
    OBVIOUS
  <2>2. QED
    BY <2>1
<1>2. 1 \in 1 .. e - i + 1 /\ 2 \in 1 .. e - i + 1 /\ i + 1 - 1 = i /\ i + 2 - 1 = e
  OBVIOUS
<1> HIDE DEF S
<1>3. \A k \in 1 .. e - i + 1 : w[k] = s[i + k - 1]
  BY <1>1, <1>2, SubSeqProperties
<1>4. w[1] = s[i] /\ w[2] = s[e]
  BY <1>2, <1>3
<1> HIDE DEF w
<1>5. QED
  BY <1>4, NumberOfWord DEF w

\* What is read of the destination's bytes at `at`.
LEMMA MdstIsRead ==
  ASSUME NEW s, NEW at \in Nat, NEW d \in Mdsts, d = [tag |-> d.tag, reference |-> d.reference, amount |-> d.amount],
         \A j \in 1 .. SizeMdst : s[at + j] = MdstImage(d)[j]
  PROVE  /\ s[at + 1] = d.tag
         /\ SubSeq(s, at + 2, at + 1 + ReferenceLen) = d.reference
         /\ Number(SubSeq(s, at + 2 + ReferenceLen, at + 2 + ReferenceLen + 1)) = d.amount
<1> DEFINE R == ReferenceLen
           t == MdstImage(d)
           u == SubSeq(s, at + 2, at + 1 + R)
           f == d.reference
           a == d.amount
<1>1. R \in Nat /\ R > 0 /\ SizeMdst = R + 3
  BY WireAssumption
<1>2. /\ t[1] = d.tag /\ \A k \in 1 .. R : t[k + 1] = f[k]
      /\ t[R + 2] = Word(a)[1] /\ t[R + 3] = Word(a)[2]
  BY ImageOfMdst DEF ImageIs
<1>3. f \in [1 .. R -> Int] /\ a \in Nat
  BY DEF Mdsts
<1>11. \A j \in 1 .. SizeMdst : s[at + j] = t[j]
  OBVIOUS
<1> HIDE DEF R, t, f, a
<1>4. f \in Seq(Int) /\ Len(f) = R
  BY <1>1, <1>3, FunctionIsSeq
<1>5. s[at + 1] = d.tag
  BY <1>1, <1>2, <1>11
<1>6. \A k \in 1 .. R : s[at + 2 + k - 1] = f[k]
  <2> TAKE k \in 1 .. R
  <2>1. k + 1 \in 1 .. SizeMdst /\ at + (k + 1) = at + 2 + k - 1
    BY <1>1
  <2>2. QED
    BY <2>1, <1>2, <1>11
<1>7. \A i \in at + 2 .. at + 1 + R : s[i] \in Int
  <2> TAKE i \in at + 2 .. at + 1 + R
  <2>1. i - at - 1 \in 1 .. R /\ at + 2 + (i - at - 1) - 1 = i
    BY <1>1
  <2>2. QED
    BY <2>1, <1>3, <1>6
<1>8. u = f
  <2>1. at + 2 \in Int /\ at + 1 + R \in Int
    BY <1>1
  <2>2. /\ u \in Seq(Int)
        /\ Len(u) = IF at + 2 <= at + 1 + R THEN (at + 1 + R) - (at + 2) + 1 ELSE 0
        /\ \A i \in 1 .. (at + 1 + R) - (at + 2) + 1 : u[i] = s[at + 2 + i - 1]
    BY <2>1, <1>7, SubSeqProperties
  <2> HIDE DEF u
  <2>3. Len(u) = R /\ (at + 1 + R) - (at + 2) + 1 = R
    BY <1>1, <2>2
  <2>4. \A i \in 1 .. R : u[i] = f[i]
    BY <1>6, <2>2, <2>3
  <2>5. QED
    BY <1>4, <2>2, <2>3, <2>4, SeqEqual
<1>9. Number(SubSeq(s, at + 2 + R, at + 2 + R + 1)) = a
  <2> DEFINE i == at + 2 + R
  <2>1. i \in Int /\ i = at + (R + 2) /\ i + 1 = at + (R + 3)
        /\ R + 2 \in 1 .. SizeMdst /\ R + 3 \in 1 .. SizeMdst
    BY <1>1
  <2>2. s[i] = Word(a)[1] /\ s[i + 1] = Word(a)[2]
    BY <2>1, <1>2, <1>11
  <2>5. i + 1 \in Int
    BY <2>1
  <2> HIDE DEF i
  <2>3. Number(SubSeq(s, i, i + 1)) = a
    BY <1>3, <2>1, <2>2, <2>5, WordIsRead
  <2>4. QED
    BY <2>3 DEF i
<1>10. QED
  BY <1>5, <1>8, <1>9 DEF R, u, f, a

\* Three bytes at the end are read as the trailer they were written from.
LEMMA TrailerIsRead ==
  ASSUME NEW S, NEW s \in Seq(S), NEW m \in Nat, NEW trailer,
         trailer = [nonce |-> trailer.nonce, id |-> trailer.id], trailer.nonce \in Nat,
         Len(s) = m + 3, s[m + 1] = Word(trailer.nonce)[1], s[m + 2] = Word(trailer.nonce)[2],
         s[m + 3] = trailer.id
  PROVE  ReadTrailer(SubSeq(s, m + 1, Len(s))) = trailer
<1> DEFINE u == SubSeq(s, m + 1, m + 3)
           z == SubSeq(ZeroTrailer, 3 + 1, 3)
<1>1. \A i \in m + 1 .. m + 3 : s[i] \in S
  <2>1. \A i \in m + 1 .. m + 3 : i \in 1 .. Len(s)
    OBVIOUS
  <2>2. QED
    BY <2>1, ElementOfSeq
<1>2. m + 1 \in Int /\ m + 3 \in Int
  OBVIOUS
<1>3. /\ u \in Seq(S) /\ Len(u) = IF m + 1 <= m + 3 THEN (m + 3) - (m + 1) + 1 ELSE 0
      /\ \A i \in 1 .. (m + 3) - (m + 1) + 1 : u[i] = s[m + 1 + i - 1]
  BY <1>1, <1>2, SubSeqProperties
<1>4. z = <<>>
  BY SubSeqEmpty
<1> HIDE DEF u, z
<1>5. Len(u) = 3 /\ u[1] = s[m + 1] /\ u[2] = s[m + 2] /\ u[3] = s[m + 3]
  <2>1. /\ m + 1 + 1 - 1 = m + 1 /\ m + 1 + 2 - 1 = m + 2 /\ m + 1 + 3 - 1 = m + 3
        /\ (m + 3) - (m + 1) + 1 = 3 /\ m + 1 <= m + 3
    OBVIOUS
  <2>2. 1 \in 1 .. 3 /\ 2 \in 1 .. 3 /\ 3 \in 1 .. 3
    OBVIOUS
  <2>3. QED
    BY <1>3, <2>1, <2>2
<1>6. u # <<>>
  BY <1>5
<1>7. u \o z = u
  BY <1>3, <1>4, ConcatEmptySeq
<1>8. Number(SubSeq(u, 1, 2)) = trailer.nonce
  <2>1. u[1] = Word(trailer.nonce)[1] /\ u[2] = Word(trailer.nonce)[2]
    BY <1>5
  <2>2. 1 \in Int /\ 2 \in Int /\ 2 = 1 + 1
    OBVIOUS
  <2>3. QED
    BY <2>1, <2>2, WordIsRead
<1>9. ReadTrailer(u) = [nonce |-> Number(SubSeq(u, 1, 2)), id |-> u[3]]
  BY <1>5, <1>6, <1>7 DEF ReadTrailer, SizeTlr, z
<1>10. QED
  BY <1>5, <1>8, <1>9 DEF u

\* tx with another trailer.
WithTrailer(tx, trailer) ==
  [reserved |-> tx.reserved, src |-> tx.src, chg |-> tx.chg, send |-> tx.send,
   change |-> tx.change, fee |-> tx.fee, btl |-> tx.btl, dsts |-> tx.dsts,
   wots |-> tx.wots, trailer |-> trailer]

\* Bytes that begin as the image of tx does, up to its trailer.
Begins(s, tx) == \A k \in 1 .. PrefixLen(tx) + 2 : s[k] = ToWire(tx)[k]

\* What the header's bytes are read as.
HeaderRead(s, tx) ==
  /\ s[1] = DatMdst /\ s[2] = DsaWots /\ s[3] + 1 = Len(tx.dsts) /\ s[4] = tx.reserved
  /\ [tag |-> s[5], key |-> s[6]] = tx.src /\ [tag |-> s[7], key |-> s[8]] = tx.chg
  /\ Number(SubSeq(s, 9, 9 + 1)) = tx.send /\ Number(SubSeq(s, 11, 11 + 1)) = tx.change
  /\ Number(SubSeq(s, 13, 13 + 1)) = tx.fee /\ Number(SubSeq(s, 15, 15 + 1)) = tx.btl

\* The prefix is longer than its header.
LEMMA PrefixLenOfTx ==
  ASSUME NEW tx, IsTx(tx)
  PROVE  PrefixLen(tx) \in Nat /\ PrefixLen(tx) > 16 /\ Len(tx.dsts) \in Nat /\ Len(tx.dsts) > 0
<1> DEFINE n == Len(tx.dsts)
<1>1. n \in Nat /\ n > 0
  BY LenProperties DEF IsTx
<1> HIDE DEF n
<1>2. SizeMdst * n \in Nat /\ SizeMdst * n > 0
  <2>1. 0 < n /\ 0 \in Nat
    BY <1>1
  <2>2. SizeMdst * 0 + SizeMdst <= SizeMdst * n /\ SizeMdst * n \in Nat /\ SizeMdst * 0 = 0
    BY <1>1, <2>1, WireAssumption, Multiples
  <2> DEFINE p == SizeMdst * n
  <2> HIDE DEF p
  <2>3. 0 + SizeMdst <= p /\ p \in Nat
    BY <2>2 DEF p
  <2>4. p > 0
    BY <2>3, WireAssumption
  <2>5. QED
    BY <2>3, <2>4 DEF p
<1> DEFINE q == SizeMdst * n
<1> HIDE DEF q
<1>3. 16 + q \in Nat /\ 16 + q > 16
  BY <1>2 DEF q
<1>4. PrefixLen(tx) = 16 + q
  BY DEF PrefixLen, SizeHdr, q, n
<1>5. QED
  BY <1>1, <1>3, <1>4 DEF n

\* The header is read as it was written.
LEMMA HeaderIsRead ==
  ASSUME NEW tx, IsTx(tx), NEW s, Begins(s, tx)
  PROVE  HeaderRead(s, tx)
<1> DEFINE h == Header(tx)
           m == PrefixLen(tx)
<1>1. m \in Nat /\ m > 16
  BY PrefixLenOfTx
<1>2. \A k \in 1 .. 16 : s[k] = h[k]
  <2> TAKE k \in 1 .. 16
  <2>1. k \in 1 .. m /\ k \in 1 .. m + 2 /\ k \in 1 .. SizeHdr
    BY <1>1 DEF SizeHdr
  <2>2. s[k] = ToWire(tx)[k]
    BY <2>1 DEF Begins
  <2>3. ToWire(tx)[k] = SignedPrefix(tx)[k]
    BY <2>1, WireOfTx DEF WireIs
  <2>4. SignedPrefix(tx)[k] = h[k]
    BY <2>1, PrefixOfTx DEF PrefixIs
  <2>5. QED
    BY <2>2, <2>3, <2>4
<1>3. HeaderIs(h, tx)
  BY HeaderOfTx
<1> HIDE DEF h, m
<1>4. /\ s[1] = DatMdst /\ s[2] = DsaWots /\ s[3] = Len(tx.dsts) - 1 /\ s[4] = tx.reserved
      /\ s[5] = tx.src.tag /\ s[6] = tx.src.key /\ s[7] = tx.chg.tag /\ s[8] = tx.chg.key
  BY <1>2, <1>3 DEF HeaderIs
<1>5. /\ s[9] = Word(tx.send)[1] /\ s[10] = Word(tx.send)[2]
      /\ s[11] = Word(tx.change)[1] /\ s[12] = Word(tx.change)[2]
      /\ s[13] = Word(tx.fee)[1] /\ s[14] = Word(tx.fee)[2]
      /\ s[15] = Word(tx.btl)[1] /\ s[16] = Word(tx.btl)[2]
  BY <1>2, <1>3 DEF HeaderIs
<1>6. tx.send \in Nat /\ tx.change \in Nat /\ tx.fee \in Nat /\ tx.btl \in Nat
  BY DEF IsTx
<1>7. Number(SubSeq(s, 9, 10)) = tx.send
  <2>1. 9 \in Int /\ 10 \in Int /\ 10 = 9 + 1
    OBVIOUS
  <2>2. tx.send \in Nat /\ s[9] = Word(tx.send)[1] /\ s[10] = Word(tx.send)[2]
    BY <1>5, <1>6
  <2>3. QED
    BY <2>1, <2>2, WordIsRead
<1>8. Number(SubSeq(s, 11, 12)) = tx.change
  <2>1. 11 \in Int /\ 12 \in Int /\ 12 = 11 + 1
    OBVIOUS
  <2>2. tx.change \in Nat /\ s[11] = Word(tx.change)[1] /\ s[12] = Word(tx.change)[2]
    BY <1>5, <1>6
  <2>3. QED
    BY <2>1, <2>2, WordIsRead
<1>9. Number(SubSeq(s, 13, 14)) = tx.fee
  <2>1. 13 \in Int /\ 14 \in Int /\ 14 = 13 + 1
    OBVIOUS
  <2>2. tx.fee \in Nat /\ s[13] = Word(tx.fee)[1] /\ s[14] = Word(tx.fee)[2]
    BY <1>5, <1>6
  <2>3. QED
    BY <2>1, <2>2, WordIsRead
<1>10. Number(SubSeq(s, 15, 16)) = tx.btl
  <2>1. 15 \in Int /\ 16 \in Int /\ 16 = 15 + 1
    OBVIOUS
  <2>2. tx.btl \in Nat /\ s[15] = Word(tx.btl)[1] /\ s[16] = Word(tx.btl)[2]
    BY <1>5, <1>6
  <2>3. QED
    BY <2>1, <2>2, WordIsRead
<1>11. tx.src = [tag |-> s[5], key |-> s[6]] /\ tx.chg = [tag |-> s[7], key |-> s[8]]
  BY <1>4 DEF IsTx
<1>12. s[3] + 1 = Len(tx.dsts)
  <2>1. Len(tx.dsts) \in Nat
    BY PrefixLenOfTx
  <2>2. QED
    BY <1>4, <2>1
<1>13. 9 + 1 = 10 /\ 11 + 1 = 12 /\ 13 + 1 = 14 /\ 15 + 1 = 16
  OBVIOUS
<1>14. QED
  BY <1>4, <1>7, <1>8, <1>9, <1>10, <1>11, <1>12, <1>13 DEF HeaderRead

\* The i-th destination, as it is read.
MdstAt(s, i) ==
  [tag |-> s[SizeHdr + (i - 1) * SizeMdst + 1],
   reference |-> SubSeq(s, SizeHdr + (i - 1) * SizeMdst + 2, SizeHdr + (i - 1) * SizeMdst + 1 + ReferenceLen),
   amount |-> Number(SubSeq(s, SizeHdr + (i - 1) * SizeMdst + 2 + ReferenceLen,
                               SizeHdr + (i - 1) * SizeMdst + 2 + ReferenceLen + 1))]

\* Each destination is read from where it was written.
LEMMA MdstsAreRead ==
  ASSUME NEW tx, IsTx(tx), NEW s, Begins(s, tx)
  PROVE  [i \in 1 .. Len(tx.dsts) |-> MdstAt(s, i)] = tx.dsts
<1> DEFINE n == Len(tx.dsts)
           m == PrefixLen(tx)
<1>1. m \in Nat /\ m > 16 /\ n \in Nat /\ n > 0
  BY PrefixLenOfTx
<1>2. tx.dsts \in [1 .. n -> Mdsts]
  BY LenProperties DEF IsTx
<1>3. ASSUME NEW i \in 1 .. n
      PROVE  MdstAt(s, i) = tx.dsts[i]
  <2> DEFINE d == tx.dsts[i]
             at == SizeHdr + (i - 1) * SizeMdst
             q == SizeMdst * (i - 1)
  <2>1. d \in Mdsts
    BY <1>2
  <2>2. q \in Nat /\ at = 16 + q /\ at \in Nat
    BY <1>1, WireAssumption DEF SizeHdr
  <2>3. ASSUME NEW j \in 1 .. SizeMdst
        PROVE  s[at + j] = MdstImage(d)[j]
    <3> DEFINE x == q + j
    <3>1. x \in 1 .. SizeMdst * n
      BY <1>1, PlaceOfMdst
    <3>2. m = 16 + SizeMdst * n
      BY DEF PrefixLen, SizeHdr
    <3>3. SignedPrefix(tx)[SizeHdr + x] = MdstImage(d)[j]
      BY PrefixOfTx DEF PrefixIs
    <3>4. at + j = 16 + x
      BY <2>2, WireAssumption
    <3> DEFINE w == SizeMdst * n
    <3> HIDE DEF x, w, m, at
    <3>5. 16 + x \in 1 .. m /\ 16 + x \in 1 .. m + 2
      <4>1. x \in 1 .. w /\ m = 16 + w
        BY <3>1, <3>2, Zenon DEF w
      <4>3. w \in Int
        BY <1>1, WireAssumption DEF w
      <4>2. QED
        BY <4>1, <4>3
    <3>6. s[16 + x] = ToWire(tx)[16 + x]
      BY <3>5 DEF Begins, m
    <3>7. ToWire(tx)[16 + x] = SignedPrefix(tx)[16 + x]
      BY <3>5, WireOfTx DEF WireIs, m
    <3>8. QED
      BY <3>3, <3>4, <3>6, <3>7 DEF SizeHdr
  <2>4. d = [tag |-> d.tag, reference |-> d.reference, amount |-> d.amount]
    BY <2>1 DEF Mdsts
  <2>7. MdstAt(s, i) =
          [tag |-> s[at + 1], reference |-> SubSeq(s, at + 2, at + 1 + ReferenceLen),
           amount |-> Number(SubSeq(s, at + 2 + ReferenceLen, at + 2 + ReferenceLen + 1))]
    BY DEF MdstAt
  <2> HIDE DEF d, at, q
  <2>5. /\ s[at + 1] = d.tag
        /\ SubSeq(s, at + 2, at + 1 + ReferenceLen) = d.reference
        /\ Number(SubSeq(s, at + 2 + ReferenceLen, at + 2 + ReferenceLen + 1)) = d.amount
    BY <2>1, <2>2, <2>3, <2>4, MdstIsRead
  <2>6. QED
    BY <2>4, <2>5, <2>7 DEF d
<1> HIDE DEF n
<1>4. QED
  BY <1>2, <1>3 DEF n

\* Bytes that begin as the image of tx does are read as tx, but for the trailer.
LEMMA ReadsBack ==
  ASSUME NEW tx, IsTx(tx), NEW s, Begins(s, tx)
  PROVE  FromWire(s) = WithTrailer(tx, ReadTrailer(SubSeq(s, PrefixLen(tx) + 3, Len(s))))
<1> DEFINE n == Len(tx.dsts)
           m == PrefixLen(tx)
           t == ReadTrailer(SubSeq(s, m + 3, Len(s)))
<1>1. m \in Nat /\ m > 16 /\ n \in Nat /\ n > 0
  BY PrefixLenOfTx
<1>2. HeaderRead(s, tx)
  BY HeaderIsRead
<1>3. s[3] + 1 = n
  BY <1>2 DEF HeaderRead
<1>4. SizeHdr + SizeMdst * (s[3] + 1) = m
  BY <1>3 DEF PrefixLen
<1>5. [i \in 1 .. n |-> MdstAt(s, i)] = tx.dsts
  BY MdstsAreRead
<1>6. s[m + 1] = tx.wots.signature /\ s[m + 2] = tx.wots.adrs
  <2>1. m + 1 \in 1 .. m + 2 /\ m + 2 \in 1 .. m + 2
    BY <1>1
  <2> HIDE DEF m
  <2>2. s[m + 1] = ToWire(tx)[m + 1] /\ s[m + 2] = ToWire(tx)[m + 2]
    BY <2>1 DEF Begins, m
  <2>3. QED
    BY <2>2, WireOfTx DEF WireIs, m
<1>7. [signature |-> s[m + 1], adrs |-> s[m + 2]] = tx.wots
  BY <1>6 DEF IsTx
<1>8. m + SizeWots + 1 = m + 3
  BY <1>1 DEF SizeWots
<1> DEFINE count == s[3] + 1
           dsa == SizeHdr + SizeMdst * count
<1>9. FromWire(s) =
       [reserved |-> s[4],
        src |-> [tag |-> s[5], key |-> s[6]],
        chg |-> [tag |-> s[7], key |-> s[8]],
        send |-> Number(SubSeq(s, 9, 9 + 1)), change |-> Number(SubSeq(s, 11, 11 + 1)),
        fee |-> Number(SubSeq(s, 13, 13 + 1)), btl |-> Number(SubSeq(s, 15, 15 + 1)),
        dsts |-> [i \in 1 .. count |-> MdstAt(s, i)],
        wots |-> [signature |-> s[dsa + 1], adrs |-> s[dsa + 2]],
        trailer |-> ReadTrailer(SubSeq(s, dsa + SizeWots + 1, Len(s)))]
  BY Zenon DEF FromWire, MdstAt
<1> HIDE DEF n, m, t, count
<1>10. count = n /\ dsa = m
  BY <1>3, <1>4 DEF count
<1> HIDE DEF dsa
<1>11. FromWire(s) =
       [reserved |-> tx.reserved, src |-> tx.src, chg |-> tx.chg,
        send |-> tx.send, change |-> tx.change, fee |-> tx.fee, btl |-> tx.btl,
        dsts |-> tx.dsts, wots |-> tx.wots, trailer |-> t]
  BY <1>2, <1>5, <1>7, <1>8, <1>9, <1>10 DEF HeaderRead, t
<1>12. QED
  BY <1>11 DEF WithTrailer, t, m

\* A written transaction is read back, and is one.
THEOREM WireRoundTrip ==
  ASSUME NEW tx, IsTx(tx), Len(tx.dsts) \in 1 .. MaxDestinations
  PROVE  FromWire(ToWire(tx)) = tx /\ IsTransaction(ToWire(tx))
<1> DEFINE s == ToWire(tx)
           m == PrefixLen(tx)
           n == Len(tx.dsts)
           B == BytesOf(tx)
           u == SubSeq(s, m + 3, Len(s))
<1>1. m \in Nat /\ m > 16 /\ n \in Nat /\ n > 0
  BY PrefixLenOfTx
<1>2. WireIs(s, tx)
  BY WireOfTx
<1>3. Begins(s, tx)
  BY DEF Begins
<1>4. FromWire(s) = WithTrailer(tx, ReadTrailer(u))
  BY <1>3, ReadsBack
<1>5. ReadTrailer(u) = tx.trailer
  <2>1. CASE tx.trailer = NoTrailer
    <3>1. Len(s) = m + 2
      <4> HIDE DEF s, m
      <4>1. QED
        BY <1>1, <1>2, <2>1 DEF WireIs, Of, SizeWots, TrailerLen, m
    <3>2. u = <<>>
      <4> HIDE DEF s, m
      <4>1. m + 3 \in Int /\ Len(s) \in Int /\ Len(s) < m + 3
        BY <1>1, <3>1
      <4>2. QED
        BY <4>1, SubSeqEmpty
    <3>3. QED
      BY <2>1, <3>2 DEF ReadTrailer
  <2>2. CASE tx.trailer # NoTrailer
    <3> HIDE DEF s, m
    <3>1. tx.trailer = [nonce |-> tx.trailer.nonce, id |-> tx.trailer.id] /\ tx.trailer.nonce \in Nat
      BY <2>2 DEF IsTx
    <3>2. s \in Seq(B) /\ Len(s) = m + 5
      BY <1>1, <1>2, <2>2 DEF WireIs, Of, SizeWots, SizeTlr, TrailerLen, m
    <3>3. s[m + 3] = Word(tx.trailer.nonce)[1] /\ s[m + 4] = Word(tx.trailer.nonce)[2] /\ s[m + 5] = tx.trailer.id
      BY <1>2, <2>2 DEF WireIs, m
    <3> DEFINE e == m + 2
    <3>4. /\ e \in Nat /\ Len(s) = e + 3
          /\ e + 1 = m + 3 /\ e + 2 = m + 4 /\ e + 3 = m + 5
      BY <1>1, <3>2
    <3> HIDE DEF e, B
    <3>5. s[e + 1] = Word(tx.trailer.nonce)[1] /\ s[e + 2] = Word(tx.trailer.nonce)[2] /\ s[e + 3] = tx.trailer.id
      BY <3>3, <3>4
    <3>6. ReadTrailer(SubSeq(s, e + 1, Len(s))) = tx.trailer
      BY <3>1, <3>2, <3>4, <3>5, TrailerIsRead
    <3>7. QED
      BY <3>4, <3>6
  <2>3. QED
    BY <2>1, <2>2
<1>6. FromWire(s) = tx
  BY <1>4, <1>5 DEF WithTrailer, IsTx
<1>7. HeaderRead(s, tx)
  BY <1>3, HeaderIsRead
<1>8. Len(s) \in TxSz(n) - SizeTlr .. TxSz(n) /\ Len(s) >= SizeHdr
  <2>1. TxSz(n) = m + 5
    <3> DEFINE w == SizeMdst * n
    <3>1. m = SizeHdr + w /\ TxSz(n) = SizeHdr + w + 2 + 3
      BY DEF TxSz, PrefixLen, SizeWots, SizeTlr
    <3>2. w \in Int
      <4> HIDE DEF n
      <4>1. QED
        BY <1>1, WireAssumption
    <3> HIDE DEF w, m
    <3>3. QED
      BY <3>1, <3>2 DEF SizeHdr
  <2>2. Len(s) = m + 2 \/ Len(s) = m + 5
    <3> HIDE DEF s, m
    <3>1. QED
      BY <1>1, <1>2 DEF WireIs, Of, SizeWots, SizeTlr, TrailerLen, m
  <2> HIDE DEF s, m, n
  <2>3. QED
    BY <1>1, <2>1, <2>2 DEF SizeTlr, SizeHdr
<1>9. IsTransaction(s)
  BY <1>7, <1>8 DEF IsTransaction, HeaderRead
<1>10. QED
  BY <1>6, <1>9

-----------------------------------------------------------------------------
(* Plans.                                                                   *)

\* A destination of a plan.
PlanDst == [tag : Tags, reference : AllReferences, amount : 1 .. Limit]

\* The source's entry at a balance.
At(balance) == [address |-> Source, balance |-> balance]

\* A plan as SpendPlan::new leaves it.
IsPlan(p) ==
  /\ p = SpendPlan(At(p.balance), p.dsts, p.fee, p.btl)
  /\ p.dsts \in Seq(PlanDst)
  /\ p.balance \in Balances /\ p.fee \in Fees /\ p.btl \in BlocksToLive
  /\ Refusal(At(p.balance), p.dsts, p.fee) = "none"
  /\ WireOrder(p.dsts) = p.dsts

\* The tests SpendPlan::new makes.
NotRefused(entry, dsts, fee) ==
  /\ entry.address = Source
  /\ Len(dsts) \in 1 .. MaxDestinations
  /\ FirstFault(dsts) = "none"
  /\ ~(fee < MFEE * Len(dsts))
  /\ ~(Tally(dsts) + fee > Limit)
  /\ ~(Tally(dsts) + fee > entry.balance)

\* What is not refused passes every test.
LEMMA NoRefusal ==
  ASSUME NEW entry, NEW dsts, NEW fee
  PROVE  Refusal(entry, dsts, fee) = "none" <=> NotRefused(entry, dsts, fee)
BY DEF Refusal, NotRefused

\* Every number of a spend is one that a word holds.
LEMMA NumbersAssumption ==
  /\ Limit \in Nat
  /\ \A n \in Amounts \cup Fees \cup Balances \cup BlocksToLive : n \in Nat /\ n <= Limit
<1>1. Base * Base - 1 \in Nat
  <2>1. Base \in Nat /\ Base > 0
    BY WireAssumption
  <2>2. Base * Base >= 1
    BY <2>1
  <2>3. QED
    BY <2>1, <2>2
<1>2. QED
  BY <1>1, ArtifactAssumption DEF Limit

\* The tally of a plan's destinations is a number.
LEMMA TallyIsNumber ==
  ASSUME NEW dsts \in Seq(PlanDst)
  PROVE  /\ Tally(dsts) \in Nat
         /\ Len(dsts) \in Nat /\ \A i \in 1 .. Len(dsts) : dsts[i] \in PlanDst
         /\ dsts \in Seq(Mdsts)
<1> DEFINE n == Len(dsts)
           f == [i \in DOMAIN dsts |-> dsts[i].amount]
<1>1. n \in Nat /\ DOMAIN dsts = 1 .. n /\ \A i \in 1 .. n : dsts[i] \in PlanDst
  BY LenProperties
<1>2. \A i \in 1 .. n : f[i] \in Nat
  BY <1>1, NumbersAssumption DEF PlanDst
<1>3. Tally(dsts) = Total(f, n)
  BY DEF Tally
<1> DEFINE z == [i \in 1 .. n |-> 0]
<1> HIDE DEF f, n
<1>4. Summand(f, n)
  BY <1>1, <1>2 DEF Summand
<1>5. Total(f, n) \in Int /\ Total(f, 0) = 0
  <2>1. n \in 0 .. n
    BY <1>1
  <2>2. QED
    BY <1>4, <2>1, TotalStep
<1>6. Total(f, n) >= 0
  <2> DEFINE T == {i \in 0 .. n : Total(f, i) >= 0}
  <2>1. 0 \in T
    BY <1>1, <1>5
  <2>2. ASSUME NEW i \in 1 .. n, i - 1 \in T
        PROVE  i \in T
    <3>1. Total(f, i) = Total(f, i - 1) + f[i] /\ i - 1 \in 0 .. n /\ i \in 0 .. n
      BY <1>1, <1>4, TotalStep
    <3>2. Total(f, i - 1) \in Int
      BY <3>1, <1>4, TotalStep
    <3>3. QED
      BY <1>2, <2>2, <3>1, <3>2
  <2>3. n \in T
    <3>1. n \in 0 .. n
      BY <1>1
    <3> HIDE DEF T
    <3>2. QED
      BY <1>1, <2>1, <2>2, <3>1, UpTo
  <2>4. QED
    BY <2>3
<1>7. PlanDst \subseteq Mdsts
  <2>1. Tags \subseteq Int /\ AllReferences \subseteq [1 .. ReferenceLen -> Int] /\ 1 .. Limit \subseteq Nat
    BY NumbersAssumption, ArtifactAssumption DEF AllReferences, NUL, Other
  <2>2. QED
    BY <2>1 DEF PlanDst, Mdsts
<1>8. dsts \in Seq(Mdsts)
  BY <1>7, SeqMonotonic
<1>9. QED
  BY <1>1, <1>3, <1>5, <1>6, <1>8 DEF n

\* A plan's numbers.
PlanNumbers(p) ==
  /\ p.send = Tally(p.dsts) /\ p.send \in Nat
  /\ p.change = p.balance - p.send - p.fee /\ p.change \in Nat
  /\ p.fee \in Nat /\ p.btl \in Nat /\ p.balance \in Nat
  /\ p.dsts \in Seq(Mdsts) /\ Len(p.dsts) \in 1 .. MaxDestinations

\* A plan's numbers: what it sends, pays and leaves is what there is.
LEMMA NumbersOfPlan ==
  ASSUME NEW p, IsPlan(p)
  PROVE  PlanNumbers(p)
<1>1. NotRefused(At(p.balance), p.dsts, p.fee)
  BY NoRefusal DEF IsPlan
<1>2. p.fee \in Nat /\ p.btl \in Nat /\ p.balance \in Nat /\ p.dsts \in Seq(PlanDst)
  BY NumbersAssumption DEF IsPlan
<1>3. Tally(p.dsts) \in Nat /\ p.dsts \in Seq(Mdsts)
  BY <1>2, TallyIsNumber
<1>4. p.send = Tally(p.dsts) /\ p.change = p.balance - Tally(p.dsts) - p.fee
  <2>1. SpendPlan(At(p.balance), p.dsts, p.fee, p.btl).send = Tally(p.dsts)
    BY DEF SpendPlan
  <2>2. SpendPlan(At(p.balance), p.dsts, p.fee, p.btl).change = p.balance - Tally(p.dsts) - p.fee
    BY DEF SpendPlan, At
  <2>3. QED
    BY <2>1, <2>2 DEF IsPlan
<1>5. ~(Tally(p.dsts) + p.fee > p.balance) /\ Len(p.dsts) \in 1 .. MaxDestinations
  BY <1>1 DEF NotRefused, At
<1>6. QED
  BY <1>2, <1>3, <1>4, <1>5 DEF PlanNumbers

\* The image of a plan with these two parts.
Image(p, wots, trailer) ==
  [reserved |-> 0, src |-> Source, chg |-> Change,
   send |-> p.send, change |-> p.change, fee |-> p.fee, btl |-> p.btl, dsts |-> p.dsts,
   wots |-> wots, trailer |-> trailer]

\* The signature part before there is one, and with one.
NoWots == [signature |-> [key |-> 0, over |-> <<>>], adrs |-> Adrs(0)]
Wots(sig, adrs) == [signature |-> [key |-> sig.key, over |-> sig.over], adrs |-> adrs]

\* A plan's images, signed or not, have one signed prefix and one digest.
LEMMA ImagesAre ==
  ASSUME NEW p
  PROVE  /\ Unsigned(p) = Image(p, NoWots, NoTrailer)
         /\ \A sig, adrs : Signed(p, sig, adrs) = Image(p, Wots(sig, adrs), NoTrailer)
         /\ \A wots, trailer : SignedPrefix(Image(p, wots, trailer)) = SignedPrefix(Unsigned(p))
         /\ \A wots, trailer : MessageDigest(Image(p, wots, trailer)) = MessageDigest(Unsigned(p))
<1>1. Unsigned(p) = Image(p, NoWots, NoTrailer)
  BY DEF Unsigned, Image, NoWots
<1>2. \A sig, adrs : Signed(p, sig, adrs) = Image(p, Wots(sig, adrs), NoTrailer)
  BY DEF Signed, Unsigned, Image, Wots
<1>3. ASSUME NEW wots, NEW trailer
      PROVE  SignedPrefix(Image(p, wots, trailer)) = SignedPrefix(Unsigned(p))
  <2>1. \A x, y : /\ Image(p, x, y).reserved = 0 /\ Image(p, x, y).src = Source
                  /\ Image(p, x, y).chg = Change /\ Image(p, x, y).send = p.send
                  /\ Image(p, x, y).change = p.change /\ Image(p, x, y).fee = p.fee
                  /\ Image(p, x, y).btl = p.btl /\ Image(p, x, y).dsts = p.dsts
    BY DEF Image
  <2>2. \A x, y : SignedPrefix(Image(p, x, y)) =
          <<DatMdst, DsaWots, CountByte(Len(p.dsts)), 0>>
            \o <<Source.tag, Source.key, Change.tag, Change.key>>
            \o Word(p.send) \o Word(p.change) \o Word(p.fee) \o Word(p.btl)
            \o FlattenSeq([i \in DOMAIN p.dsts |-> MdstImage(p.dsts[i])])
    BY <2>1, Zenon DEF SignedPrefix
  <2>3. QED
    BY <1>1, <2>2
<1>4. QED
  BY <1>1, <1>2, <1>3 DEF MessageDigest

\* A plan's image can be written.
LEMMA ImageIsTx ==
  ASSUME NEW p, IsPlan(p), NEW wots, wots = [signature |-> wots.signature, adrs |-> wots.adrs],
         NEW trailer,
         \/ trailer = NoTrailer
         \/ trailer = [nonce |-> trailer.nonce, id |-> trailer.id] /\ trailer.nonce \in Nat
  PROVE  IsTx(Image(p, wots, trailer))
<1> DEFINE tx == Image(p, wots, trailer)
<1>1. /\ tx.reserved = 0 /\ tx.src = Source /\ tx.chg = Change /\ tx.send = p.send
      /\ tx.change = p.change /\ tx.fee = p.fee /\ tx.btl = p.btl /\ tx.dsts = p.dsts
      /\ tx.wots = wots /\ tx.trailer = trailer
      /\ tx = [reserved |-> tx.reserved, src |-> tx.src, chg |-> tx.chg, send |-> tx.send,
           change |-> tx.change, fee |-> tx.fee, btl |-> tx.btl, dsts |-> tx.dsts,
           wots |-> tx.wots, trailer |-> tx.trailer]
  BY DEF Image
<1>2. Source \in [tag : Int, key : Int] /\ Change \in [tag : Int, key : Int]
  BY DEF Source, Change, Self
<1>3. PlanNumbers(p)
  BY NumbersOfPlan
<1> HIDE DEF tx
<1>4. Len(p.dsts) > 0
  BY <1>3 DEF PlanNumbers
<1>5. QED
  BY <1>1, <1>2, <1>3, <1>4 DEF IsTx, PlanNumbers, tx

-----------------------------------------------------------------------------
(* The signature a plan takes.                                              *)

\* The trailer attach seals a signed image with.
Sealed(p, sig) ==
  [nonce |-> 0, id |-> Sha256(SignedPrefix(Unsigned(p)) \o <<[key |-> sig.key, over |-> sig.over],
                                                            FinalAddress(sig.key)>> \o Word(0))]

\* What is attached: the plan's image, the signature under its key's last
\* address, the trailer.
Final(p, sig) == Image(p, Wots(sig, FinalAddress(sig.key)), Sealed(p, sig))

\* The digest a plan's signature is over.
PlanDigest(p) == DigestBytes(MessageDigest(Unsigned(p)))

\* A plan's digest is a message for the chains.
LEMMA DigestOfPlan ==
  ASSUME NEW p, IsPlan(p)
  PROVE  /\ PlanDigest(p) \in Messages
         /\ IsTx(Unsigned(p))
<1>1. NoWots = [signature |-> NoWots.signature, adrs |-> NoWots.adrs]
  BY DEF NoWots
<1>2. IsTx(Image(p, NoWots, NoTrailer))
  BY <1>1, ImageIsTx
<1>3. Unsigned(p) = Image(p, NoWots, NoTrailer)
  BY ImagesAre
<1>4. IsTx(Unsigned(p))
  BY <1>2, <1>3
<1>5. SignedPrefix(Unsigned(p)) \in Seq(Int)
  BY <1>4, PrefixOfTx DEF PrefixIs, Of
<1>6. DigestBytes(Sha256(SignedPrefix(Unsigned(p)))) \in Messages
  BY <1>5, DigestIsMessage
<1>7. QED
  BY <1>4, <1>6 DEF PlanDigest, MessageDigest

\* A signature of a digest.
SignatureIs(sig) ==
  /\ sig = [index |-> sig.index, key |-> sig.key, over |-> sig.over]
  /\ sig.over \in Messages

\* A signature is of a digest.
LEMMA SignatureFields ==
  ASSUME NEW sig \in Signatures
  PROVE  SignatureIs(sig)
BY DEF Signatures, SignatureIs, Messages

\* The signature that goes on the wire is under the last address of its key.
LEMMA AssembledIs ==
  ASSUME NEW p, IsPlan(p), NEW sig, SignatureIs(sig)
  PROVE  /\ Assembled(p, sig) = Image(p, Wots(sig, FinalAddress(sig.key)), NoTrailer)
         /\ Attached(p, sig) = Final(p, sig)
<1> DEFINE digest == MessageDigest(Unsigned(p))
           a == Adrs(sig.key)
           F == FinalAddress(sig.key)
           w == Wots(sig, F)
<1>1. DigestBytes(digest) \in Messages /\ sig.over \in Messages
  BY DigestOfPlan DEF PlanDigest, SignatureIs
<1>2. a \in Addresses(sig.key)
  BY DEF Adrs, Addresses
<1> HIDE DEF digest, a
<1>3. PkFromSig(sig, digest, a).adrs = F
  BY <1>1, <1>2, RecoveryFinds
<1>4. Assembled(p, sig) = Signed(p, sig, F)
  BY <1>3 DEF Assembled, digest, a
<1>5. Assembled(p, sig) = Image(p, w, NoTrailer)
  BY <1>4, ImagesAre
<1>6. Attached(p, sig) = [Image(p, w, NoTrailer) EXCEPT !.trailer =
                            [nonce |-> 0, id |-> IdDigest(Image(p, w, NoTrailer), 0)]]
  BY <1>5, Zenon DEF Attached
<1>7. \A t : [Image(p, w, NoTrailer) EXCEPT !.trailer = t] = Image(p, w, t)
  BY DEF Image
<1>8. IdDigest(Image(p, w, NoTrailer), 0) = Sealed(p, sig).id
  <2>1. WotsVal(Image(p, w, NoTrailer)) = <<[key |-> sig.key, over |-> sig.over], F>>
    BY DEF WotsVal, Image, Wots
  <2>2. SignedPrefix(Image(p, w, NoTrailer)) = SignedPrefix(Unsigned(p))
    BY ImagesAre
  <2> HIDE DEF w, F
  <2>3. IdDigest(Image(p, w, NoTrailer), 0) =
          Sha256(SignedPrefix(Unsigned(p)) \o <<[key |-> sig.key, over |-> sig.over], F>> \o Word(0))
    BY <2>1, <2>2, Zenon DEF IdDigest
  <2>4. QED
    BY <2>3 DEF Sealed, F
<1>9. Sealed(p, sig) = [nonce |-> 0, id |-> Sealed(p, sig).id]
  BY DEF Sealed
<1> HIDE DEF w, F
<1>10. Attached(p, sig) = Image(p, w, Sealed(p, sig))
  BY <1>6, <1>7, <1>8, <1>9
<1>11. QED
  BY <1>5, <1>10 DEF Final, w, F

\* What is attached can be written.
LEMMA FinalIsTx ==
  ASSUME NEW p, IsPlan(p), NEW sig
  PROVE  IsTx(Final(p, sig)) /\ Final(p, sig).dsts = p.dsts /\ Len(p.dsts) \in 1 .. MaxDestinations
<1> DEFINE w == Wots(sig, FinalAddress(sig.key))
           t == Sealed(p, sig)
<1>1. w = [signature |-> w.signature, adrs |-> w.adrs]
  BY DEF Wots
<1>2. t = [nonce |-> t.nonce, id |-> t.id] /\ t.nonce \in Nat
  BY DEF Sealed
<1> HIDE DEF w, t
<1>3. IsTx(Image(p, w, t))
  BY <1>1, <1>2, ImageIsTx
<1>4. Image(p, w, t).dsts = p.dsts
  BY DEF Image
<1>5. Len(p.dsts) \in 1 .. MaxDestinations
  BY NumbersOfPlan DEF PlanNumbers
<1>6. QED
  BY <1>3, <1>4, <1>5 DEF Final, w, t

\* A signed image passes the node's check if and only if the source's key
\* signed the plan's digest.
LEMMA SignedVerifies ==
  ASSUME NEW p, IsPlan(p), NEW sig, SignatureIs(sig), NEW trailer
  PROVE  VerifyWots(Image(p, Wots(sig, FinalAddress(sig.key)), trailer))
           <=> sig.key = Source.key /\ sig.over = PlanDigest(p)
<1> DEFINE F == FinalAddress(sig.key)
           tx == Image(p, Wots(sig, F), trailer)
           g == [key |-> sig.key, over |-> sig.over]
           digest == MessageDigest(tx)
<1>1. /\ tx.wots.signature = g /\ tx.wots.adrs = F /\ tx.src = Source
      /\ g.key = sig.key /\ g.over = sig.over
  BY DEF Image, Wots
<1>2. digest = MessageDigest(Unsigned(p))
  BY ImagesAre
<1>3. DigestBytes(digest) = PlanDigest(p) /\ PlanDigest(p) \in Messages /\ g.over \in Messages
  BY <1>1, <1>2, DigestOfPlan DEF PlanDigest, SignatureIs
<1>4. F \in Addresses(g.key)
  BY <1>1, ChainsAssumption DEF FinalAddress, Addresses
<1> HIDE DEF digest, tx, F, g
<1>5. /\ PkFromSig(g, digest, F).adrs = FinalAddress(g.key)
      /\ \A key : PkFromSig(g, digest, F).chains = PublicKey(key)
                    <=> key = g.key /\ g.over = DigestBytes(digest)
  <2>1. g.over \in Messages /\ DigestBytes(digest) \in Messages
    BY <1>3
  <2>2. QED
    BY <1>4, <2>1, RecoveryFinds, Zenon
<1>6. VerifyWots(tx) <=> /\ PkFromSig(g, digest, F).adrs = F
                         /\ PkFromSig(g, digest, F).chains = PublicKey(Source.key)
  BY <1>1 DEF VerifyWots, digest
<1>7. FinalAddress(g.key) = F
  BY <1>1 DEF F
<1>8. QED
  BY <1>1, <1>3, <1>5, <1>6, <1>7 DEF tx, F

\* Attach takes one signature: the key's own over the plan's digest.
LEMMA AttachTakesOurs ==
  ASSUME NEW p, IsPlan(p), NEW sig, SignatureIs(sig)
  PROVE  Attaches(p, sig) <=> sig = OurSignature(p)
<1> DEFINE digest == MessageDigest(Unsigned(p))
           a == Adrs(sig.key)
<1>1. DigestBytes(digest) = PlanDigest(p) /\ PlanDigest(p) \in Messages /\ sig.over \in Messages
  BY DigestOfPlan DEF PlanDigest, SignatureIs
<1>2. a \in Addresses(sig.key)
  BY DEF Adrs, Addresses
<1>3. VerifyWots(Assembled(p, sig)) <=> sig.key = Source.key /\ sig.over = PlanDigest(p)
  BY AssembledIs, SignedVerifies
<1> HIDE DEF digest, a
<1>4. PkFromSig(sig, digest, a).chains = PublicKey(sig.key) <=> sig.over = PlanDigest(p)
  <2>1. \A key : PkFromSig(sig, digest, a).chains = PublicKey(key)
                    <=> key = sig.key /\ sig.over = DigestBytes(digest)
    <3>1. sig.over \in Messages /\ DigestBytes(digest) \in Messages
      BY <1>1
    <3>2. QED
      BY <1>2, <3>1, RecoveryFinds, Zenon
  <2>2. QED
    BY <1>1, <2>1
<1>5. Attaches(p, sig) <=> /\ sig.index = Source.key /\ sig.key = Source.key
                           /\ sig.over = PlanDigest(p)
  BY <1>3, <1>4 DEF Attaches, digest, a
<1>6. OurSignature(p) = [index |-> Source.key, key |-> Source.key, over |-> PlanDigest(p)]
  BY DEF OurSignature, PlanDigest
<1>7. QED
  BY <1>5, <1>6 DEF SignatureIs

\* What a plan's own signature is.
LEMMA OursIs ==
  ASSUME NEW p, IsPlan(p)
  PROVE  /\ SignatureIs(OurSignature(p))
         /\ OurSignature(p).key = Source.key /\ OurSignature(p).over = PlanDigest(p)
BY DigestOfPlan DEF SignatureIs, OurSignature, PlanDigest

\* What attach leaves passes the node's check as it is read back.
LEMMA AttachedVerifies ==
  ASSUME NEW p, IsPlan(p), NEW sig, sig = OurSignature(p)
  PROVE  /\ Attached(p, sig) = Final(p, sig)
         /\ FromWire(ToWire(Attached(p, sig))) = Final(p, sig)
         /\ IsTransaction(ToWire(Attached(p, sig)))
         /\ VerifyWots(Final(p, sig))
         /\ Final(p, sig).wots.adrs = WotsPkgen(Source.key, Adrs(Source.key)).adrs
<1>1. SignatureIs(sig) /\ sig.key = Source.key /\ sig.over = PlanDigest(p)
  BY OursIs
<1>2. Attached(p, sig) = Final(p, sig)
  BY <1>1, AssembledIs
<1>3. FromWire(ToWire(Final(p, sig))) = Final(p, sig) /\ IsTransaction(ToWire(Final(p, sig)))
  BY FinalIsTx, WireRoundTrip
<1>4. VerifyWots(Final(p, sig))
  BY <1>1, SignedVerifies DEF Final
<1>5. Final(p, sig).wots.adrs = FinalAddress(Source.key)
  BY <1>1 DEF Final, Image, Wots
<1>6. QED
  BY <1>2, <1>3, <1>4, <1>5, PublicKeyIs

\* The lengths of one digest are not all reached from another's.
LEMMA SomeChainIsShorter ==
  ASSUME NEW m \in Messages, NEW n \in Messages, ChainLengths(m) # ChainLengths(n)
  PROVE  \E i \in 1 .. WOTSLEN : ChainLengths(m)[i] < ChainLengths(n)[i]
<1>1. ChainLengths(m) \in [1 .. WOTSLEN -> 0 .. WOTSW - 1] /\ ChainLengths(n) \in [1 .. WOTSLEN -> 0 .. WOTSW - 1]
  BY LengthsOfMessage DEF Lengths, Digits
<1>2. m # n
  OBVIOUS
<1>3. PICK i \in 1 .. WOTSLEN : ~(ChainLengths(m)[i] >= ChainLengths(n)[i])
  BY <1>2, LengthsDiffer
<1> DEFINE k == ChainLengths(m)
           l == ChainLengths(n)
<1> HIDE DEF k, l
<1>4. k \in [1 .. WOTSLEN -> 0 .. WOTSW - 1] /\ l \in [1 .. WOTSLEN -> 0 .. WOTSW - 1] /\ ~(k[i] >= l[i])
  BY <1>1, <1>3 DEF k, l
<1>5. k[i] \in Int /\ l[i] \in Int
  BY <1>4
<1>6. k[i] < l[i]
  BY <1>4, <1>5
<1>7. QED
  BY <1>6 DEF k, l

-----------------------------------------------------------------------------
(* Lists in any order.                                                      *)

\* t is s in the order p.
ArrangedBy(t, s, n, p) == Arranges(p, n) /\ t = [i \in 1 .. n |-> s[p[i]]]

\* An arrangement's order is a bijection.
LEMMA ArrangesIs ==
  ASSUME NEW n, NEW p
  PROVE  Arranges(p, n) <=> p \in Bijection(1 .. n, 1 .. n)
<1>1. ASSUME Arranges(p, n)
      PROVE  p \in Bijection(1 .. n, 1 .. n)
  BY <1>1, Fun_IsBij DEF Arranges
<1>2. ASSUME p \in Bijection(1 .. n, 1 .. n)
      PROVE  Arranges(p, n)
  BY <1>2, Fun_BijectionProperties DEF Arranges
<1>3. QED
  BY <1>1, <1>2

\* An arrangement of s is s in some order.
LEMMA ArrangementIs ==
  ASSUME NEW S, NEW s \in Seq(S), NEW n, n = Len(s)
  PROVE  \A t : t \in Arrangements(s) <=> \E p : ArrangedBy(t, s, n, p)
<1>1. DOMAIN s = 1 .. n
  BY LenProperties
<1>2. ASSUME NEW t
      PROVE  t \in Arrangements(s) <=> \E p : ArrangedBy(t, s, n, p)
  <2>1. t \in Arrangements(s) <=> \E p \in Bijection(1 .. n, 1 .. n) : t = [i \in 1 .. n |-> s[p[i]]]
    BY <1>1, Zenon DEF Arrangements
  <2>2. \A p : Arranges(p, n) <=> p \in Bijection(1 .. n, 1 .. n)
    BY ArrangesIs
  <2>3. QED
    BY <2>1, <2>2, Zenon DEF ArrangedBy
<1>3. QED
  BY <1>2

\* An arrangement of s is a sequence, as long as s.
LEMMA ArrangementIsSeq ==
  ASSUME NEW S, NEW s \in Seq(S), NEW t \in Arrangements(s)
  PROVE  t \in Seq(S) /\ Len(t) = Len(s)
<1> DEFINE n == Len(s)
<1>1. n \in Nat /\ s \in [1 .. n -> S]
  BY LenProperties
<1>2. PICK p : ArrangedBy(t, s, n, p)
  BY ArrangementIs
<1> HIDE DEF n
<1>3. p \in [1 .. n -> 1 .. n] /\ t = [i \in 1 .. n |-> s[p[i]]]
  BY <1>2 DEF ArrangedBy, Arranges
<1>4. t \in [1 .. n -> S]
  BY <1>1, <1>3
<1>5. QED
  BY <1>1, <1>4, FunctionIsSeq DEF n

\* Arrangements of an arrangement are the same.
LEMMA ArrangementsSame ==
  ASSUME NEW S, NEW s \in Seq(S), NEW t \in Arrangements(s)
  PROVE  Arrangements(t) = Arrangements(s)
<1> DEFINE n == Len(s)
           I == 1 .. n
<1>1. n \in Nat /\ t \in Seq(S) /\ Len(t) = n
  BY LenProperties, ArrangementIsSeq
<1>2. PICK p : ArrangedBy(t, s, n, p)
  BY ArrangementIs
<1>3. p \in Bijection(I, I) /\ \A i \in I : t[i] = s[p[i]]
  BY <1>2, ArrangesIs DEF ArrangedBy
<1>8. /\ \A u : u \in Arrangements(s) <=> \E q : ArrangedBy(u, s, n, q)
      /\ \A u : u \in Arrangements(t) <=> \E q : ArrangedBy(u, t, n, q)
  BY <1>1, ArrangementIs
<1> HIDE DEF n
<1>4. p \in [I -> I]
  BY <1>3, Fun_BijectionProperties
<1>5. ASSUME NEW u \in Arrangements(t)
      PROVE  u \in Arrangements(s)
  <2>1. PICK q : ArrangedBy(u, t, n, q)
    BY <1>5, <1>8
  <2>2. q \in Bijection(I, I) /\ u = [i \in I |-> t[q[i]]]
    BY <2>1, ArrangesIs DEF ArrangedBy
  <2> DEFINE r == [i \in I |-> p[q[i]]]
  <2>3. r \in Bijection(I, I)
    <3> HIDE DEF I
    <3>1. QED
      BY <1>3, <2>2, Fun_BijTransitive
  <2>4. q \in [I -> I]
    BY <2>2, Fun_BijectionProperties
  <2>5. u = [i \in I |-> s[r[i]]]
    BY <1>3, <2>2, <2>4
  <2> HIDE DEF r
  <2>6. ArrangedBy(u, s, n, r)
    BY <2>3, <2>5, ArrangesIs DEF ArrangedBy
  <2>7. QED
    BY <2>6, <1>8
<1>6. ASSUME NEW u \in Arrangements(s)
      PROVE  u \in Arrangements(t)
  <2>1. PICK q : ArrangedBy(u, s, n, q)
    BY <1>6, <1>8
  <2>2. q \in Bijection(I, I) /\ u = [i \in I |-> s[q[i]]]
    BY <2>1, ArrangesIs DEF ArrangedBy
  <2> DEFINE v == Inverse(p, I, I)
             r == [i \in I |-> v[q[i]]]
  <2>3. v \in Bijection(I, I) /\ \A i \in I : p[v[i]] = i
    <3> HIDE DEF I
    <3>1. v \in Bijection(I, I) /\ \A i \in I : v[p[i]] = i
      BY <1>3, Fun_BijInverse
    <3> HIDE DEF v
    <3>2. \A j \in I : \E i \in I : p[i] = j
      BY <1>3, Fun_BijectionProperties
    <3>3. QED
      BY <3>1, <3>2
  <2> HIDE DEF v
  <2>4. r \in Bijection(I, I)
    <3> HIDE DEF I
    <3>1. QED
      BY <2>2, <2>3, Fun_BijTransitive
  <2>5. q \in [I -> I] /\ v \in [I -> I]
    BY <2>2, <2>3, Fun_BijectionProperties
  <2>6. u = [i \in I |-> t[r[i]]]
    <3>1. \A i \in I : t[r[i]] = s[q[i]]
      BY <1>3, <2>3, <2>5
    <3>2. QED
      BY <2>2, <3>1
  <2> HIDE DEF r
  <2>7. ArrangedBy(u, t, n, r)
    BY <2>4, <2>6, ArrangesIs DEF ArrangedBy
  <2>8. QED
    BY <2>7, <1>8
<1>7. QED
  BY <1>5, <1>6

\* No destination precedes the one before it.
Sorted(s) == \A i \in 1 .. Len(s) - 1 : ~Precedes(s[i + 1], s[i])

\* Of two destinations one at most precedes the other.
LEMMA PrecedesOneWay ==
  ASSUME NEW d \in Mdsts, NEW e \in Mdsts, Precedes(d, e)
  PROVE  ~Precedes(e, d)
<1> DEFINE p == MdstImage(d)
           q == MdstImage(e)
           n == SizeMdst
<1>1. p \in Seq(Int) /\ Len(p) = n /\ q \in Seq(Int) /\ Len(q) = n
  BY ImageOfMdst DEF ImageIs
<1>2. DOMAIN p = 1 .. n /\ DOMAIN q = 1 .. n /\ \A i \in 1 .. n : p[i] \in Int /\ q[i] \in Int
  BY <1>1, LenProperties
<1>3. PICK i \in 1 .. n : p[i] < q[i] /\ \A j \in 1 .. i - 1 : p[j] = q[j]
  BY <1>2 DEF Precedes
<1>4. SUFFICES ASSUME Precedes(e, d) PROVE FALSE
  OBVIOUS
<1>5. PICK k \in 1 .. n : q[k] < p[k] /\ \A j \in 1 .. k - 1 : q[j] = p[j]
  BY <1>2, <1>4 DEF Precedes
<1> HIDE DEF p, q, n
<1>6. CASE i < k
  <2>1. i \in 1 .. k - 1
    BY <1>6
  <2>2. QED
    BY <2>1, <1>2, <1>3, <1>5
<1>7. CASE k < i
  <2>1. k \in 1 .. i - 1
    BY <1>7
  <2>2. QED
    BY <2>1, <1>2, <1>3, <1>5
<1>8. CASE i = k
  BY <1>8, <1>2, <1>3, <1>5
<1>9. QED
  BY <1>6, <1>7, <1>8

\* The first m of s in the order p are sorted.
InOrder(s, p, m) == \A i \in 1 .. m - 1 : ~Precedes(s[p[i + 1]], s[p[i]])

\* One more element has a place among those in order: before the first it
\* precedes.
LEMMA Insertion ==
  ASSUME NEW m \in Nat \ {0}, NEW s, \A i \in 1 .. m : s[i] \in Mdsts,
         NEW p, Arranges(p, m - 1), InOrder(s, p, m - 1)
  PROVE  \E q : Arranges(q, m) /\ InOrder(s, q, m)
<1> DEFINE K == {k \in 1 .. m - 1 : Precedes(s[m], s[p[k]])}
<1>1. PICK c \in 1 .. m : /\ \A k \in 1 .. c - 1 : ~Precedes(s[m], s[p[k]])
                          /\ c < m => Precedes(s[m], s[p[c]])
  <2>1. CASE K = {}
    <3>1. m \in 1 .. m /\ \A k \in 1 .. m - 1 : ~Precedes(s[m], s[p[k]])
      BY <2>1
    <3>2. QED
      BY <3>1
  <2>2. CASE K # {}
    <3>1. K \subseteq Nat
      OBVIOUS
    <3> HIDE DEF K
    <3>2. PICK c \in K : \A y \in K : c <= y
      BY <2>2, <3>1, LeastNatural
    <3>3. c \in 1 .. m - 1 /\ Precedes(s[m], s[p[c]])
      BY <3>2 DEF K
    <3>4. ASSUME NEW k \in 1 .. c - 1
          PROVE  ~Precedes(s[m], s[p[k]])
      <4>1. k \in 1 .. m - 1 /\ k < c
        BY <3>3
      <4>2. k \notin K
        BY <3>2, <3>3, <4>1
      <4>3. QED
        BY <4>1, <4>2 DEF K
    <3>5. c \in 1 .. m
      BY <3>3
    <3>6. QED
      BY <3>3, <3>4, <3>5
  <2>3. QED
    BY <2>1, <2>2
<1> HIDE DEF K
<1> DEFINE q == [i \in 1 .. m |-> IF i < c THEN p[i] ELSE IF i = c THEN m ELSE p[i - 1]]
<1>2. /\ p \in [1 .. m - 1 -> 1 .. m - 1]
      /\ \A i, j \in 1 .. m - 1 : p[i] = p[j] => i = j
      /\ \A j \in 1 .. m - 1 : \E i \in 1 .. m - 1 : p[i] = j
  BY DEF Arranges
<1>3. /\ \A i \in 1 .. c - 1 : i \in 1 .. m /\ i \in 1 .. m - 1 /\ q[i] = p[i]
      /\ q[c] = m /\ c \in 1 .. m
      /\ \A i \in c + 1 .. m : i \in 1 .. m /\ i - 1 \in 1 .. m - 1 /\ q[i] = p[i - 1]
      /\ \A i \in 1 .. m : i \in 1 .. c - 1 \/ i = c \/ i \in c + 1 .. m
  OBVIOUS
<1>4. \A i \in 1 .. m : q[i] \in 1 .. m
  <2> HIDE DEF q
  <2> TAKE i \in 1 .. m
  <2>1. \A k \in 1 .. m - 1 : p[k] \in 1 .. m
    <3> TAKE k \in 1 .. m - 1
    <3>1. p[k] \in 1 .. m - 1
      BY <1>2
    <3>2. QED
      BY <3>1
  <2>2. m \in 1 .. m
    OBVIOUS
  <2>3. CASE i \in 1 .. c - 1
    BY <1>3, <2>1, <2>3
  <2>4. CASE i = c
    BY <1>3, <2>2, <2>4
  <2>5. CASE i \in c + 1 .. m
    BY <1>3, <2>1, <2>5
  <2>6. QED
    BY <1>3, <2>3, <2>4, <2>5
<1>5. q \in [1 .. m -> 1 .. m]
  BY <1>4
<1> HIDE DEF q
<1>6. ASSUME NEW i \in 1 .. m, NEW j \in 1 .. m, q[i] = q[j]
      PROVE  i = j
  <2>1. \A k \in 1 .. m - 1 : p[k] # m
    BY <1>2
  <2>2. CASE i \in 1 .. c - 1
    <3>1. CASE j \in 1 .. c - 1
      BY <1>2, <1>3, <1>6, <2>2, <3>1
    <3>2. CASE j = c
      BY <1>3, <1>6, <2>1, <2>2, <3>2
    <3>3. CASE j \in c + 1 .. m
      <4>1. p[i] = p[j - 1]
        BY <1>3, <1>6, <2>2, <3>3
      <4>2. i = j - 1
        BY <1>2, <1>3, <2>2, <3>3, <4>1
      <4>3. QED
        BY <2>2, <3>3, <4>2
    <3>4. QED
      BY <1>3, <3>1, <3>2, <3>3
  <2>3. CASE i = c
    BY <1>3, <1>6, <2>1, <2>3
  <2>4. CASE i \in c + 1 .. m
    <3>1. CASE j \in 1 .. c - 1
      <4>1. p[j] = p[i - 1]
        BY <1>3, <1>6, <2>4, <3>1
      <4>2. j = i - 1
        BY <1>2, <1>3, <2>4, <3>1, <4>1
      <4>3. QED
        BY <2>4, <3>1, <4>2
    <3>2. CASE j = c
      BY <1>3, <1>6, <2>1, <2>4, <3>2
    <3>3. CASE j \in c + 1 .. m
      <4>1. p[i - 1] = p[j - 1]
        BY <1>3, <1>6, <2>4, <3>3
      <4>2. i - 1 = j - 1
        BY <1>2, <1>3, <2>4, <3>3, <4>1
      <4>3. QED
        BY <2>4, <3>3, <4>2
    <3>4. QED
      BY <1>3, <3>1, <3>2, <3>3
  <2>5. QED
    BY <1>3, <2>2, <2>3, <2>4
<1>7. ASSUME NEW j \in 1 .. m
      PROVE  \E i \in 1 .. m : q[i] = j
  <2>1. CASE j = m
    BY <1>3, <2>1
  <2>2. CASE j # m
    <3>1. j \in 1 .. m - 1
      BY <2>2
    <3>2. PICK i \in 1 .. m - 1 : p[i] = j
      BY <1>2, <3>1
    <3>3. CASE i < c
      <4>1. i \in 1 .. c - 1
        BY <3>3
      <4>2. QED
        BY <1>3, <3>2, <4>1
    <3>4. CASE ~(i < c)
      <4>1. i + 1 \in c + 1 .. m /\ (i + 1) - 1 = i
        BY <3>4
      <4>2. q[i + 1] = j /\ i + 1 \in 1 .. m
        BY <1>3, <3>2, <4>1
      <4>3. QED
        BY <4>2
    <3>5. QED
      BY <3>3, <3>4
  <2>3. QED
    BY <2>1, <2>2
<1>8. Arranges(q, m)
  BY <1>5, <1>6, <1>7 DEF Arranges
<1>9. ASSUME NEW i \in 1 .. m - 1
      PROVE  ~Precedes(s[q[i + 1]], s[q[i]])
  <2>1. \A k \in 1 .. m - 2 : ~Precedes(s[p[k + 1]], s[p[k]])
    BY DEF InOrder
  <2>2. CASE i + 1 < c
    <3>1. i \in 1 .. c - 1 /\ i + 1 \in 1 .. c - 1 /\ i \in 1 .. m - 2
      BY <2>2
    <3>2. QED
      BY <1>3, <2>1, <3>1
  <2>3. CASE i + 1 = c
    <3>1. i \in 1 .. c - 1
      BY <2>3
    <3>2. QED
      BY <1>1, <1>3, <2>3, <3>1
  <2>4. CASE i = c
    <3>1. i + 1 \in c + 1 .. m /\ (i + 1) - 1 = c /\ c < m /\ c \in 1 .. m - 1
      BY <2>4
    <3>2. q[i + 1] = p[c] /\ q[i] = m
      BY <1>3, <2>4, <3>1
    <3>3. Precedes(s[m], s[p[c]])
      BY <1>1, <3>1
    <3>4. s[m] \in Mdsts /\ s[p[c]] \in Mdsts
      <4>1. p[c] \in 1 .. m - 1
        BY <1>2, <3>1
      <4>2. p[c] \in 1 .. m /\ m \in 1 .. m
        BY <4>1
      <4>3. QED
        BY <4>2
    <3>5. QED
      BY <3>2, <3>3, <3>4, PrecedesOneWay
  <2>5. CASE i > c
    <3>1. /\ i \in c + 1 .. m /\ i + 1 \in c + 1 .. m /\ i - 1 \in 1 .. m - 2
          /\ (i + 1) - 1 = i /\ (i - 1) + 1 = i
      BY <2>5
    <3>2. q[i + 1] = p[i] /\ q[i] = p[i - 1]
      BY <1>3, <3>1
    <3>3. ~Precedes(s[p[(i - 1) + 1]], s[p[i - 1]])
      BY <2>1, <3>1
    <3>4. QED
      BY <3>1, <3>2, <3>3
  <2>6. QED
    BY <2>2, <2>3, <2>4, <2>5
<1>10. QED
  BY <1>8, <1>9 DEF InOrder

\* Every list of destinations has a sorted arrangement.
LEMMA SortExists ==
  ASSUME NEW s \in Seq(Mdsts)
  PROVE  \E t \in Arrangements(s) : Sorted(t)
<1> DEFINE n == Len(s)
           T == {m \in 0 .. n : \E p : Arranges(p, m) /\ InOrder(s, p, m)}
<1>1. n \in Nat /\ \A i \in 1 .. n : s[i] \in Mdsts
  BY LenProperties
<1>2. 0 \in T
  <2> DEFINE p == [i \in 1 .. 0 |-> i]
  <2>1. Arranges(p, 0) /\ InOrder(s, p, 0)
    BY DEF Arranges, InOrder
  <2>2. 0 \in 0 .. n
    BY <1>1
  <2> HIDE DEF p
  <2>3. QED
    BY <2>1, <2>2
<1>3. ASSUME NEW m \in 1 .. n, m - 1 \in T
      PROVE  m \in T
  <2>1. PICK p : Arranges(p, m - 1) /\ InOrder(s, p, m - 1)
    BY <1>3
  <2>2. m \in Nat \ {0} /\ m \in 0 .. n /\ \A i \in 1 .. m : s[i] \in Mdsts
    BY <1>1
  <2>3. \E q : Arranges(q, m) /\ InOrder(s, q, m)
    BY <2>1, <2>2, Insertion
  <2>4. QED
    BY <2>2, <2>3
<1>4. n \in T
  <2>1. n \in 0 .. n
    BY <1>1
  <2> HIDE DEF T
  <2>2. QED
    BY <1>1, <1>2, <1>3, <2>1, UpTo
<1>5. PICK p : Arranges(p, n) /\ InOrder(s, p, n)
  BY <1>4
<1> DEFINE t == [i \in 1 .. n |-> s[p[i]]]
<1>6. ArrangedBy(t, s, n, p)
  BY <1>5 DEF ArrangedBy
<1>7. \A i \in 1 .. n - 1 : i \in 1 .. n /\ i + 1 \in 1 .. n
  BY <1>1
<1>8. \A i \in 1 .. n - 1 : ~Precedes(t[i + 1], t[i])
  BY <1>5, <1>7 DEF InOrder
<1> HIDE DEF t
<1>9. t \in Arrangements(s)
  BY <1>6, ArrangementIs
<1>10. Len(t) = n
  BY <1>9, ArrangementIsSeq
<1>11. Sorted(t)
  BY <1>8, <1>10 DEF Sorted
<1>12. QED
  BY <1>9, <1>11

\* The planner's order is a sorted arrangement, and the same of every one.
LEMMA WireOrderIs ==
  ASSUME NEW s \in Seq(Mdsts)
  PROVE  /\ WireOrder(s) \in Arrangements(s)
         /\ Sorted(WireOrder(s))
         /\ \A t \in Arrangements(s) : WireOrder(t) = WireOrder(s)
<1>1. WireOrder(s) = CHOOSE t \in Arrangements(s) : Sorted(t)
  BY Zenon DEF WireOrder, Sorted
<1>2. \A t : WireOrder(t) = CHOOSE u \in Arrangements(t) : Sorted(u)
  BY Zenon DEF WireOrder, Sorted
<1>3. WireOrder(s) \in Arrangements(s) /\ Sorted(WireOrder(s))
  BY <1>1, SortExists
<1>4. ASSUME NEW t \in Arrangements(s)
      PROVE  WireOrder(t) = WireOrder(s)
  <2>1. Arrangements(t) = Arrangements(s)
    BY ArrangementsSame
  <2>2. QED
    BY <1>2, <2>1
<1>5. QED
  BY <1>3, <1>4

\* Where d is in s.
PlacesOf(s, d) == {i \in DOMAIN s : s[i] = d}

\* Every arrangement is the same list.
LEMMA ArrangementIsSameList ==
  ASSUME NEW S, NEW s \in Seq(S), NEW t \in Arrangements(s)
  PROVE  SameList(t, s) /\ SameList(s, t)
<1> DEFINE n == Len(s)
           I == 1 .. n
<1>1. n \in Nat /\ t \in Seq(S) /\ Len(t) = n /\ DOMAIN s = I /\ DOMAIN t = I
  <2>1. t \in Seq(S) /\ Len(t) = n
    BY ArrangementIsSeq
  <2>2. QED
    BY <2>1, LenProperties
<1>2. PICK p : ArrangedBy(t, s, n, p)
  BY ArrangementIs
<1>3. p \in Bijection(I, I) /\ \A i \in I : t[i] = s[p[i]]
  BY <1>2, ArrangesIs DEF ArrangedBy
<1> HIDE DEF n
<1>4. p \in [I -> I] /\ (\A a, b \in I : p[a] = p[b] => a = b) /\ \A j \in I : \E i \in I : p[i] = j
  <2> HIDE DEF I
  <2>1. QED
    BY <1>3, Fun_BijectionProperties
<1>5. ASSUME NEW d
      PROVE  Cardinality(PlacesOf(t, d)) = Cardinality(PlacesOf(s, d))
  <2> DEFINE X == PlacesOf(t, d)
             Y == PlacesOf(s, d)
             f == [i \in X |-> p[i]]
  <2>1. X \subseteq I /\ Y \subseteq I /\ X = {i \in I : t[i] = d} /\ Y = {i \in I : s[i] = d}
    BY <1>1 DEF PlacesOf
  <2>2. IsFiniteSet(X)
    <3>1. IsFiniteSet(I)
      BY <1>1, FS_Interval
    <3> HIDE DEF X, I
    <3>2. QED
      BY <2>1, <3>1, FS_Subset
  <2> HIDE DEF X, Y, I
  <2>3. f \in [X -> Y]
    BY <1>3, <1>4, <2>1
  <2>4. \A a, b \in X : f[a] = f[b] => a = b
    BY <1>4, <2>1
  <2>5. \A y \in Y : \E x \in X : f[x] = y
    <3> TAKE y \in Y
    <3>1. y \in I /\ s[y] = d
      BY <2>1
    <3>2. PICK x \in I : p[x] = y
      BY <1>4, <3>1
    <3>3. t[x] = d
      BY <1>3, <3>1, <3>2
    <3>4. x \in X
      BY <2>1, <3>3
    <3>5. QED
      BY <3>2, <3>4
  <2> HIDE DEF f
  <2>6. f \in Bijection(X, Y)
    BY <2>3, <2>4, <2>5, Fun_IsBij
  <2>7. ExistsBijection(X, Y)
    BY <2>6 DEF ExistsBijection
  <2>8. Cardinality(Y) = Cardinality(X)
    BY <2>2, <2>7, FS_Bijection
  <2>9. QED
    BY <2>8 DEF X, Y
<1>6. QED
  BY <1>5 DEF SameList, PlacesOf

\* Lists that are the same are arrangements of each other.
LEMMA SameListIsArrangement ==
  ASSUME NEW S, NEW s \in Seq(S), NEW t \in Seq(S), SameList(t, s)
  PROVE  t \in Arrangements(s)
<1> DEFINE n == Len(s)
           m == Len(t)
           I == 1 .. n
           J == 1 .. m
           V == ToSet(t) \cup ToSet(s)
<1>1. n \in Nat /\ m \in Nat /\ DOMAIN s = I /\ DOMAIN t = J
  BY LenProperties
<1>2. IsFiniteSet(I) /\ IsFiniteSet(J)
  BY <1>1, FS_Interval
<1>3. /\ \A i \in I : s[i] \in V
      /\ \A j \in J : t[j] \in V
  BY <1>1 DEF ToSet
<1>4. \A d \in V : Cardinality(PlacesOf(t, d)) = Cardinality(PlacesOf(s, d))
  BY DEF SameList, PlacesOf
<1> DEFINE X(d) == PlacesOf(t, d)
           Y(d) == PlacesOf(s, d)
<1>5. \A d : X(d) \subseteq J /\ Y(d) \subseteq I /\ X(d) = {j \in J : t[j] = d} /\ Y(d) = {i \in I : s[i] = d}
  BY <1>1 DEF PlacesOf
<1> HIDE DEF n, m, I, J, V, X, Y
<1>6. ASSUME NEW d \in V
      PROVE  \E f : f \in Bijection(X(d), Y(d))
  <2>1. X(d) \subseteq J /\ Y(d) \subseteq I
    BY <1>5
  <2>2. IsFiniteSet(X(d)) /\ IsFiniteSet(Y(d))
    BY <1>2, <2>1, FS_Subset
  <2>3. Cardinality(X(d)) = Cardinality(Y(d))
    BY <1>4 DEF X, Y
  <2> DEFINE x == X(d)
             y == Y(d)
  <2>5. IsFiniteSet(x) /\ IsFiniteSet(y) /\ Cardinality(x) = Cardinality(y)
    BY <2>2, <2>3
  <2> HIDE DEF x, y
  <2>4. ExistsBijection(x, y)
    BY <2>5, FS_SameCardinalityBij
  <2>6. Bijection(x, y) # {}
    BY <2>4 DEF ExistsBijection
  <2>7. QED
    BY <2>6 DEF x, y
<1> DEFINE b(d) == CHOOSE f : f \in Bijection(X(d), Y(d))
<1>7. \A d \in V : b(d) \in Bijection(X(d), Y(d))
  BY <1>6
<1> HIDE DEF b
<1>8. ASSUME NEW d \in V
      PROVE  /\ b(d) \in [X(d) -> Y(d)]
             /\ \A x, y \in X(d) : b(d)[x] = b(d)[y] => x = y
             /\ \A y \in Y(d) : \E x \in X(d) : b(d)[x] = y
  <2> DEFINE f == b(d)
             x == X(d)
             y == Y(d)
  <2>1. f \in Bijection(x, y)
    BY <1>7
  <2> HIDE DEF f, x, y
  <2>2. /\ f \in [x -> y] /\ (\A v, w \in x : f[v] = f[w] => v = w)
        /\ \A w \in y : \E v \in x : f[v] = w
    BY <2>1, Fun_BijectionProperties
  <2>3. QED
    BY <2>2 DEF f, x, y
<1> DEFINE p == [j \in J |-> b(t[j])[j]]
<1>9. ASSUME NEW j \in J
      PROVE  p[j] \in I /\ s[p[j]] = t[j]
  <2>1. t[j] \in V /\ j \in X(t[j])
    BY <1>3, <1>5
  <2>2. b(t[j])[j] \in Y(t[j])
    BY <1>8, <2>1
  <2>3. p[j] = b(t[j])[j]
    OBVIOUS
  <2>4. QED
    BY <1>5, <2>2, <2>3
<1>10. p \in [J -> I]
  BY <1>9
<1>11. ASSUME NEW j \in J, NEW k \in J, p[j] = p[k]
       PROVE  j = k
  <2>1. t[j] = t[k]
    BY <1>9, <1>11
  <2>2. t[j] \in V /\ j \in X(t[j]) /\ k \in X(t[j])
    BY <1>3, <1>5, <2>1
  <2>3. b(t[j])[j] = b(t[j])[k]
    BY <1>11, <2>1
  <2>4. QED
    BY <1>8, <2>2, <2>3
<1>12. ASSUME NEW i \in I
       PROVE  \E j \in J : p[j] = i
  <2>1. s[i] \in V /\ i \in Y(s[i])
    BY <1>3, <1>5
  <2>2. PICK j \in X(s[i]) : b(s[i])[j] = i
    BY <1>8, <2>1
  <2>3. j \in J /\ t[j] = s[i]
    BY <1>5
  <2>4. QED
    BY <2>2, <2>3
<1> HIDE DEF p
<1>13. p \in Bijection(J, I)
  BY <1>10, <1>11, <1>12, Fun_IsBij
<1>14. m = n
  <2>1. ExistsBijection(J, I)
    BY <1>13 DEF ExistsBijection
  <2>2. Cardinality(I) = Cardinality(J)
    BY <1>2, <2>1, FS_Bijection
  <2>3. 1 \in Int /\ n \in Int /\ m \in Int
    BY <1>1
  <2>4. Cardinality(1 .. n) = (IF 1 > n THEN 0 ELSE n - 1 + 1)
    BY <2>3, FS_Interval
  <2>5. Cardinality(1 .. m) = (IF 1 > m THEN 0 ELSE m - 1 + 1)
    BY <2>3, FS_Interval
  <2>6. QED
    BY <1>1, <2>2, <2>4, <2>5 DEF I, J
<1>15. Arranges(p, n)
  BY <1>13, <1>14, ArrangesIs DEF I, J
<1>16. t = [i \in 1 .. n |-> s[p[i]]]
  <2>1. t \in [1 .. m -> S]
    BY LenProperties DEF m
  <2>2. QED
    BY <1>9, <1>14, <2>1 DEF I, J
<1>17. ArrangedBy(t, s, n, p)
  BY <1>15, <1>16 DEF ArrangedBy
<1>18. QED
  BY <1>17, ArrangementIs DEF n

-----------------------------------------------------------------------------
(* References.                                                              *)

\* The node's machine as a table.
Follows(q, c) ==
  CASE q = "Start"     -> IF c = NUL THEN {"Zero"} ELSE IF c = Digit THEN {"Digit"}
                          ELSE IF c = Upper THEN {"Upper"} ELSE {}
    [] q = "Zero"      -> IF c = NUL THEN {"Zero"} ELSE {}
    [] q = "Digit"     -> IF c = NUL THEN {"Zero"} ELSE IF c = Digit THEN {"Digit"}
                          ELSE IF c = Dash THEN {"DigitDash"} ELSE {}
    [] q = "Upper"     -> IF c = NUL THEN {"Zero"} ELSE IF c = Upper THEN {"Upper"}
                          ELSE IF c = Dash THEN {"UpperDash"} ELSE {}
    [] q = "DigitDash" -> IF c = Upper THEN {"Upper"} ELSE {}
    [] OTHER           -> IF c = Digit THEN {"Digit"} ELSE {}

\* The machine's states.
States == {"Start", "Zero", "Digit", "Upper", "DigitDash", "UpperDash"}

\* The table is the machine's steps.
LEMMA TableOfSteps ==
  ASSUME NEW q \in States, NEW c \in NUL .. Other
  PROVE  ReferenceAfter(q, c) = Follows(q, c)
<1>1. \A x : x \in ReferenceAfter(q, c) <=> <<q, c, x>> \in ReferenceSteps
  <2>1. \A t \in ReferenceSteps : t = <<t[1], t[2], t[3]>>
    BY DEF ReferenceSteps
  <2>2. ASSUME NEW x, x \in ReferenceAfter(q, c)
        PROVE  <<q, c, x>> \in ReferenceSteps
    <3>1. PICK t \in ReferenceSteps : t[1] = q /\ t[2] = c /\ x = t[3]
      BY <2>2 DEF ReferenceAfter
    <3>2. QED
      BY <2>1, <3>1
  <2>3. ASSUME NEW x, <<q, c, x>> \in ReferenceSteps
        PROVE  x \in ReferenceAfter(q, c)
    BY <2>3 DEF ReferenceAfter
  <2>4. QED
    BY <2>2, <2>3
<1>2. c = 0 \/ c = 1 \/ c = 2 \/ c = 3 \/ c = 4
  BY DEF NUL, Other
<1>4. CASE q = "Start"
  <2>1. \A x : <<q, c, x>> \in ReferenceSteps <=> (c = 0 /\ x = "Zero") \/ (c = 2 /\ x = "Digit") \/ (c = 3 /\ x = "Upper")
    BY <1>4 DEF ReferenceSteps, NUL, Dash, Digit, Upper
  <2>2. \A x : x \in Follows(q, c) <=> (c = 0 /\ x = "Zero") \/ (c = 2 /\ x = "Digit") \/ (c = 3 /\ x = "Upper")
    BY <1>2, <1>4 DEF Follows, NUL, Dash, Digit, Upper
  <2>3. \A x : x \in ReferenceAfter(q, c) <=> x \in Follows(q, c)
    BY <1>1, <2>1, <2>2
  <2>4. QED
    BY <2>3
<1>5. CASE q = "Zero"
  <2>1. \A x : <<q, c, x>> \in ReferenceSteps <=> (c = 0 /\ x = "Zero")
    BY <1>5 DEF ReferenceSteps, NUL, Dash, Digit, Upper
  <2>2. \A x : x \in Follows(q, c) <=> (c = 0 /\ x = "Zero")
    BY <1>2, <1>5 DEF Follows, NUL, Dash, Digit, Upper
  <2>3. \A x : x \in ReferenceAfter(q, c) <=> x \in Follows(q, c)
    BY <1>1, <2>1, <2>2
  <2>4. QED
    BY <2>3
<1>6. CASE q = "Digit"
  <2>1. \A x : <<q, c, x>> \in ReferenceSteps <=> (c = 0 /\ x = "Zero") \/ (c = 2 /\ x = "Digit") \/ (c = 1 /\ x = "DigitDash")
    BY <1>6 DEF ReferenceSteps, NUL, Dash, Digit, Upper
  <2>2. \A x : x \in Follows(q, c) <=> (c = 0 /\ x = "Zero") \/ (c = 2 /\ x = "Digit") \/ (c = 1 /\ x = "DigitDash")
    BY <1>2, <1>6 DEF Follows, NUL, Dash, Digit, Upper
  <2>3. \A x : x \in ReferenceAfter(q, c) <=> x \in Follows(q, c)
    BY <1>1, <2>1, <2>2
  <2>4. QED
    BY <2>3
<1>7. CASE q = "Upper"
  <2>1. \A x : <<q, c, x>> \in ReferenceSteps <=> (c = 0 /\ x = "Zero") \/ (c = 3 /\ x = "Upper") \/ (c = 1 /\ x = "UpperDash")
    BY <1>7 DEF ReferenceSteps, NUL, Dash, Digit, Upper
  <2>2. \A x : x \in Follows(q, c) <=> (c = 0 /\ x = "Zero") \/ (c = 3 /\ x = "Upper") \/ (c = 1 /\ x = "UpperDash")
    BY <1>2, <1>7 DEF Follows, NUL, Dash, Digit, Upper
  <2>3. \A x : x \in ReferenceAfter(q, c) <=> x \in Follows(q, c)
    BY <1>1, <2>1, <2>2
  <2>4. QED
    BY <2>3
<1>8. CASE q = "DigitDash"
  <2>1. \A x : <<q, c, x>> \in ReferenceSteps <=> (c = 3 /\ x = "Upper")
    BY <1>8 DEF ReferenceSteps, NUL, Dash, Digit, Upper
  <2>2. \A x : x \in Follows(q, c) <=> (c = 3 /\ x = "Upper")
    BY <1>2, <1>8 DEF Follows, NUL, Dash, Digit, Upper
  <2>3. \A x : x \in ReferenceAfter(q, c) <=> x \in Follows(q, c)
    BY <1>1, <2>1, <2>2
  <2>4. QED
    BY <2>3
<1>9. CASE q = "UpperDash"
  <2>1. \A x : <<q, c, x>> \in ReferenceSteps <=> (c = 2 /\ x = "Digit")
    BY <1>9 DEF ReferenceSteps, NUL, Dash, Digit, Upper
  <2>2. \A x : x \in Follows(q, c) <=> (c = 2 /\ x = "Digit")
    BY <1>2, <1>9 DEF Follows, NUL, Dash, Digit, Upper
  <2>3. \A x : x \in ReferenceAfter(q, c) <=> x \in Follows(q, c)
    BY <1>1, <2>1, <2>2
  <2>4. QED
    BY <2>3
<1>10. QED
  BY <1>4, <1>5, <1>6, <1>7, <1>8, <1>9 DEF States

\* What may stand at i of a reference, after what stands before it.
MayStand(r, i) ==
  /\ r[i] \in {Dash, Digit, Upper}
  /\ i = 1 => r[i] # Dash
  /\ i > 1 => /\ ~(r[i - 1] = Dash /\ r[i] = Dash)
              /\ ~(r[i - 1] = Digit /\ r[i] = Upper)
              /\ ~(r[i - 1] = Upper /\ r[i] = Digit)
  /\ i > 2 /\ r[i - 1] = Dash => r[i - 2] # r[i]

\* The first n bytes may stand; a text may end there; the text has ended.
WellWritten(r, n) == \A i \in 1 .. n : MayStand(r, i)
MayEnd(r, n) == WellWritten(r, n) /\ (n > 0 => r[n] # Dash)
Ended(r, i) == \E n \in 0 .. i - 1 : MayEnd(r, n) /\ \A k \in n + 1 .. i : r[k] = NUL

\* The machine's state after byte i of a text.
StateAt(r, i) ==
  IF i = 0 THEN "Start"
  ELSE IF r[i] = Digit THEN "Digit"
  ELSE IF r[i] = Upper THEN "Upper"
  ELSE IF r[i - 1] = Digit THEN "DigitDash" ELSE "UpperDash"

\* The machine's states after i bytes.
After(r, i) ==
  IF WellWritten(r, i) THEN {StateAt(r, i)} ELSE IF Ended(r, i) THEN {"Zero"} ELSE {}

\* What a further byte makes of what the bytes before it are.
LEMMA OneMoreByte ==
  ASSUME NEW r, NEW i \in Nat \ {0}
  PROVE  /\ WellWritten(r, i) <=> WellWritten(r, i - 1) /\ MayStand(r, i)
         /\ r[i] # NUL => ~Ended(r, i)
         /\ r[i] = NUL => (Ended(r, i) <=> Ended(r, i - 1) \/ MayEnd(r, i - 1))
         /\ WellWritten(r, i) => r[i] # NUL
<1>1. WellWritten(r, i) <=> WellWritten(r, i - 1) /\ MayStand(r, i)
  <2>1. \A k \in 1 .. i : k \in 1 .. i - 1 \/ k = i
    OBVIOUS
  <2>2. i \in 1 .. i /\ \A k \in 1 .. i - 1 : k \in 1 .. i
    OBVIOUS
  <2>3. QED
    BY <2>1, <2>2, Zenon DEF WellWritten
<1>2. r[i] # NUL => ~Ended(r, i)
  <2>1. \A n \in 0 .. i - 1 : i \in n + 1 .. i
    OBVIOUS
  <2>2. QED
    BY <2>1, Zenon DEF Ended
<1>3. ASSUME r[i] = NUL
      PROVE  Ended(r, i) <=> Ended(r, i - 1) \/ MayEnd(r, i - 1)
  <2>1. ASSUME Ended(r, i)
        PROVE  Ended(r, i - 1) \/ MayEnd(r, i - 1)
    <3>1. PICK n \in 0 .. i - 1 : MayEnd(r, n) /\ \A k \in n + 1 .. i : r[k] = NUL
      BY <2>1 DEF Ended
    <3>2. CASE n = i - 1
      BY <3>1, <3>2
    <3>3. CASE n # i - 1
      <4>1. n \in 0 .. (i - 1) - 1 /\ \A k \in n + 1 .. i - 1 : k \in n + 1 .. i
        BY <3>3
      <4>2. Ended(r, i - 1)
        BY <3>1, <4>1, Zenon DEF Ended
      <4>3. QED
        BY <4>2
    <3>4. QED
      BY <3>2, <3>3
  <2>2. ASSUME Ended(r, i - 1)
        PROVE  Ended(r, i)
    <3>1. PICK n \in 0 .. (i - 1) - 1 : MayEnd(r, n) /\ \A k \in n + 1 .. i - 1 : r[k] = NUL
      BY <2>2, Zenon DEF Ended
    <3>2. n \in 0 .. i - 1 /\ \A k \in n + 1 .. i : k \in n + 1 .. i - 1 \/ k = i
      BY <3>1
    <3>3. \A k \in n + 1 .. i : r[k] = NUL
      BY <1>3, <3>1, <3>2
    <3>4. QED
      BY <3>1, <3>2, <3>3, Zenon DEF Ended
  <2>3. ASSUME MayEnd(r, i - 1)
        PROVE  Ended(r, i)
    <3>1. i - 1 \in 0 .. i - 1 /\ \A k \in (i - 1) + 1 .. i : k = i
      OBVIOUS
    <3>2. \A k \in (i - 1) + 1 .. i : r[k] = NUL
      BY <1>3, <3>1
    <3>3. QED
      BY <2>3, <3>1, <3>2, Zenon DEF Ended
  <2>4. QED
    BY <2>1, <2>2, <2>3
<1>4. WellWritten(r, i) => r[i] # NUL
  BY <1>1 DEF MayStand, NUL, Dash, Digit, Upper
<1>5. QED
  BY <1>1, <1>2, <1>3, <1>4

\* The states that byte i leads to.
StatesOf(r, i) == UNION {ReferenceAfter(q, r[i]) : q \in After(r, i - 1)}

\* What OneMoreByte says.
ByteFacts(r, i) ==
  /\ WellWritten(r, i) <=> WellWritten(r, i - 1) /\ MayStand(r, i)
  /\ r[i] # NUL => ~Ended(r, i)
  /\ r[i] = NUL => (Ended(r, i) <=> Ended(r, i - 1) \/ MayEnd(r, i - 1))
  /\ WellWritten(r, i) => r[i] # NUL

\* The machine's state follows what the bytes so far are.
LEMMA StepOfMachine ==
  ASSUME NEW r \in AllReferences, NEW i \in 1 .. ReferenceLen
  PROVE  StatesOf(r, i) = After(r, i)
<1>1. i \in Nat \ {0} /\ \A k \in 1 .. i : r[k] \in NUL .. Other
  BY WireAssumption DEF AllReferences
<1>2. ByteFacts(r, i)
  BY <1>1, OneMoreByte DEF ByteFacts
<1>3. r[i] \in NUL .. Other
  BY <1>1
<1>4. r[i] = NUL \/ r[i] = Dash \/ r[i] = Digit \/ r[i] = Upper \/ r[i] = Other
  BY <1>3 DEF NUL, Dash, Digit, Upper, Other
<1>5. /\ NUL # Dash /\ NUL # Digit /\ NUL # Upper /\ NUL # Other /\ Dash # Digit /\ Dash # Upper
      /\ Dash # Other /\ Digit # Upper /\ Digit # Other /\ Upper # Other
  BY DEF NUL, Dash, Digit, Upper, Other
<1>6. \A q \in States : After(r, i - 1) = {q} => StatesOf(r, i) = Follows(q, r[i])
  <2> TAKE q \in States
  <2>1. ReferenceAfter(q, r[i]) = Follows(q, r[i])
    BY <1>3, TableOfSteps
  <2>2. QED
    BY <2>1 DEF StatesOf
<1> DEFINE s == StateAt(r, i)
           b == r[i]
<1>7. CASE WellWritten(r, i - 1)
  <2>1. After(r, i - 1) = {StateAt(r, i - 1)}
    BY <1>7 DEF After
  <2>2. CASE i = 1
    <3>1. StateAt(r, i - 1) = "Start"
      BY <2>2 DEF StateAt
    <3>2. StatesOf(r, i) = Follows("Start", b)
      BY <1>6, <2>1, <3>1 DEF States
    <3>3. MayEnd(r, i - 1)
      BY <1>7, <2>2 DEF MayEnd
    <3>4. WellWritten(r, i) <=> b = Digit \/ b = Upper
      BY <1>2, <1>5, <1>7, <2>2 DEF ByteFacts, MayStand
    <3>5. b = Digit => s = "Digit"
      BY <2>2 DEF StateAt
    <3>6. b = Upper => s = "Upper"
      BY <1>5, <2>2 DEF StateAt
    <3>7. Follows("Start", b) = IF b = NUL THEN {"Zero"} ELSE IF b = Digit THEN {"Digit"}
                          ELSE IF b = Upper THEN {"Upper"} ELSE {}
      BY DEF Follows
    <3>8. Ended(r, i) <=> b = NUL
      BY <1>2, <3>3 DEF ByteFacts
    <3> HIDE DEF s, b
    <3>9. After(r, i) = IF WellWritten(r, i) THEN {s} ELSE IF Ended(r, i) THEN {"Zero"} ELSE {}
      BY DEF After, s
    <3>10. QED
      BY <1>4, <1>5, <3>2, <3>4, <3>5, <3>6, <3>7, <3>8, <3>9 DEF b
  <2>3. CASE i # 1
    <3>1. i - 1 \in 1 .. i - 1 /\ i > 1 /\ i - 1 # 0 /\ (i - 1) - 1 = i - 2 /\ i # 0
      BY <1>1, <2>3
    <3>2. MayStand(r, i - 1)
      BY <1>7, <3>1 DEF WellWritten
    <3>3. MayEnd(r, i - 1) <=> r[i - 1] # Dash
      BY <1>7, <3>1 DEF MayEnd
    <3>4. ~Ended(r, i - 1)
      <4>1. i - 1 \in Nat \ {0}
        BY <3>1
      <4>2. ByteFacts(r, i - 1)
        BY <4>1, OneMoreByte DEF ByteFacts
      <4>3. QED
        BY <4>2, <1>7 DEF ByteFacts
    <3>5. Ended(r, i) <=> b = NUL /\ r[i - 1] # Dash
      BY <1>2, <3>3, <3>4 DEF ByteFacts
    <3>6. WellWritten(r, i) <=> MayStand(r, i)
      BY <1>2, <1>7 DEF ByteFacts
    <3>7. /\ s = IF b = Digit THEN "Digit" ELSE IF b = Upper THEN "Upper"
                 ELSE IF r[i - 1] = Digit THEN "DigitDash" ELSE "UpperDash"
      BY <3>1 DEF StateAt
    <3>8. After(r, i) = IF WellWritten(r, i) THEN {s} ELSE IF Ended(r, i) THEN {"Zero"} ELSE {}
      BY DEF After
    <3> HIDE DEF s, b
    <3>9. CASE r[i - 1] = Digit
      <4>1. StateAt(r, i - 1) = "Digit"
        BY <3>1, <3>9 DEF StateAt
      <4>2. StatesOf(r, i) = Follows("Digit", b)
        BY <1>6, <2>1, <4>1 DEF States, b
      <4>3. Follows("Digit", b) = IF b = NUL THEN {"Zero"} ELSE IF b = Digit THEN {"Digit"}
                          ELSE IF b = Dash THEN {"DigitDash"} ELSE {}
        BY DEF Follows
      <4>4. WellWritten(r, i) <=> b = Digit \/ b = Dash
        BY <1>5, <3>1, <3>6, <3>9 DEF MayStand, b
      <4>5. QED
        BY <1>4, <1>5, <3>5, <3>7, <3>8, <3>9, <4>2, <4>3, <4>4 DEF b
    <3>10. CASE r[i - 1] = Upper
      <4>1. StateAt(r, i - 1) = "Upper"
        BY <1>5, <3>1, <3>10 DEF StateAt
      <4>2. StatesOf(r, i) = Follows("Upper", b)
        BY <1>6, <2>1, <4>1 DEF States, b
      <4>3. Follows("Upper", b) = IF b = NUL THEN {"Zero"} ELSE IF b = Upper THEN {"Upper"}
                          ELSE IF b = Dash THEN {"UpperDash"} ELSE {}
        BY DEF Follows
      <4>4. WellWritten(r, i) <=> b = Upper \/ b = Dash
        BY <1>5, <3>1, <3>6, <3>10 DEF MayStand, b
      <4>5. QED
        BY <1>4, <1>5, <3>5, <3>7, <3>8, <3>10, <4>2, <4>3, <4>4 DEF b
    <3>11. CASE r[i - 1] = Dash
      <4>1. i > 2
        <5>1. i - 1 # 1
          BY <3>2, <3>11 DEF MayStand
        <5>2. QED
          BY <1>1, <3>1, <5>1
      <4>2. i - 2 \in 1 .. i - 1 /\ i - 1 > 1
        BY <4>1, <3>1
      <4>3. MayStand(r, i - 2)
        BY <1>7, <4>2 DEF WellWritten
      <4>4. r[i - 2] = Digit \/ r[i - 2] = Upper
        BY <3>1, <3>2, <3>11, <4>2, <4>3 DEF MayStand
      <4>5. StateAt(r, i - 1) = IF r[i - 2] = Digit THEN "DigitDash" ELSE "UpperDash"
        BY <1>5, <3>1, <3>11 DEF StateAt
      <4>6. CASE r[i - 2] = Digit
        <5>1. StatesOf(r, i) = Follows("DigitDash", b)
          BY <1>6, <2>1, <4>5, <4>6 DEF States, b
        <5>2. Follows("DigitDash", b) = IF b = Upper THEN {"Upper"} ELSE {}
          BY DEF Follows
        <5>3. WellWritten(r, i) <=> b = Upper
          BY <1>5, <3>1, <3>6, <3>11, <4>1, <4>6 DEF MayStand, b
        <5>4. QED
          BY <1>5, <3>5, <3>7, <3>8, <3>11, <5>1, <5>2, <5>3
      <4>7. CASE r[i - 2] = Upper
        <5>1. StatesOf(r, i) = Follows("UpperDash", b)
          BY <1>5, <1>6, <2>1, <4>5, <4>7 DEF States, b
        <5>2. Follows("UpperDash", b) = IF b = Digit THEN {"Digit"} ELSE {}
          BY DEF Follows
        <5>3. WellWritten(r, i) <=> b = Digit
          BY <1>5, <3>1, <3>6, <3>11, <4>1, <4>7 DEF MayStand, b
        <5>4. QED
          BY <1>5, <3>5, <3>7, <3>8, <3>11, <5>1, <5>2, <5>3
      <4>8. QED
        BY <4>4, <4>6, <4>7
    <3>12. QED
      BY <3>2, <3>9, <3>10, <3>11 DEF MayStand
  <2>4. QED
    BY <2>2, <2>3
<1>8. CASE ~WellWritten(r, i - 1) /\ Ended(r, i - 1)
  <2>1. StatesOf(r, i) = Follows("Zero", b)
    <3>1. After(r, i - 1) = {"Zero"}
      BY <1>8 DEF After
    <3>2. QED
      BY <1>6, <3>1 DEF States
  <2>2. Follows("Zero", b) = IF b = NUL THEN {"Zero"} ELSE {}
    BY DEF Follows
  <2>3. ~WellWritten(r, i) /\ (Ended(r, i) <=> b = NUL)
    BY <1>2, <1>8 DEF ByteFacts
  <2>4. QED
    BY <2>1, <2>2, <2>3 DEF After
<1>9. CASE ~WellWritten(r, i - 1) /\ ~Ended(r, i - 1)
  <2>1. StatesOf(r, i) = {}
    <3>1. After(r, i - 1) = {}
      BY <1>9 DEF After
    <3>2. QED
      BY <3>1 DEF StatesOf
  <2>2. ~WellWritten(r, i) /\ ~Ended(r, i)
    BY <1>2, <1>9 DEF ByteFacts, MayEnd
  <2>3. QED
    BY <2>1, <2>2 DEF After
<1>10. QED
  BY <1>7, <1>8, <1>9

\* The machine accepts what ends well or has ended.
LEMMA Accepts ==
  ASSUME NEW r \in AllReferences
  PROVE  ReferenceIsValid(r) <=> MayEnd(r, ReferenceLen) \/ Ended(r, ReferenceLen)
<1> DEFINE R == ReferenceLen
           states == CHOOSE f : f = [i \in 0 .. R |-> IF i = 0 THEN {"Start"}
                       ELSE UNION {ReferenceAfter(q, r[i]) : q \in f[i - 1]}]
           g == [i \in 0 .. R |-> After(r, i)]
<1>1. R \in Nat /\ R > 0 /\ \A i \in 1 .. R : i \in 0 .. R /\ i - 1 \in 0 .. R /\ i # 0
  BY WireAssumption
<1>2. After(r, 0) = {"Start"}
  BY DEF After, WellWritten, StateAt
<1>3. \A i \in 1 .. R : After(r, i) = UNION {ReferenceAfter(q, r[i]) : q \in After(r, i - 1)}
  BY StepOfMachine DEF StatesOf
<1> HIDE DEF R
<1>4. g = [i \in 0 .. R |-> IF i = 0 THEN {"Start"}
                       ELSE UNION {ReferenceAfter(q, r[i]) : q \in g[i - 1]}]
  <2>1. \A i \in 1 .. R : g[i] = UNION {ReferenceAfter(q, r[i]) : q \in g[i - 1]}
    BY <1>1, <1>3
  <2>2. g[0] = {"Start"} /\ \A i \in 0 .. R : i # 0 => i \in 1 .. R
    BY <1>1, <1>2
  <2>3. g = [i \in 0 .. R |-> g[i]]
    OBVIOUS
  <2> HIDE DEF g
  <2>4. \A i \in 0 .. R : g[i] = IF i = 0 THEN {"Start"}
                       ELSE UNION {ReferenceAfter(q, r[i]) : q \in g[i - 1]}
    BY <2>1, <2>2
  <2>5. QED
    BY <2>3, <2>4
<1> HIDE DEF g
<1>5. states = [i \in 0 .. R |-> IF i = 0 THEN {"Start"}
                       ELSE UNION {ReferenceAfter(q, r[i]) : q \in states[i - 1]}]
  BY <1>4
<1> HIDE DEF states
<1>6. \A i \in 0 .. R : states[i] = After(r, i)
  <2> DEFINE T == {i \in 0 .. R : states[i] = After(r, i)}
  <2>1. 0 \in T
    BY <1>1, <1>2, <1>5
  <2>2. ASSUME NEW i \in 1 .. R, i - 1 \in T
        PROVE  i \in T
    <3>1. states[i] = UNION {ReferenceAfter(q, r[i]) : q \in states[i - 1]}
      BY <1>1, <1>5
    <3>2. QED
      BY <1>1, <1>3, <2>2, <3>1
  <2> HIDE DEF T
  <2>3. \A i \in 0 .. R : i \in T
    BY <1>1, <2>1, <2>2, UpTo
  <2>4. QED
    BY <2>3 DEF T
<1>7. ReferenceIsValid(r) <=> states[R] \cap ReferenceEnds # {}
  BY DEF ReferenceIsValid, states, R
<1>8. states[R] = After(r, R)
  BY <1>1, <1>6
<1>9. CASE WellWritten(r, R)
  <2>1. R \in 1 .. R /\ MayStand(r, R)
    BY <1>1, <1>9 DEF WellWritten
  <2>2. After(r, R) = {StateAt(r, R)}
    BY <1>9 DEF After
  <2>3. r[R] # Dash <=> StateAt(r, R) \in ReferenceEnds
    <3>1. r[R] = Dash => StateAt(r, R) \in {"DigitDash", "UpperDash"}
      BY <1>1 DEF StateAt, Dash, Digit, Upper
    <3>2. r[R] # Dash => StateAt(r, R) \in {"Digit", "Upper"}
      BY <1>1, <2>1 DEF StateAt, MayStand, Dash, Digit, Upper
    <3>3. QED
      BY <3>1, <3>2 DEF ReferenceEnds
  <2>4. ~Ended(r, R)
    <3>1. R \in Nat \ {0}
      BY <1>1
    <3>2. QED
      BY <1>9, <3>1, OneMoreByte
  <2>5. MayEnd(r, R) <=> r[R] # Dash
    BY <1>1, <1>9 DEF MayEnd
  <2>6. QED
    BY <1>7, <1>8, <2>2, <2>3, <2>4, <2>5 DEF R
<1>10. CASE ~WellWritten(r, R)
  BY <1>7, <1>8, <1>10 DEF After, MayEnd, ReferenceEnds, R
<1>11. QED
  BY <1>9, <1>10

\* The conjuncts of IsGrammatical for a text of n bytes.
IsTextOf(r, n) ==
  /\ \A i \in 1 .. ReferenceLen : r[i] = NUL <=> i > n
  /\ \A i \in 1 .. n : r[i] # Other
  /\ n > 0 => r[1] # Dash /\ r[n] # Dash
  /\ \A i \in 2 .. n : {r[i - 1], r[i]} \notin {{Dash}, {Digit, Upper}}
  /\ \A i \in 2 .. n - 1 : r[i] = Dash => r[i - 1] # r[i + 1]

\* A reference is grammatical if and only if it is a text of some length.
LEMMA GrammaticalIs ==
  ASSUME NEW r
  PROVE  IsGrammatical(r) <=> \E n \in 0 .. ReferenceLen : IsTextOf(r, n)
BY DEF IsGrammatical, IsTextOf

\* Two bytes that may stand next to each other.
LEMMA Pairs ==
  ASSUME NEW a \in NUL .. Other, NEW b \in NUL .. Other
  PROVE  {a, b} \notin {{Dash}, {Digit, Upper}}
         <=> /\ ~(a = Dash /\ b = Dash)
             /\ ~(a = Digit /\ b = Upper)
             /\ ~(a = Upper /\ b = Digit)
<1>1. {a, b} = {Dash} <=> a = Dash /\ b = Dash
  <2>1. ASSUME {a, b} = {Dash} PROVE a = Dash /\ b = Dash
    BY <2>1
  <2>2. ASSUME a = Dash, b = Dash PROVE {a, b} = {Dash}
    BY <2>2
  <2>3. QED
    BY <2>1, <2>2
<1>2. {a, b} = {Digit, Upper} <=> (a = Digit /\ b = Upper) \/ (a = Upper /\ b = Digit)
  <2>1. ASSUME {a, b} = {Digit, Upper} PROVE (a = Digit /\ b = Upper) \/ (a = Upper /\ b = Digit)
    <3>1. a \in {Digit, Upper} /\ b \in {Digit, Upper} /\ Digit \in {a, b} /\ Upper \in {a, b}
      BY <2>1
    <3>2. QED
      BY <3>1 DEF Digit, Upper
  <2>2. ASSUME (a = Digit /\ b = Upper) \/ (a = Upper /\ b = Digit) PROVE {a, b} = {Digit, Upper}
    BY <2>2
  <2>3. QED
    BY <2>1, <2>2
<1>3. QED
  BY <1>1, <1>2

\* The machine's grammar and the text's, for a text of n bytes.
LEMMA TextIs ==
  ASSUME NEW r \in AllReferences, NEW n \in 0 .. ReferenceLen
  PROVE  IsTextOf(r, n) <=> MayEnd(r, n) /\ \A k \in n + 1 .. ReferenceLen : r[k] = NUL
<1> DEFINE R == ReferenceLen
<1>1. R \in Nat /\ R > 0 /\ n \in Nat /\ n <= R
  BY WireAssumption
<1>2. \A i \in 1 .. R : r[i] \in NUL .. Other
  BY DEF AllReferences
<1>3. \A i \in 1 .. n : i \in 1 .. R /\ ~(i > n)
  BY <1>1
<1>4. \A i \in n + 1 .. R : i \in 1 .. R /\ i > n
  BY <1>1
<1>5. /\ NUL # Dash /\ NUL # Digit /\ NUL # Upper /\ NUL # Other /\ Dash # Digit /\ Dash # Upper
      /\ Dash # Other /\ Digit # Upper /\ Digit # Other /\ Upper # Other
  BY DEF NUL, Dash, Digit, Upper, Other
<1>6. \A c \in NUL .. Other : c \in {Dash, Digit, Upper} <=> c # NUL /\ c # Other
  BY DEF NUL, Dash, Digit, Upper, Other
<1>7. \A i \in 2 .. n : i - 1 \in 1 .. n /\ i \in 1 .. n /\ i > 1 /\ i # 1
  BY <1>1
<1>8. \A i \in 2 .. n : {r[i - 1], r[i]} \notin {{Dash}, {Digit, Upper}}
        <=> /\ ~(r[i - 1] = Dash /\ r[i] = Dash)
            /\ ~(r[i - 1] = Digit /\ r[i] = Upper)
            /\ ~(r[i - 1] = Upper /\ r[i] = Digit)
  <2> TAKE i \in 2 .. n
  <2>1. r[i - 1] \in NUL .. Other /\ r[i] \in NUL .. Other
    BY <1>2, <1>3, <1>7
  <2>2. QED
    BY <2>1, Pairs
<1> HIDE DEF R
<1>9. ASSUME IsTextOf(r, n)
      PROVE  MayEnd(r, n) /\ \A k \in n + 1 .. R : r[k] = NUL
  <2>1. \A k \in n + 1 .. R : r[k] = NUL
    BY <1>4, <1>9 DEF IsTextOf, R
  <2>2. \A i \in 1 .. n : r[i] \in {Dash, Digit, Upper}
    BY <1>2, <1>3, <1>6, <1>9 DEF IsTextOf, R
  <2>3. ASSUME NEW i \in 1 .. n
        PROVE  MayStand(r, i)
    <3>1. i = 1 => r[i] # Dash
      BY <1>1, <1>9 DEF IsTextOf
    <3>2. i > 1 => /\ ~(r[i - 1] = Dash /\ r[i] = Dash)
                   /\ ~(r[i - 1] = Digit /\ r[i] = Upper)
                   /\ ~(r[i - 1] = Upper /\ r[i] = Digit)
      <4>1. i > 1 => i \in 2 .. n
        BY <1>1
      <4>2. QED
        BY <1>8, <1>9, <4>1 DEF IsTextOf
    <3>3. i > 2 /\ r[i - 1] = Dash => r[i - 2] # r[i]
      <4>1. i > 2 => i - 1 \in 2 .. n - 1 /\ (i - 1) - 1 = i - 2 /\ (i - 1) + 1 = i
        BY <1>1
      <4>2. ASSUME i > 2, r[i - 1] = Dash
            PROVE  r[(i - 1) - 1] # r[(i - 1) + 1]
        BY <1>9, <4>1, <4>2 DEF IsTextOf
      <4>3. QED
        BY <4>1, <4>2
    <3>4. QED
      BY <2>2, <3>1, <3>2, <3>3 DEF MayStand
  <2>4. n > 0 => r[n] # Dash
    BY <1>9 DEF IsTextOf
  <2>5. QED
    BY <2>1, <2>3, <2>4 DEF MayEnd, WellWritten
<1>10. ASSUME MayEnd(r, n), \A k \in n + 1 .. R : r[k] = NUL
       PROVE  IsTextOf(r, n)
  <2>1. \A i \in 1 .. n : MayStand(r, i)
    BY <1>10 DEF MayEnd, WellWritten
  <2>2. \A i \in 1 .. n : r[i] \in {Dash, Digit, Upper}
    BY <2>1 DEF MayStand
  <2>3. \A i \in 1 .. n : r[i] # NUL /\ r[i] # Other
    BY <1>2, <1>3, <1>6, <2>2
  <2>4. \A i \in 1 .. R : r[i] = NUL <=> i > n
    <3> TAKE i \in 1 .. R
    <3>1. CASE i > n
      <4>1. i \in n + 1 .. R
        BY <1>1, <3>1
      <4>2. QED
        BY <1>10, <3>1, <4>1
    <3>2. CASE ~(i > n)
      <4>1. i \in 1 .. n
        BY <1>1, <3>2
      <4>2. QED
        BY <2>3, <3>2, <4>1
    <3>3. QED
      BY <3>1, <3>2
  <2>5. n > 0 => r[1] # Dash /\ r[n] # Dash
    <3>1. n > 0 => 1 \in 1 .. n
      BY <1>1
    <3>2. QED
      BY <1>10, <2>1, <3>1 DEF MayEnd, MayStand
  <2>6. \A i \in 2 .. n : {r[i - 1], r[i]} \notin {{Dash}, {Digit, Upper}}
    <3> TAKE i \in 2 .. n
    <3>1. MayStand(r, i) /\ i > 1
      BY <1>7, <2>1
    <3>2. QED
      BY <1>8, <3>1 DEF MayStand
  <2>7. \A i \in 2 .. n - 1 : r[i] = Dash => r[i - 1] # r[i + 1]
    <3> TAKE i \in 2 .. n - 1
    <3>1. i + 1 \in 1 .. n /\ i + 1 > 2 /\ (i + 1) - 1 = i /\ (i + 1) - 2 = i - 1
      BY <1>1
    <3>2. MayStand(r, i + 1)
      BY <2>1, <3>1
    <3>3. r[(i + 1) - 1] = Dash => r[(i + 1) - 2] # r[i + 1]
      BY <3>1, <3>2 DEF MayStand
    <3>4. QED
      BY <3>1, <3>3
  <2>8. QED
    BY <2>3, <2>4, <2>5, <2>6, <2>7 DEF IsTextOf, R
<1>11. QED
  BY <1>9, <1>10 DEF R

\* The node's machine takes the references the grammar says, and no other.
THEOREM ReferencesAreGrammatical ==
  ASSUME NEW r \in AllReferences
  PROVE  ReferenceIsValid(r) <=> IsGrammatical(r)
<1> DEFINE R == ReferenceLen
           Ends(n) == MayEnd(r, n) /\ \A k \in n + 1 .. R : r[k] = NUL
<1>1. R \in Nat
  BY WireAssumption
<1>2. IsGrammatical(r) <=> \E n \in 0 .. R : Ends(n)
  <2>1. \A n \in 0 .. R : IsTextOf(r, n) <=> Ends(n)
    BY TextIs
  <2> HIDE DEF Ends
  <2>2. QED
    BY <2>1, GrammaticalIs DEF R
<1>3. Ended(r, R) <=> \E n \in 0 .. R - 1 : Ends(n)
  BY DEF Ended
<1>4. MayEnd(r, R) <=> Ends(R)
  BY <1>1
<1>5. ReferenceIsValid(r) <=> MayEnd(r, R) \/ Ended(r, R)
  BY Accepts
<1>6. \A n : n \in 0 .. R <=> n \in 0 .. R - 1 \/ n = R
  BY <1>1
<1> HIDE DEF Ends, R
<1>7. QED
  BY <1>2, <1>3, <1>4, <1>5, <1>6

-----------------------------------------------------------------------------
(* What the planner refuses.                                                *)

\* A destination as it is typed, `all` being a number already.
RawDst == [tag : Tags, reference : AllReferences, amount : 0 .. Limit]

\* A list with its tallies.
ListIs(s) ==
  /\ Len(s) \in Nat /\ DOMAIN s = 1 .. Len(s)
  /\ \A i \in 1 .. Len(s) : s[i] \in RawDst
  /\ s \in Seq(Mdsts)
  /\ Tally(s) \in Nat
  /\ \A i \in 1 .. Len(s) : Tally(SubSeq(s, 1, i)) \in 0 .. Tally(s)

\* A list's tally, and that of what it begins with.
LEMMA ListOfDsts ==
  ASSUME NEW s \in Seq(RawDst)
  PROVE  ListIs(s)
<1> DEFINE n == Len(s)
           f == [i \in DOMAIN s |-> s[i].amount]
<1>1. n \in Nat /\ DOMAIN s = 1 .. n /\ \A i \in 1 .. n : s[i] \in RawDst
  BY LenProperties
<1>2. \A i \in 1 .. n : f[i] \in 0 .. Limit
  BY <1>1 DEF RawDst
<1>3. Tally(s) = Total(f, n)
  BY DEF Tally
<1>4. RawDst \subseteq Mdsts
  <2>1. Tags \subseteq Int /\ AllReferences \subseteq [1 .. ReferenceLen -> Int] /\ 0 .. Limit \subseteq Nat
    BY NumbersAssumption, ArtifactAssumption DEF AllReferences, NUL, Other
  <2>2. QED
    BY <2>1 DEF RawDst, Mdsts
<1>5. s \in Seq(Mdsts)
  BY <1>4, SeqMonotonic
<1>6. \A i \in 1 .. n : Tally(SubSeq(s, 1, i)) = Total(f, i)
  <2> TAKE i \in 1 .. n
  <2> DEFINE u == SubSeq(s, 1, i)
             g == [k \in DOMAIN u |-> u[k].amount]
  <2>1. Len(u) = i /\ DOMAIN u = 1 .. i /\ \A k \in 1 .. i : u[k] = s[k]
    BY <1>1
  <2>2. \A k \in 1 .. i : k \in 1 .. n /\ g[k] = f[k]
    BY <1>1, <2>1
  <2>3. Tally(u) = Total(g, i)
    BY <2>1 DEF Tally
  <2>4. i \in Nat /\ Limit \in Nat
    BY <1>1, NumbersAssumption
  <2> HIDE DEF u, g, f, n
  <2>5. Summand(f, i)
    BY <1>2, <2>2, <2>4 DEF Summand
  <2>6. Total(g, i) = Total(f, i)
    BY <2>2, <2>5, TotalOfSame
  <2>7. QED
    BY <2>3, <2>6 DEF u
<1> HIDE DEF n, f
<1>7. Total(f, n) \in 0 .. n * Limit /\ \A i \in 0 .. n : Total(f, i) \in 0 .. Total(f, n)
  BY <1>1, <1>2, NumbersAssumption, TotalBounds
<1>8. Total(f, n) \in Nat
  <2>1. n * Limit \in Int
    BY <1>1, NumbersAssumption
  <2>2. QED
    BY <1>7, <2>1
<1>9. \A i \in 1 .. n : i \in 0 .. n
  BY <1>1
<1>10. QED
  BY <1>1, <1>3, <1>5, <1>6, <1>7, <1>8, <1>9 DEF ListIs, n

\* The tally is of the destinations in any order.
LEMMA TallyArranged ==
  ASSUME NEW s \in Seq(RawDst), NEW t \in Arrangements(s)
  PROVE  /\ Tally(t) = Tally(s) /\ t \in Seq(RawDst) /\ Len(t) = Len(s)
         /\ \A i \in 1 .. Len(s) : \E j \in 1 .. Len(s) : t[i] = s[j]
         /\ \A j \in 1 .. Len(s) : \E i \in 1 .. Len(s) : s[j] = t[i]
<1> DEFINE n == Len(s)
           f == [i \in DOMAIN s |-> s[i].amount]
           g == [i \in DOMAIN t |-> t[i].amount]
<1>1. n \in Nat /\ DOMAIN s = 1 .. n /\ \A i \in 1 .. n : s[i] \in RawDst
  BY LenProperties
<1>2. t \in Seq(RawDst) /\ Len(t) = n /\ DOMAIN t = 1 .. n
  <2>1. t \in Seq(RawDst) /\ Len(t) = n
    BY ArrangementIsSeq
  <2>2. QED
    BY <2>1, LenProperties
<1>3. PICK p : ArrangedBy(t, s, n, p)
  BY ArrangementIs
<1>4. Arranges(p, n) /\ \A i \in 1 .. n : p[i] \in 1 .. n /\ t[i] = s[p[i]]
  BY <1>3 DEF ArrangedBy, Arranges
<1>5. \A j \in 1 .. n : \E i \in 1 .. n : p[i] = j
  BY <1>4 DEF Arranges
<1>6. Tally(t) = Total(g, n) /\ Tally(s) = Total(f, n)
  BY <1>2 DEF Tally
<1>7. g = [i \in 1 .. n |-> f[p[i]]]
  BY <1>1, <1>2, <1>4
<1>8. \A i \in 1 .. n : f[i] \in Int
  <2>1. \A i \in 1 .. n : f[i] \in 0 .. Limit
    BY <1>1 DEF RawDst
  <2>2. QED
    BY <2>1, NumbersAssumption
<1> HIDE DEF n, f, g
<1>9. Summand(f, n)
  BY <1>1, <1>8 DEF Summand
<1>10. Total(g, n) = Total(f, n)
  BY <1>4, <1>7, <1>9, TotalArranged
<1>11. \A i \in 1 .. n : \E j \in 1 .. n : t[i] = s[j]
  BY <1>4
<1>12. \A j \in 1 .. n : \E i \in 1 .. n : s[j] = t[i]
  <2> TAKE j \in 1 .. n
  <2>1. PICK i \in 1 .. n : p[i] = j
    BY <1>5
  <2>2. t[i] = s[j]
    BY <1>4, <2>1
  <2>3. QED
    BY <2>2
<1>13. QED
  BY <1>2, <1>6, <1>10, <1>11, <1>12 DEF n

\* No fault of destination i.
FaultFree(s, i) ==
  /\ s[i].amount # 0 /\ s[i].tag # Source.tag
  /\ ~(Tally(SubSeq(s, 1, i)) > Limit)
  /\ ReferenceIsValid(s[i].reference)

\* A destination's faults, one by one.
LEMMA NoFault ==
  ASSUME NEW s, NEW i
  PROVE  Fault(s, i) = "none" <=> FaultFree(s, i)
BY DEF Fault, FaultFree

\* There is no first fault if and only if there is none.
LEMMA FirstFaultIs ==
  ASSUME NEW s, NEW n \in Nat, DOMAIN s = 1 .. n
  PROVE  FirstFault(s) = "none" <=> \A i \in 1 .. n : FaultFree(s, i)
<1> DEFINE faulty == {i \in DOMAIN s : Fault(s, i) # "none"}
           c == CHOOSE i \in faulty : \A j \in faulty : i <= j
<1>1. FirstFault(s) = IF faulty = {} THEN "none" ELSE Fault(s, c)
  BY DEF FirstFault
<1>2. faulty = {} <=> \A i \in 1 .. n : FaultFree(s, i)
  BY NoFault
<1>3. ASSUME faulty # {}
      PROVE  Fault(s, c) # "none"
  <2>1. faulty \subseteq Nat
    OBVIOUS
  <2> HIDE DEF faulty
  <2>2. c \in faulty
    BY <1>3, <2>1, LeastNatural
  <2>3. QED
    BY <2>2 DEF faulty
<1>4. QED
  BY <1>1, <1>2, <1>3

\* The planner refuses exactly the lists that the node's rules do.
THEOREM RefusalIs ==
  ASSUME NEW s \in Seq(RawDst), NEW entry \in Entries, NEW fee \in Fees
  PROVE  Refusal(entry, WireOrder(s), fee) = "none" <=> IsPayable(s, fee, entry)
<1> DEFINE t == WireOrder(s)
           n == Len(s)
           b == entry.balance
<1>1. ListIs(s)
  BY ListOfDsts
<1>2. t \in Arrangements(s)
  BY <1>1, WireOrderIs DEF ListIs
<1> HIDE DEF t
<1>3. /\ Tally(t) = Tally(s) /\ t \in Seq(RawDst) /\ Len(t) = n
      /\ \A i \in 1 .. n : \E j \in 1 .. n : t[i] = s[j]
      /\ \A j \in 1 .. n : \E i \in 1 .. n : s[j] = t[i]
  BY <1>2, TallyArranged
<1>4. ListIs(t)
  BY <1>3, ListOfDsts
<1>5. b \in Nat /\ b <= Limit /\ fee \in Nat /\ Limit \in Nat
  <2>1. b \in Balances
    BY DEF Entries
  <2>2. QED
    BY <2>1, NumbersAssumption
<1>6. Refusal(entry, t, fee) = "none" <=> NotRefused(entry, t, fee)
  BY NoRefusal
<1>7. FirstFault(t) = "none" <=> \A i \in 1 .. n : FaultFree(t, i)
  BY <1>3, <1>4, FirstFaultIs DEF ListIs
<1> DEFINE Legal(d) == d.amount > 0 /\ d.tag # Self /\ IsGrammatical(d.reference)
<1>8. \A i \in 1 .. n : FaultFree(t, i)
        <=> Legal(t[i]) /\ ~(Tally(SubSeq(t, 1, i)) > Limit)
  <2> TAKE i \in 1 .. n
  <2>1. t[i] \in RawDst
    BY <1>3, <1>4 DEF ListIs
  <2>2. t[i].reference \in AllReferences /\ t[i].amount \in Nat
    BY <1>5, <2>1 DEF RawDst
  <2>3. ReferenceIsValid(t[i].reference) <=> IsGrammatical(t[i].reference)
    BY <2>2, ReferencesAreGrammatical
  <2>4. t[i].amount # 0 <=> t[i].amount > 0
    BY <2>2
  <2>5. QED
    BY <2>3, <2>4 DEF FaultFree, Source
<1>9. (\A i \in 1 .. n : Legal(t[i])) <=> \A i \in 1 .. n : Legal(s[i])
  <2> HIDE DEF Legal
  <2>1. QED
    BY <1>3
<1>10. DOMAIN s = 1 .. n
  BY <1>1 DEF ListIs
<1>11. IsPayable(s, fee, entry) <=>
        /\ entry.address = Source /\ n \in 1 .. MaxDestinations
        /\ \A i \in 1 .. n : Legal(s[i])
        /\ fee >= MFEE * n /\ Tally(s) + fee <= b
  BY <1>10 DEF IsPayable
<1>12. NotRefused(entry, t, fee) <=>
        /\ entry.address = Source /\ n \in 1 .. MaxDestinations
        /\ FirstFault(t) = "none"
        /\ ~(fee < MFEE * n) /\ ~(Tally(t) + fee > Limit) /\ ~(Tally(t) + fee > b)
  BY <1>3 DEF NotRefused
<1> DEFINE m == MFEE * n
<1>13. m \in Int
  <2>1. n \in Int /\ MFEE \in Int
    BY <1>1, ArtifactAssumption DEF ListIs
  <2> HIDE DEF n
  <2>2. QED
    BY <2>1
<1>14. Tally(s) \in Nat /\ \A i \in 1 .. n : Tally(SubSeq(t, 1, i)) \in 0 .. Tally(s)
  BY <1>1, <1>3, <1>4 DEF ListIs
<1>15. fee >= m <=> ~(fee < m)
  <2> HIDE DEF m
  <2>1. QED
    BY <1>5, <1>13
<1> HIDE DEF Legal, n, b, m
<1>16. Tally(s) + fee <= b => /\ ~(Tally(t) + fee > Limit) /\ ~(Tally(t) + fee > b)
                             /\ \A i \in 1 .. n : ~(Tally(SubSeq(t, 1, i)) > Limit)
  BY <1>3, <1>5, <1>14
<1>17. ~(Tally(t) + fee > b) => Tally(s) + fee <= b
  BY <1>3, <1>5, <1>14
<1>18. QED
  BY <1>6, <1>7, <1>8, <1>9, <1>11, <1>12, <1>15, <1>16, <1>17 DEF t, m

\* The destination of all there is, its amount once it is known.
AllDst == [tag : Tags, reference : AllReferences, amount : {None}]
Valued(d, a) == [tag |-> d.tag, reference |-> d.reference, amount |-> a]
AllIs(s, d) == d \in AllDst /\ s.dsts = <<d>>

\* What is typed: destinations with amounts, or one of all there is.
Typed(s) ==
  /\ s.fee \in Fees /\ s.btl \in BlocksToLive
  /\ s.dsts \in Seq(RawDst) \/ \E d : AllIs(s, d)

\* `all` is not an amount.
LEMMA NoneIsNoAmount == \A n \in Nat : n # None
BY ArtifactAssumption

\* A list of amounts is taken as it is.
LEMMA ListTyped ==
  ASSUME NEW s, s.dsts \in Seq(RawDst)
  PROVE  /\ ~SpendsEverything(s)
         /\ \A entry : Resolved(s, entry) = s.dsts /\ ~NothingToSend(s, entry)
                        /\ Meanings(s, entry) = {s.dsts}
<1>1. ~SpendsEverything(s)
  <2>1. ASSUME SpendsEverything(s)
        PROVE  FALSE
    <3>1. Len(s.dsts) = 1 /\ s.dsts[1].amount = None
      BY <2>1 DEF SpendsEverything
    <3>2. s.dsts[1] \in RawDst
      <4>1. ListIs(s.dsts)
        BY ListOfDsts
      <4>2. QED
        BY <3>1, <4>1 DEF ListIs
    <3>3. s.dsts[1].amount \in Nat
      BY <3>2, NumbersAssumption DEF RawDst
    <3>4. QED
      BY <3>1, <3>3, NoneIsNoAmount
  <2>2. QED
    BY <2>1
<1>2. QED
  BY <1>1 DEF Resolved, NothingToSend, Meanings

\* `all` is the amount that leaves nothing, if there is one.
LEMMA AllTyped ==
  ASSUME NEW s, s.fee \in Nat, NEW d, AllIs(s, d), NEW entry, entry.balance \in 0 .. Limit
  PROVE  /\ SpendsEverything(s)
         /\ s.dsts[1] = d /\ Len(s.dsts) = 1 /\ DOMAIN s.dsts = {1}
         /\ NothingToSend(s, entry) <=> ~(entry.balance > s.fee)
         /\ NothingToSend(s, entry) => Resolved(s, entry) = <<d>>
         /\ ~NothingToSend(s, entry) => /\ Resolved(s, entry) = <<Valued(d, entry.balance - s.fee)>>
                                        /\ entry.balance - s.fee \in 1 .. Limit
         /\ \A D : D \in Meanings(s, entry) <=> ~NothingToSend(s, entry) /\ D = Resolved(s, entry)
<1> DEFINE b == entry.balance
           a == b - s.fee
<1>1. s.dsts = <<d>> /\ d \in AllDst
  BY DEF AllIs
<1>2. s.dsts[1] = d /\ Len(s.dsts) = 1 /\ DOMAIN s.dsts = {1}
  BY <1>1
<1>3. d.amount = None /\ d = Valued(d, None)
  BY <1>1 DEF AllDst, Valued
<1>4. SpendsEverything(s)
  BY <1>2, <1>3 DEF SpendsEverything
<1>5. \A x : [d EXCEPT !.amount = x] = Valued(d, x)
  BY <1>1 DEF AllDst, Valued
<1>6. b \in Nat /\ b <= Limit /\ a \in Int /\ (b > s.fee => a \in 1 .. Limit) /\ Limit \in Nat
  BY NumbersAssumption
<1>7. SpendAllAmount(b, s.fee) = IF b > s.fee THEN a ELSE None
  BY DEF SpendAllAmount
<1>8. b > s.fee => SpendAllAmount(b, s.fee) # None
  BY <1>6, <1>7, NoneIsNoAmount
<1>9. NothingToSend(s, entry) <=> ~(b > s.fee)
  BY <1>4, <1>7, <1>8 DEF NothingToSend
<1>10. Resolved(s, entry) = <<Valued(d, SpendAllAmount(b, s.fee))>>
  BY <1>2, <1>4, <1>5 DEF Resolved
<1>11. Meanings(s, entry) = {<<Valued(d, x)>> : x \in {n \in 1 .. Limit : n + s.fee = b}}
  <2>1. Meanings(s, entry) = {<<[d EXCEPT !.amount = x]>> : x \in {n \in 1 .. Limit : n + s.fee = b}}
    BY <1>2, <1>4 DEF Meanings
  <2>2. QED
    BY <1>5, <2>1
<1>12. \A n \in 1 .. Limit : n + s.fee = b <=> n = a
  BY <1>6
<1>13. \A n \in 1 .. Limit : n = a => b > s.fee
  BY <1>6
<1> HIDE DEF a
<1>14. \A D : D \in Meanings(s, entry) <=> b > s.fee /\ D = <<Valued(d, a)>>
  BY <1>6, <1>11, <1>12, <1>13
<1>15. \A D : D \in Meanings(s, entry) <=> ~NothingToSend(s, entry) /\ D = Resolved(s, entry)
  BY <1>7, <1>9, <1>10, <1>14
<1>16. NothingToSend(s, entry) => Resolved(s, entry) = <<d>>
  BY <1>3, <1>7, <1>9, <1>10
<1>17. ~NothingToSend(s, entry) => Resolved(s, entry) = <<Valued(d, a)>> /\ a \in 1 .. Limit
  BY <1>6, <1>7, <1>9, <1>10
<1>18. QED
  BY <1>2, <1>4, <1>9, <1>15, <1>16, <1>17 DEF a

\* What a typed spend is resolved to is the one thing it may mean.
ResolvedWell(s, entry) ==
  /\ ~NothingToSend(s, entry) =>
       /\ Resolved(s, entry) \in Seq(RawDst)
       /\ Len(Resolved(s, entry)) = Len(s.dsts) /\ DOMAIN s.dsts = 1 .. Len(s.dsts)
       /\ \A i \in 1 .. Len(s.dsts) : /\ Resolved(s, entry)[i].tag = s.dsts[i].tag
                                      /\ Resolved(s, entry)[i].reference = s.dsts[i].reference
                                      /\ s.dsts[i].reference \in AllReferences
  /\ \A D : D \in Meanings(s, entry) <=> ~NothingToSend(s, entry) /\ D = Resolved(s, entry)

\* A typed spend means what it is resolved to.
LEMMA ResolvedIs ==
  ASSUME NEW s, Typed(s), NEW entry \in Entries
  PROVE  ResolvedWell(s, entry)
<1>1. s.fee \in Nat /\ entry.balance \in 0 .. Limit
  <2>1. entry.balance \in Balances
    BY DEF Entries
  <2>2. QED
    BY <2>1, NumbersAssumption DEF Typed
<1>2. CASE s.dsts \in Seq(RawDst)
  <2>1. Resolved(s, entry) = s.dsts /\ ~NothingToSend(s, entry) /\ Meanings(s, entry) = {s.dsts}
    BY <1>2, ListTyped
  <2>2. ListIs(s.dsts)
    BY <1>2, ListOfDsts
  <2>3. \A i \in 1 .. Len(s.dsts) : s.dsts[i].reference \in AllReferences
    BY <2>2 DEF ListIs, RawDst
  <2>4. QED
    BY <1>2, <2>1, <2>2, <2>3 DEF ResolvedWell, ListIs
<1>3. CASE \E d : AllIs(s, d)
  <2>1. PICK d : AllIs(s, d)
    BY <1>3
  <2>2. /\ s.dsts[1] = d /\ Len(s.dsts) = 1 /\ DOMAIN s.dsts = {1}
        /\ ~NothingToSend(s, entry) => /\ Resolved(s, entry) = <<Valued(d, entry.balance - s.fee)>>
                                       /\ entry.balance - s.fee \in 1 .. Limit
        /\ \A D : D \in Meanings(s, entry) <=> ~NothingToSend(s, entry) /\ D = Resolved(s, entry)
    BY <1>1, <2>1, AllTyped
  <2>3. d.tag \in Tags /\ d.reference \in AllReferences
    BY <2>1 DEF AllIs, AllDst
  <2> DEFINE v == Valued(d, entry.balance - s.fee)
  <2>4. v.tag = d.tag /\ v.reference = d.reference
    BY DEF Valued
  <2>5. entry.balance - s.fee \in 1 .. Limit => v \in RawDst
    BY <2>3, NumbersAssumption DEF Valued, RawDst
  <2> HIDE DEF v
  <2>6. \A i \in 1 .. 1 : i = 1
    OBVIOUS
  <2>7. 1 .. 1 = {1}
    OBVIOUS
  <2>8. v \in RawDst => /\ <<v>> \in Seq(RawDst) /\ Len(<<v>>) = 1 /\ <<v>>[1] = v
    OBVIOUS
  <2>9. QED
    BY <2>2, <2>3, <2>4, <2>5, <2>6, <2>7, <2>8 DEF ResolvedWell, v
<1>4. QED
  BY <1>2, <1>3 DEF Typed

\* What SpendPlan::new takes is what the node's rules allow.
LEMMA VerdictIs ==
  ASSUME NEW s, Typed(s), NEW first \in Entries, NEW entry \in Entries
  PROVE  Verdict(s, first, entry) = "none"
         <=> ~NothingToSend(s, first) /\ IsPayable(Resolved(s, first), s.fee, entry)
<1>1. CASE NothingToSend(s, first)
  BY <1>1 DEF Verdict
<1>2. CASE ~NothingToSend(s, first)
  <2>1. Resolved(s, first) \in Seq(RawDst)
    BY <1>2, ResolvedIs DEF ResolvedWell
  <2>2. s.fee \in Fees
    BY DEF Typed
  <2>3. Verdict(s, first, entry) = Refusal(entry, WireOrder(Resolved(s, first)), s.fee)
    BY <1>2 DEF Verdict
  <2>4. QED
    BY <1>2, <2>1, <2>2, <2>3, RefusalIs
<1>3. QED
  BY <1>1, <1>2

\* What the planner leaves of a typed spend.
PlannedWell(s, first, entry) ==
  LET p == Planned(s, first, entry)
  IN  /\ IsPlan(p)
      /\ entry = At(entry.balance) /\ p.balance = entry.balance
      /\ p.fee = s.fee /\ p.btl = s.btl
      /\ p.dsts = WireOrder(Resolved(s, first))
      /\ p.send = Tally(p.dsts) /\ p.change = entry.balance - Tally(p.dsts) - s.fee

\* What the planner leaves is a plan.
LEMMA PlannedIsPlan ==
  ASSUME NEW s, Typed(s), NEW first \in Entries, NEW entry \in Entries,
         Verdict(s, first, entry) = "none"
  PROVE  PlannedWell(s, first, entry)
<1> DEFINE r == Resolved(s, first)
           t == WireOrder(r)
           p == Planned(s, first, entry)
<1>1. ~NothingToSend(s, first) /\ IsPayable(r, s.fee, entry)
  BY VerdictIs
<1>2. r \in Seq(RawDst)
  BY <1>1, ResolvedIs DEF ResolvedWell
<1>3. Refusal(entry, t, s.fee) = "none"
  BY <1>1 DEF Verdict
<1>4. p = SpendPlan(entry, t, s.fee, s.btl)
  BY DEF Planned
<1>5. entry.address = Source /\ entry = [address |-> entry.address, balance |-> entry.balance]
      /\ entry.balance \in Balances
  BY <1>1 DEF IsPayable, Entries
<1>6. entry = At(entry.balance)
  BY <1>5 DEF At
<1> HIDE DEF r
<1>7. t \in Arrangements(r) /\ WireOrder(t) = t
  BY <1>2, ListOfDsts, WireOrderIs DEF ListIs
<1> HIDE DEF t
<1>8. t \in Seq(RawDst) /\ Len(t) = Len(r)
  BY <1>2, <1>7, TallyArranged
<1>9. ListIs(t)
  BY <1>8, ListOfDsts
<1>10. t \in Seq(PlanDst)
  <2>1. FirstFault(t) = "none"
    BY <1>3, NoRefusal DEF NotRefused
  <2>2. \A i \in 1 .. Len(t) : FaultFree(t, i)
    BY <1>9, <2>1, FirstFaultIs DEF ListIs
  <2>3. \A i \in 1 .. Len(t) : t[i] \in PlanDst
    <3> TAKE i \in 1 .. Len(t)
    <3>1. t[i] \in RawDst /\ t[i].amount # 0
      BY <1>9, <2>2 DEF ListIs, FaultFree
    <3>2. QED
      BY <3>1, NumbersAssumption DEF RawDst, PlanDst
  <2>4. t \in [1 .. Len(t) -> RawDst]
    BY <1>8, LenProperties
  <2>5. t \in [1 .. Len(t) -> PlanDst]
    BY <2>3, <2>4
  <2>6. QED
    BY <1>9, <2>5, FunctionIsSeq DEF ListIs
<1>11. /\ p.dsts = t /\ p.fee = s.fee /\ p.btl = s.btl /\ p.balance = entry.balance
       /\ p.send = Tally(t) /\ p.change = entry.balance - Tally(t) - s.fee
  BY <1>4 DEF SpendPlan
<1> HIDE DEF p
<1>12. IsPlan(p)
  BY <1>3, <1>4, <1>5, <1>6, <1>7, <1>10, <1>11 DEF IsPlan, Typed
<1>13. QED
  BY <1>6, <1>11, <1>12 DEF PlannedWell, p, t, r

\* PlanAgreesWithNode, of a plan and of what was typed.
Pays(p, s, entry) ==
  /\ \E dsts \in Meanings(s, entry) : SameList(dsts, p.dsts) /\ IsPayable(dsts, s.fee, entry)
  /\ \A i \in 1 .. Len(p.dsts) - 1 : ~Precedes(p.dsts[i + 1], p.dsts[i])
  /\ p.send = Tally(p.dsts)
  /\ p.send + p.change + p.fee = entry.balance

\* PlanAgreesWithNode, of what was refused.
PaysNothing(s, entry, via) ==
  \A dsts \in Meanings(s, entry) :
    IsPayable(dsts, s.fee, entry) =>
      via = "cli" /\ (ZeroTagIsTyped(dsts) \/ ATagIsTypedTwice(dsts))

\* A plan the planner makes is of what was typed, and the node takes it.
LEMMA PlannedPays ==
  ASSUME NEW s, Typed(s), NEW entry \in Entries, Verdict(s, entry, entry) = "none"
  PROVE  Pays(Planned(s, entry, entry), s, entry)
<1> DEFINE p == Planned(s, entry, entry)
           r == Resolved(s, entry)
<1>1. ~NothingToSend(s, entry) /\ IsPayable(r, s.fee, entry)
  BY VerdictIs
<1>2. r \in Seq(RawDst) /\ r \in Meanings(s, entry)
  BY <1>1, ResolvedIs DEF ResolvedWell
<1>3. /\ IsPlan(p) /\ p.fee = s.fee /\ p.dsts = WireOrder(r)
      /\ p.send = Tally(p.dsts) /\ p.change = entry.balance - Tally(p.dsts) - s.fee
  BY PlannedIsPlan DEF PlannedWell
<1> HIDE DEF p, r
<1>4. p.dsts \in Arrangements(r) /\ Sorted(p.dsts)
  BY <1>2, <1>3, ListOfDsts, WireOrderIs DEF ListIs
<1>5. SameList(r, p.dsts)
  BY <1>2, <1>4, ArrangementIsSameList
<1>6. p.send + p.change + p.fee = entry.balance
  <2>1. p.fee \in Nat /\ p.send \in Nat
    BY <1>3, NumbersOfPlan DEF PlanNumbers
  <2>2. entry.balance \in Nat
    BY NumbersAssumption DEF Entries
  <2>3. QED
    BY <1>3, <2>1, <2>2
<1>7. QED
  BY <1>1, <1>2, <1>3, <1>4, <1>5, <1>6 DEF Pays, Sorted, p, r

\* Of what the planner takes the command line refuses two kinds by itself.
LEMMA TakenButForTwo ==
  ASSUME NEW s, Typed(s), NEW first \in Entries, NEW entry \in Entries,
         Verdict(s, first, entry) = "none"
  PROVE  SpendArgs(s) <=> ~ZeroTagIsTyped(s.dsts) /\ ~ATagIsTypedTwice(s.dsts)
<1> DEFINE n == Len(s.dsts)
           D == Resolved(s, first)
<1>1. ~NothingToSend(s, first) /\ IsPayable(D, s.fee, entry)
  BY VerdictIs
<1>2. /\ D \in Seq(RawDst) /\ Len(D) = n /\ DOMAIN s.dsts = 1 .. n
      /\ \A i \in 1 .. n : /\ D[i].reference = s.dsts[i].reference
                           /\ s.dsts[i].reference \in AllReferences
  BY <1>1, ResolvedIs DEF ResolvedWell
<1>3. DOMAIN D = 1 .. n
  BY <1>2, ListOfDsts DEF ListIs
<1> HIDE DEF n, D
<1>4. n \in 1 .. MaxDestinations /\ \A i \in 1 .. n : IsGrammatical(D[i].reference)
  BY <1>1, <1>2, <1>3 DEF IsPayable
<1>5. \A i \in 1 .. n : ReferenceIsValid(s.dsts[i].reference)
  BY <1>2, <1>4, ReferencesAreGrammatical
<1>6. QED
  BY <1>2, <1>4, <1>5 DEF SpendArgs, n

\* What is refused no reading of it pays, but for those two.
LEMMA RefusedPaysNothing ==
  ASSUME NEW s, Typed(s), NEW entry \in Entries, NEW via,
         \/ via = "cli" /\ ~SpendArgs(s)
         \/ Verdict(s, entry, entry) # "none"
  PROVE  PaysNothing(s, entry, via)
<1> SUFFICES ASSUME NEW D \in Meanings(s, entry), IsPayable(D, s.fee, entry)
             PROVE  via = "cli" /\ (ZeroTagIsTyped(D) \/ ATagIsTypedTwice(D))
  BY DEF PaysNothing
<1>1. ~NothingToSend(s, entry) /\ D = Resolved(s, entry)
  BY ResolvedIs DEF ResolvedWell
<1>2. Verdict(s, entry, entry) = "none"
  BY <1>1, VerdictIs
<1>3. via = "cli" /\ (ZeroTagIsTyped(s.dsts) \/ ATagIsTypedTwice(s.dsts))
  BY <1>2, TakenButForTwo
<1> DEFINE n == Len(s.dsts)
<1>4. /\ D \in Seq(RawDst) /\ Len(D) = n /\ DOMAIN s.dsts = 1 .. n
      /\ \A i \in 1 .. n : D[i].tag = s.dsts[i].tag
  BY <1>1, ResolvedIs DEF ResolvedWell
<1>5. DOMAIN D = 1 .. n
  BY <1>4, ListOfDsts DEF ListIs
<1> HIDE DEF n
<1>6. QED
  BY <1>3, <1>4, <1>5 DEF ZeroTagIsTyped, ATagIsTypedTwice

\* Everything that may be typed is of one of the two forms.
LEMMA SpendsAreTyped ==
  ASSUME NEW s \in Spends
  PROVE  Typed(s)
<1>1. s.dsts \in Lists /\ s.fee \in Fees /\ s.btl \in BlocksToLive
  BY DEF Spends
<1>2. /\ Destinations \subseteq RawDst
      /\ [tag : {2}, reference : AllReferences, amount : {1}] \subseteq RawDst
      /\ [tag : Tags, reference : References, amount : {None}] \subseteq AllDst
  <2>1. Amounts \subseteq 0 .. Limit
    BY NumbersAssumption
  <2>2. 1 \in 0 .. Limit
    <3>1. Base \in Nat /\ Base > 1
      BY WireAssumption
    <3>2. Base * Base > 1
      BY <3>1
    <3>3. QED
      BY <3>1, <3>2 DEF Limit
  <2>3. References \subseteq AllReferences
    BY ReferencesAssumption
  <2>4. 2 \in Tags
    BY ArtifactAssumption
  <2>5. QED
    BY <2>1, <2>2, <2>3, <2>4 DEF Destinations, RawDst, AllDst
<1>3. \/ \E d \in [tag : {2}, reference : AllReferences, amount : {1}] : s.dsts = <<d>>
      \/ \E d \in [tag : Tags, reference : References, amount : {None}] : s.dsts = <<d>>
      \/ s.dsts \in SeqOf(Destinations, MaxDestinations)
      \/ \E d \in Destinations : s.dsts = [i \in 1 .. MaxDestinations + 1 |-> d]
  BY <1>1, Zenon DEF Lists
<1>4. CASE \E d \in [tag : {2}, reference : AllReferences, amount : {1}] : s.dsts = <<d>>
  <2>1. PICK d \in RawDst : s.dsts = <<d>>
    BY <1>2, <1>4
  <2>2. <<d>> \in Seq(RawDst)
    OBVIOUS
  <2>3. QED
    BY <1>1, <2>1, <2>2 DEF Typed
<1>5. CASE \E d \in [tag : Tags, reference : References, amount : {None}] : s.dsts = <<d>>
  <2>1. PICK d \in AllDst : s.dsts = <<d>>
    BY <1>2, <1>5
  <2>2. QED
    BY <1>1, <2>1 DEF Typed, AllIs
<1>6. CASE s.dsts \in SeqOf(Destinations, MaxDestinations)
  <2>1. PICK m \in 0 .. MaxDestinations : s.dsts \in [1 .. m -> Destinations]
    BY <1>6 DEF SeqOf
  <2>2. m \in Nat /\ s.dsts \in [1 .. m -> RawDst]
    BY <1>2, <2>1
  <2>3. s.dsts \in Seq(RawDst)
    BY <2>2, FunctionIsSeq
  <2>4. QED
    BY <1>1, <2>3 DEF Typed
<1>7. CASE \E d \in Destinations : s.dsts = [i \in 1 .. MaxDestinations + 1 |-> d]
  <2>1. PICK d \in RawDst : s.dsts = [i \in 1 .. MaxDestinations + 1 |-> d]
    BY <1>2, <1>7
  <2>2. MaxDestinations + 1 \in Nat
    BY ArtifactAssumption
  <2>3. s.dsts \in [1 .. MaxDestinations + 1 -> RawDst]
    BY <2>1
  <2>4. s.dsts \in Seq(RawDst)
    BY <2>2, <2>3, FunctionIsSeq
  <2>5. QED
    BY <1>1, <2>4 DEF Typed
<1>8. QED
  BY <1>3, <1>4, <1>5, <1>6, <1>7

\* So is everything that may be typed again.
LEMMA RetypedAreTyped ==
  ASSUME NEW p, IsPlan(p), NEW s, s.dsts \in Retyped(p.dsts), s.fee \in Fees, s.btl \in BlocksToLive
  PROVE  Typed(s)
<1> DEFINE u == p.dsts
           n == Len(u)
<1>1. u \in Seq(RawDst) /\ n \in Nat /\ n > 0 /\ DOMAIN u = 1 .. n /\ \A i \in 1 .. n : u[i] \in PlanDst
  <2>1. u \in Seq(PlanDst)
    BY DEF IsPlan
  <2>2. PlanDst \subseteq RawDst
    BY NumbersAssumption DEF PlanDst, RawDst
  <2>3. u \in Seq(RawDst)
    BY <2>1, <2>2, SeqMonotonic
  <2>4. n \in 1 .. MaxDestinations
    BY NumbersOfPlan DEF PlanNumbers
  <2>5. QED
    BY <2>1, <2>3, <2>4, LenProperties
<1>2. Destinations \subseteq RawDst
  <2>1. Amounts \subseteq 0 .. Limit
    BY NumbersAssumption
  <2>2. References \subseteq AllReferences
    BY ReferencesAssumption
  <2>3. QED
    BY <2>1, <2>2 DEF Destinations, RawDst
<1> HIDE DEF u
<1>3. \/ s.dsts \in Arrangements(u)
      \/ \E i \in DOMAIN u, d \in RawDst : s.dsts = ReplaceAt(u, i, d)
      \/ s.dsts = Tail(u)
      \/ Len(u) = 1 /\ s.dsts = <<[u[1] EXCEPT !.amount = None]>>
  <2>1. s.dsts \in Retyped(u)
    BY DEF u
  <2> DEFINE F == {e \in Destinations : e.tag # Self}
             A == {<<[u[1] EXCEPT !.amount = None]>>}
  <2>2. Retyped(u) = Arrangements(u) \cup {ReplaceAt(u, i, d) : i \in DOMAIN u, d \in F}
                       \cup {Tail(u)} \cup (IF Len(u) = 1 THEN A ELSE {})
    BY DEF Retyped
  <2>3. s.dsts \in {ReplaceAt(u, i, d) : i \in DOMAIN u, d \in F}
        => \E i \in DOMAIN u, d \in RawDst : s.dsts = ReplaceAt(u, i, d)
    BY <1>2
  <2>4. s.dsts \in (IF Len(u) = 1 THEN A ELSE {})
        => Len(u) = 1 /\ s.dsts = <<[u[1] EXCEPT !.amount = None]>>
    OBVIOUS
  <2> HIDE DEF F, A
  <2>5. QED
    BY <2>1, <2>2, <2>3, <2>4
<1>4. CASE s.dsts \in Arrangements(u)
  BY <1>1, <1>4, ArrangementIsSeq DEF Typed
<1>5. CASE \E i \in DOMAIN u, d \in RawDst : s.dsts = ReplaceAt(u, i, d)
  <2>1. PICK i \in DOMAIN u, d \in RawDst : s.dsts = ReplaceAt(u, i, d)
    BY <1>5
  <2>2. u \in [1 .. n -> RawDst]
    BY <1>1, LenProperties
  <2>3. s.dsts \in [1 .. n -> RawDst]
    BY <2>1, <2>2 DEF ReplaceAt
  <2>4. s.dsts \in Seq(RawDst)
    BY <1>1, <2>3, FunctionIsSeq
  <2>5. QED
    BY <2>4 DEF Typed
<1>6. CASE s.dsts = Tail(u)
  <2>1. u # <<>>
    BY <1>1
  <2>2. Tail(u) \in Seq(RawDst)
    BY <1>1, <2>1
  <2>3. QED
    BY <1>6, <2>2 DEF Typed
<1>7. CASE Len(u) = 1 /\ s.dsts = <<[u[1] EXCEPT !.amount = None]>>
  <2> DEFINE d == [u[1] EXCEPT !.amount = None]
  <2>1. u[1] \in PlanDst
    BY <1>1, <1>7
  <2>2. d \in AllDst
    BY <2>1 DEF PlanDst, AllDst
  <2>3. s.dsts = <<d>>
    BY <1>7
  <2> HIDE DEF d
  <2>4. QED
    BY <2>2, <2>3 DEF Typed, AllIs
<1>8. QED
  BY <1>3, <1>4, <1>5, <1>6, <1>7

-----------------------------------------------------------------------------
(* A spend typed again.                                                     *)

\* Two plans of one digest are one plan.
THEOREM OneDigestOnePlan ==
  ASSUME NEW p, IsPlan(p), NEW q, IsPlan(q),
         MessageDigest(Unsigned(p)) = MessageDigest(Unsigned(q))
  PROVE  p = q
<1> DEFINE P == Unsigned(p)
           Q == Unsigned(q)
<1>1. SignedPrefix(P) = SignedPrefix(Q)
  <2>1. \A x, y : Sha256(x) = Sha256(y) => x = y
    BY DEF Sha256
  <2> HIDE DEF P, Q
  <2>2. Sha256(SignedPrefix(P)) = Sha256(SignedPrefix(Q))
    BY DEF MessageDigest, P, Q
  <2>3. QED
    BY <2>1, <2>2
<1>2. P = Image(p, NoWots, NoTrailer) /\ Q = Image(q, NoWots, NoTrailer)
  BY ImagesAre
<1>3. IsTx(P) /\ IsTx(Q)
  BY DigestOfPlan
<1>4. /\ P.send = p.send /\ P.change = p.change /\ P.fee = p.fee /\ P.btl = p.btl /\ P.dsts = p.dsts
      /\ P.wots = NoWots /\ P.trailer = NoTrailer
  BY <1>2 DEF Image
<1>5. /\ Q.send = q.send /\ Q.change = q.change /\ Q.fee = q.fee /\ Q.btl = q.btl /\ Q.dsts = q.dsts
      /\ Q.wots = NoWots /\ Q.trailer = NoTrailer
  BY <1>2 DEF Image
<1> HIDE DEF P, Q
<1>6. WotsVal(P) = WotsVal(Q)
  BY <1>4, <1>5 DEF WotsVal
<1>7. ToWire(P) = ToWire(Q)
  BY <1>1, <1>4, <1>5, <1>6 DEF ToWire
<1>8. Len(P.dsts) \in 1 .. MaxDestinations /\ Len(Q.dsts) \in 1 .. MaxDestinations
  BY <1>4, <1>5, NumbersOfPlan DEF PlanNumbers
<1>9. P = Q
  BY <1>3, <1>7, <1>8, WireRoundTrip
<1>10. p.balance = p.send + p.change + p.fee /\ q.balance = q.send + q.change + q.fee
  BY NumbersOfPlan DEF PlanNumbers
<1>11. p.dsts = q.dsts /\ p.fee = q.fee /\ p.btl = q.btl /\ p.balance = q.balance
  BY <1>4, <1>5, <1>9, <1>10
<1>12. p = SpendPlan(At(p.balance), p.dsts, p.fee, p.btl) /\ q = SpendPlan(At(q.balance), q.dsts, q.fee, q.btl)
  BY DEF IsPlan
<1>13. QED
  BY <1>11, <1>12

\* What the planner says of a spend is never that it is reproduced.
LEMMA VerdictsAre ==
  ASSUME NEW s, NEW first, NEW entry
  PROVE  Verdict(s, first, entry) # "Resigned"
<1>1. \A d, i : Fault(d, i) # "Resigned"
  BY DEF Fault
<1>2. \A d : FirstFault(d) # "Resigned"
  <2> TAKE d
  <2> DEFINE c == CHOOSE i \in {i \in DOMAIN d : Fault(d, i) # "none"} :
                    \A j \in {k \in DOMAIN d : Fault(d, k) # "none"} : i <= j
  <2>1. FirstFault(d) = "none" \/ \E i : FirstFault(d) = Fault(d, i)
    BY Zenon DEF FirstFault
  <2>2. QED
    BY <1>1, <2>1
<1>3. \A d, fee : Refusal(entry, d, fee) # "Resigned"
  BY <1>2 DEF Refusal
<1>4. QED
  BY <1>3 DEF Verdict

\* What is typed again is the spend that p reserved.
IsReserved(p, s, first, second) ==
  /\ second = [address |-> Source, balance |-> p.balance]
  /\ s.fee = p.fee /\ s.btl = p.btl
  /\ SameList(Resolved(s, first), p.dsts)

\* A typed spend is planned as the reserved one was if and only if it is that.
LEMMA PlannedAgain ==
  ASSUME NEW p, IsPlan(p), NEW s, Typed(s), NEW first \in Entries, NEW second \in Entries
  PROVE  (Verdict(s, first, second) = "none" /\ Planned(s, first, second) = p)
         <=> IsReserved(p, s, first, second)
<1> DEFINE r == Resolved(s, first)
           q == Planned(s, first, second)
<1>1. ASSUME Verdict(s, first, second) = "none", q = p
      PROVE  IsReserved(p, s, first, second)
  <2>1. ~NothingToSend(s, first)
    BY <1>1, VerdictIs
  <2>2. r \in Seq(RawDst)
    BY <2>1, ResolvedIs DEF ResolvedWell
  <2>3. /\ second = At(second.balance) /\ q.balance = second.balance
        /\ q.fee = s.fee /\ q.btl = s.btl /\ q.dsts = WireOrder(r)
    BY <1>1, PlannedIsPlan DEF PlannedWell
  <2> HIDE DEF r, q
  <2>4. q.dsts \in Arrangements(r)
    BY <2>2, <2>3, ListOfDsts, WireOrderIs DEF ListIs
  <2>5. SameList(r, q.dsts)
    BY <2>2, <2>4, ArrangementIsSameList
  <2>6. QED
    BY <1>1, <2>3, <2>5 DEF IsReserved, At, r
<1>2. ASSUME IsReserved(p, s, first, second)
      PROVE  Verdict(s, first, second) = "none" /\ q = p
  <2>1. second = At(p.balance) /\ s.fee = p.fee /\ s.btl = p.btl /\ SameList(r, p.dsts)
    BY <1>2 DEF IsReserved, At
  <2>2. p.dsts \in Seq(PlanDst) /\ p.dsts \in Seq(RawDst)
    <3>1. PlanDst \subseteq RawDst
      BY NumbersAssumption DEF PlanDst, RawDst
    <3>2. QED
      BY <3>1, SeqMonotonic DEF IsPlan
  <2>3. ~NothingToSend(s, first)
    <3> SUFFICES ASSUME NothingToSend(s, first)
                 PROVE  FALSE
      OBVIOUS
    <3>1. s.fee \in Nat /\ first.balance \in 0 .. Limit
      <4>1. first.balance \in Balances
        BY DEF Entries
      <4>2. QED
        BY <4>1, NumbersAssumption DEF Typed
    <3>2. ~(s.dsts \in Seq(RawDst))
      BY ListTyped
    <3>3. PICK d : AllIs(s, d)
      BY <3>2 DEF Typed
    <3>4. r = <<d>>
      BY <3>1, <3>3, AllTyped
    <3>5. d.amount = None
      BY <3>3 DEF AllIs, AllDst
    <3> HIDE DEF r
    <3> DEFINE X == {i \in DOMAIN r : r[i] = d}
               Y == {i \in DOMAIN p.dsts : p.dsts[i] = d}
    <3>6. X = {1}
      BY <3>4
    <3>7. Y = {}
      <4>1. ListIs(p.dsts) /\ \A i \in 1 .. Len(p.dsts) : p.dsts[i] \in PlanDst
        BY <2>2, ListOfDsts
      <4>2. \A i \in 1 .. Len(p.dsts) : p.dsts[i].amount \in Nat
        BY <4>1, NumbersAssumption DEF PlanDst
      <4>3. \A i \in 1 .. Len(p.dsts) : p.dsts[i] # d
        BY <3>5, <4>2, NoneIsNoAmount
      <4>4. QED
        BY <4>1, <4>3 DEF ListIs
    <3>8. d \in ToSet(r)
      BY <3>4 DEF ToSet
    <3>9. Cardinality(X) = Cardinality(Y)
      BY <2>1, <3>8 DEF SameList
    <3> HIDE DEF X, Y
    <3>10. Cardinality({1}) = 1
      BY FS_Singleton
    <3>11. Cardinality({}) = 0
      BY FS_EmptySet
    <3>12. Cardinality({1}) = Cardinality({})
      BY <3>6, <3>7, <3>9
    <3>13. QED
      BY <3>10, <3>11, <3>12
  <2>4. r \in Seq(RawDst)
    BY <2>3, ResolvedIs DEF ResolvedWell
  <2>5. WireOrder(r) = p.dsts
    <3> HIDE DEF r
    <3>1. r \in Arrangements(p.dsts)
      BY <2>1, <2>2, <2>4, SameListIsArrangement
    <3>2. WireOrder(r) = WireOrder(p.dsts)
      BY <2>2, <3>1, ListOfDsts, WireOrderIs DEF ListIs
    <3>3. QED
      BY <3>2 DEF IsPlan
  <2>6. Verdict(s, first, second) = Refusal(At(p.balance), p.dsts, p.fee)
    BY <2>1, <2>3, <2>5 DEF Verdict
  <2>7. q = SpendPlan(At(p.balance), p.dsts, p.fee, p.btl)
    BY <2>1, <2>5 DEF Planned
  <2>8. QED
    BY <2>6, <2>7 DEF IsPlan
<1>3. QED
  BY <1>1, <1>2

\* What resign reproduces is the reserved spend and no other.
LEMMA ResignedIs ==
  ASSUME IsPlan(plan), NEW s, Typed(s), NEW first \in Entries, NEW second \in Entries
  PROVE  /\ ResignVerdict(s, first, second) = "Resigned" <=> IsReserved(plan, s, first, second)
         /\ ResignVerdict(s, first, second) = "Resigned" => Planned(s, first, second) = plan
<1> DEFINE v == Verdict(s, first, second)
           q == Planned(s, first, second)
           same == MessageDigest(Unsigned(q)) = MessageDigest(Unsigned(plan))
<1>1. v # "Resigned"
  BY VerdictsAre
<1>2. ResignVerdict(s, first, second) = "Resigned" <=> v = "none" /\ same
  <2>1. ResignVerdict(s, first, second) =
          CASE v = "ChainAddressMismatch" -> "ReservationAlreadyLanded"
            [] v \notin {"none", "ChainAddressMismatch"} -> v
            [] v = "none" /\ ~same -> "NotTheReservedSpend"
            [] OTHER -> "Resigned"
    BY DEF ResignVerdict
  <2> HIDE DEF v, same
  <2>2. QED
    BY <1>1, <2>1
<1>3. v = "none" /\ same <=> v = "none" /\ q = plan
  <2>1. ASSUME v = "none", same
        PROVE  q = plan
    <3>1. IsPlan(q)
      BY <2>1, PlannedIsPlan DEF PlannedWell
    <3>2. QED
      BY <2>1, <3>1, OneDigestOnePlan
  <2>2. QED
    BY <2>1
<1>4. QED
  BY <1>2, <1>3, PlannedAgain

-----------------------------------------------------------------------------
(* The artifact, and a damaged copy of it.                                  *)

\* A trailer is not the absence of one.
LEMMA TrailersAreSome == \A x, y : [nonce |-> x, id |-> y] # NoTrailer
<1>1. \A x, y : "id" \in DOMAIN [nonce |-> x, id |-> y]
  OBVIOUS
<1>2. ~("id" \in DOMAIN NoTrailer)
  <2>1. DOMAIN NoTrailer = {}
    BY DEF NoTrailer
  <2>2. QED
    BY <2>1
<1>3. QED
  BY <1>1, <1>2

\* Everything of tx but its trailer is that of x.
SameButTrailer(x, tx) ==
  /\ SignedPrefix(x) = SignedPrefix(tx) /\ WotsVal(x) = WotsVal(tx)
  /\ \A nonce : IdDigest(x, nonce) = IdDigest(tx, nonce)

\* Nothing before the trailer depends on it.
LEMMA TrailerIsLast ==
  ASSUME NEW tx, NEW t
  PROVE  SameButTrailer(WithTrailer(tx, t), tx)
<1> DEFINE x == WithTrailer(tx, t)
<1>1. /\ x.reserved = tx.reserved /\ x.src = tx.src /\ x.chg = tx.chg /\ x.send = tx.send
      /\ x.change = tx.change /\ x.fee = tx.fee /\ x.btl = tx.btl /\ x.dsts = tx.dsts
      /\ x.wots = tx.wots
  BY DEF WithTrailer
<1> HIDE DEF x
<1>2. SignedPrefix(x) = SignedPrefix(tx)
  <2>1. \A y : SignedPrefix(y) =
          <<DatMdst, DsaWots, CountByte(Len(y.dsts)), y.reserved>>
            \o <<y.src.tag, y.src.key, y.chg.tag, y.chg.key>>
            \o Word(y.send) \o Word(y.change) \o Word(y.fee) \o Word(y.btl)
            \o FlattenSeq([i \in DOMAIN y.dsts |-> MdstImage(y.dsts[i])])
    BY Zenon DEF SignedPrefix
  <2>2. QED
    BY <1>1, <2>1
<1>3. WotsVal(x) = WotsVal(tx)
  BY <1>1 DEF WotsVal
<1>4. \A nonce : IdDigest(x, nonce) = IdDigest(tx, nonce)
  BY <1>2, <1>3, Zenon DEF IdDigest
<1>5. QED
  BY <1>2, <1>3, <1>4 DEF SameButTrailer, x

\* A transaction with a trailer is written in full, whatever the trailer says.
LEMMA FullLength ==
  ASSUME NEW tx, IsTx(tx), NEW nonce, NEW id
  PROVE  Len(ToWire(WithTrailer(tx, [nonce |-> nonce, id |-> id]))) = PrefixLen(tx) + 5
<1> DEFINE t == [nonce |-> nonce, id |-> id]
           x == WithTrailer(tx, t)
           m == PrefixLen(tx)
           p == SignedPrefix(tx)
           q == WotsVal(tx)
           w == Word(nonce)
           d == <<id>>
           B == Int \cup {tx.wots.signature, tx.wots.adrs, nonce % Base, nonce \div Base, id}
           r == w \o d
           pq == p \o q
           s == pq \o r
<1>1. x.trailer = t /\ t # NoTrailer /\ t.nonce = nonce /\ t.id = id
  BY TrailersAreSome DEF WithTrailer
<1>2. SignedPrefix(x) = p /\ WotsVal(x) = q
  BY TrailerIsLast DEF SameButTrailer
<1>3. ToWire(x) = s
  <2> HIDE DEF x, t, p, q
  <2>1. QED
    BY <1>1, <1>2 DEF ToWire
<1>4. Of(Int, p, m) /\ m \in Nat
  BY PrefixOfTx DEF PrefixIs, PrefixLen, Of
<1>5. Of(B, p, m)
  <2>1. Int \subseteq B
    OBVIOUS
  <2> HIDE DEF B, p, m
  <2>2. QED
    BY <1>4, <2>1, SeqMonotonic DEF Of
<1>6. Of(B, q, 2)
  BY DEF WotsVal, Of
<1>7. Of(B, w, 2) /\ Of(B, d, 1)
  BY DEF Word, Of
<1> HIDE DEF x, t, m, p, q, w, d, B, r, pq, s
<1>8. Joined(B, pq, p, m, q, 2)
  BY <1>5, <1>6, JoinOf, Zenon DEF pq
<1>9. Joined(B, r, w, 2, d, 1)
  BY <1>7, JoinOf, Zenon DEF r
<1>10. Of(B, pq, m + 2) /\ Of(B, r, 3)
  BY <1>8, <1>9 DEF Joined
<1> DEFINE e == m + 2
<1> HIDE DEF e
<1>11. Of(B, pq, e) /\ e \in Nat /\ e + 3 = m + 5
  BY <1>4, <1>10 DEF e
<1>12. Joined(B, s, pq, e, r, 3)
  BY <1>10, <1>11, JoinOf, Zenon DEF s
<1>13. Len(s) = e + 3
  BY <1>12 DEF Joined, Of
<1>14. QED
  BY <1>3, <1>11, <1>13 DEF x, t, m

\* The transaction that is printed, and its bytes.
Sent(p) == Final(p, OurSignature(p))
Artifact(p) == ToWire(Sent(p))

\* What there is to say of an artifact's bytes.
ArtifactWell(p) ==
  LET a == Artifact(p)
      m == PrefixLen(Sent(p))
  IN  /\ a \in Seq(BytesOf(Sent(p))) /\ Len(a) = m + 5 /\ m \in Nat /\ m > 16
      /\ a[1] = DatMdst /\ a[2] = DsaWots /\ a[3] = Len(p.dsts) - 1 /\ a[3] + 1 = Len(p.dsts)
      /\ Len(p.dsts) \in 1 .. MaxDestinations
      /\ IsTransaction(a) /\ FromWire(a) = Sent(p)
      /\ Artifact(p) = ToWire(Attached(p, OurSignature(p)))
      /\ IdDigest(Sent(p), 0) = Sent(p).trailer.id /\ Sent(p).trailer.nonce = 0
      /\ Sent(p).trailer # NoTrailer /\ IsTx(Sent(p))

\* The bytes of a signed plan: their length and header, and that they are read
\* back as the transaction, sealed under its own id.
LEMMA ArtifactIs ==
  ASSUME NEW p, IsPlan(p)
  PROVE  ArtifactWell(p)
<1> DEFINE g == OurSignature(p)
           tx == Sent(p)
           a == Artifact(p)
           m == PrefixLen(tx)
<1>1. IsTx(tx) /\ tx.dsts = p.dsts /\ Len(p.dsts) \in 1 .. MaxDestinations
  BY FinalIsTx DEF Sent
<1>2. tx = Image(p, Wots(g, FinalAddress(g.key)), Sealed(p, g))
  BY DEF Sent, Final
<1>3. tx.trailer = Sealed(p, g) /\ tx.wots = Wots(g, FinalAddress(g.key))
  BY <1>2 DEF Image
<1>4. Sealed(p, g) # NoTrailer /\ Sealed(p, g).nonce = 0
  BY TrailersAreSome DEF Sealed
<1>5. SignedPrefix(tx) = SignedPrefix(Unsigned(p))
  BY <1>2, ImagesAre
<1>6. IdDigest(tx, 0) = tx.trailer.id
  <2>1. WotsVal(tx) = <<[key |-> g.key, over |-> g.over], FinalAddress(g.key)>>
    BY <1>3 DEF WotsVal, Wots
  <2>2. Sealed(p, g).id = Sha256(SignedPrefix(Unsigned(p)) \o <<[key |-> g.key, over |-> g.over],
                                                            FinalAddress(g.key)>> \o Word(0))
    BY DEF Sealed
  <2> HIDE DEF tx, g
  <2>3. QED
    BY <1>3, <1>5, <2>1, <2>2, Zenon DEF IdDigest
<1>7. a = ToWire(tx)
  BY DEF Artifact
<1>8. ToWire(Attached(p, g)) = a /\ FromWire(a) = tx /\ IsTransaction(a)
  <2>1. Attached(p, g) = tx
    BY AttachedVerifies DEF Sent
  <2>2. FromWire(ToWire(tx)) = tx /\ IsTransaction(ToWire(tx))
    BY <1>1, WireRoundTrip
  <2>3. QED
    BY <1>7, <2>1, <2>2
<1>9. m \in Nat /\ m > 16
  BY <1>1, PrefixLenOfTx
<1> HIDE DEF tx, a, m, g
<1>10. WireIs(a, tx)
  BY <1>1, <1>7, WireOfTx
<1>11. a \in Seq(BytesOf(tx)) /\ Len(a) = m + 5
  <2>1. Of(BytesOf(tx), a, m + SizeWots + TrailerLen(tx))
    BY <1>10 DEF WireIs, m
  <2>2. TrailerLen(tx) = 3
    BY <1>3, <1>4 DEF TrailerLen, SizeTlr
  <2>3. m + SizeWots + TrailerLen(tx) = m + 5
    BY <1>9, <2>2 DEF SizeWots
  <2>4. QED
    BY <2>1, <2>3 DEF Of
<1>12. HeaderRead(a, tx)
  <2>1. Begins(a, tx)
    BY <1>7 DEF Begins
  <2>2. QED
    BY <1>1, <2>1, HeaderIsRead
<1>13. a[1] = DatMdst /\ a[2] = DsaWots /\ a[3] = Len(p.dsts) - 1 /\ a[3] + 1 = Len(p.dsts)
  <2>1. HeaderIs(Header(tx), tx)
    BY <1>1, HeaderOfTx
  <2>2. PrefixIs(SignedPrefix(tx), tx)
    BY <1>1, PrefixOfTx
  <2>3. 3 \in 1 .. m /\ 3 \in 1 .. SizeHdr
    BY <1>9 DEF SizeHdr
  <2>4. a[3] = SignedPrefix(tx)[3]
    BY <1>10, <2>3 DEF WireIs, m
  <2>5. SignedPrefix(tx)[3] = Header(tx)[3]
    BY <2>2, <2>3 DEF PrefixIs
  <2>6. a[3] = Len(p.dsts) - 1
    BY <1>1, <2>1, <2>4, <2>5 DEF HeaderIs
  <2>7. QED
    BY <1>1, <1>12, <2>6 DEF HeaderRead
<1>14. QED
  BY <1>1, <1>3, <1>4, <1>6, <1>8, <1>9, <1>11, <1>13 DEF ArtifactWell, tx, a, m, g

\* What the operator may have kept of the bytes a.
IsDamaged(c, a) ==
  \/ \E n \in 0 .. Len(a) - 1 : c = SubSeq(a, 1, n)
  \/ c = Append(a, 0)
  \/ \E i \in 1 .. 3, b \in 0 .. Base - 1 : b # a[i] /\ c = [a EXCEPT ![i] = b]

\* The size of a transaction, and that of one with another count.
SizesAre(tx, n) ==
  /\ TxSz(n) = PrefixLen(tx) + 5
  /\ \A b \in Nat : b # n => PrefixLen(tx) + 5 \notin TxSz(b) - SizeTlr .. TxSz(b)

\* No other count of destinations has a size that these bytes pass for.
LEMMA SizesOf ==
  ASSUME NEW tx, IsTx(tx), NEW n, n = Len(tx.dsts)
  PROVE  SizesAre(tx, n)
<1> DEFINE m == PrefixLen(tx)
           T(b) == SizeMdst * b
<1>1. n \in Nat /\ n > 0
  BY PrefixLenOfTx
<1>2. m = SizeHdr + T(n) /\ \A b : TxSz(b) = SizeHdr + T(b) + 2 + 3
  BY DEF TxSz, PrefixLen, SizeWots, SizeTlr
<1>3. SizeMdst \in Nat /\ SizeMdst > 3
  BY WireAssumption
<1>4. \A b \in Nat : T(b) \in Nat
  <2> TAKE b \in Nat
  <2>1. QED
    BY <1>3
<1>5. \A b \in Nat : (b < n => T(b) + SizeMdst <= T(n)) /\ (n < b => T(n) + SizeMdst <= T(b))
  <2> TAKE b \in Nat
  <2>1. b < n => T(b) + SizeMdst <= T(n)
    BY <1>1, <1>3, Multiples
  <2>2. n < b => T(n) + SizeMdst <= T(b)
    BY <1>1, <1>3, Multiples
  <2>3. QED
    BY <2>1, <2>2
<1> HIDE DEF T, m
<1>6. TxSz(n) = m + 5
  BY <1>1, <1>2, <1>4 DEF SizeHdr
<1>7. ASSUME NEW b \in Nat, b # n
      PROVE  m + 5 \notin TxSz(b) - SizeTlr .. TxSz(b)
  <2>5. T(b) \in Nat /\ T(n) \in Nat
    BY <1>1, <1>4
  <2>6. m = 16 + T(n) /\ TxSz(b) = 16 + T(b) + 2 + 3
    BY <1>2 DEF SizeHdr
  <2>1. T(b) \in Nat /\ T(n) \in Nat /\ m = 16 + T(n) /\ TxSz(b) = 16 + T(b) + 5
    BY <2>5, <2>6
  <2>2. b < n \/ n < b
    BY <1>1, <1>7
  <2>3. T(b) + SizeMdst <= T(n) \/ T(n) + SizeMdst <= T(b)
    BY <1>5, <2>2
  <2>4. QED
    BY <1>3, <2>1, <2>3 DEF SizeTlr
<1>8. QED
  BY <1>6, <1>7 DEF SizesAre, m

\* Of the bytes cut short only those without exactly the trailer are sent.
LEMMA CutIsSent ==
  ASSUME NEW p, IsPlan(p), NEW n \in 0 .. Len(Artifact(p)) - 1,
         Submittable(SubSeq(Artifact(p), 1, n))
  PROVE  /\ n = Len(Artifact(p)) - SizeTlr
         /\ FromWire(SubSeq(Artifact(p), 1, n)) = WithTrailer(Sent(p), NoTrailer)
<1> DEFINE a == Artifact(p)
           tx == Sent(p)
           m == PrefixLen(tx)
           s == SubSeq(a, 1, n)
           B == BytesOf(tx)
           u == SubSeq(s, m + 3, Len(s))
<1>1. ArtifactWell(p)
  BY ArtifactIs
<1>2. /\ a \in Seq(B) /\ Len(a) = m + 5 /\ m \in Nat /\ m > 16
      /\ a[3] + 1 = Len(p.dsts) /\ IsTx(tx)
  BY <1>1 DEF ArtifactWell
<1>3. a = ToWire(tx) /\ tx.dsts = p.dsts
  BY FinalIsTx DEF Artifact, Sent
<1>4. SizesAre(tx, Len(p.dsts))
  BY <1>2, <1>3, SizesOf
<1>5. IsTransaction(s) /\ ToWire(FromWire(s)) = s
  BY DEF Submittable
<1>6. n \in Nat /\ n < m + 5
  BY <1>2
<1> HIDE DEF a, tx, m, B
<1>7. Len(s) = n /\ s \in Seq(B) /\ \A k \in 1 .. n : s[k] = a[k]
  BY <1>2, <1>6
<1> HIDE DEF s
<1>8. n \in m + 2 .. m + 4
  <2>1. Len(s) >= 16 /\ Len(s) \in TxSz(s[3] + 1) - SizeTlr .. TxSz(s[3] + 1)
    BY <1>5 DEF IsTransaction, SizeHdr
  <2>2. s[3] = a[3]
    BY <1>6, <1>7, <2>1
  <2>3. n \in (m + 5) - 3 .. m + 5
    BY <1>2, <1>4, <1>7, <2>1, <2>2 DEF SizesAre, SizeTlr, m
  <2>4. QED
    BY <1>2, <1>6, <2>3
<1>9. Begins(s, tx)
  <2>1. \A k \in 1 .. m + 2 : k \in 1 .. n
    BY <1>2, <1>8
  <2>2. QED
    BY <1>3, <1>7, <2>1 DEF Begins, m
<1>10. FromWire(s) = WithTrailer(tx, ReadTrailer(u))
  BY <1>2, <1>9, ReadsBack DEF m
<1>11. CASE n = m + 2
  <2>1. u = <<>>
    <3>1. m + 3 \in Int /\ Len(s) \in Int /\ Len(s) < m + 3
      BY <1>2, <1>7, <1>11
    <3>2. QED
      BY <3>1, SubSeqEmpty
  <2>2. ReadTrailer(u) = NoTrailer
    BY <2>1 DEF ReadTrailer
  <2>3. n = Len(a) - SizeTlr
    BY <1>2, <1>11 DEF SizeTlr
  <2>4. QED
    BY <1>10, <2>2, <2>3 DEF s, tx, a
<1>12. CASE n # m + 2
  <2>1. u # <<>>
    <3>1. m + 3 \in 1 .. n /\ n \in 1 .. n
      BY <1>2, <1>8, <1>12
    <3>2. Len(u) = n - (m + 3) + 1
      BY <1>7, <3>1
    <3>3. Len(u) # 0
      BY <1>2, <1>6, <3>1, <3>2
    <3> HIDE DEF u
    <3>4. QED
      BY <3>3
  <2> HIDE DEF u
  <2> DEFINE padded == u \o SubSeq(ZeroTrailer, Len(u) + 1, SizeTlr)
             x == Number(SubSeq(padded, 1, 2))
             y == padded[3]
  <2>2. ReadTrailer(u) = [nonce |-> x, id |-> y]
    BY <2>1 DEF ReadTrailer
  <2> HIDE DEF x, y
  <2>3. Len(ToWire(FromWire(s))) = m + 5
    BY <1>2, <1>10, <2>2, FullLength DEF m
  <2>4. FALSE
    BY <1>5, <1>6, <1>7, <2>3
  <2>5. QED
    BY <2>4
<1>13. QED
  BY <1>11, <1>12

\* Bytes that run on, or with one byte of the layout wrong, are not sent.
LEMMA OddBytesAreNotSent ==
  ASSUME NEW p, IsPlan(p), NEW c,
         \/ c = Append(Artifact(p), 0)
         \/ \E i \in 1 .. 3, b \in 0 .. Base - 1 :
              b # Artifact(p)[i] /\ c = [Artifact(p) EXCEPT ![i] = b]
  PROVE  ~IsTransaction(c)
<1> DEFINE a == Artifact(p)
           tx == Sent(p)
           m == PrefixLen(tx)
           B == BytesOf(tx)
           n == Len(p.dsts)
<1>1. ArtifactWell(p)
  BY ArtifactIs
<1>2. /\ a \in Seq(B) /\ Len(a) = m + 5 /\ m \in Nat /\ m > 16
      /\ a[1] = DatMdst /\ a[2] = DsaWots /\ a[3] + 1 = n /\ IsTx(tx)
      /\ n \in 1 .. MaxDestinations
  BY <1>1 DEF ArtifactWell
<1>3. tx.dsts = p.dsts
  BY FinalIsTx DEF Sent
<1>4. SizesAre(tx, n)
  BY <1>2, <1>3, SizesOf
<1>5. \/ c = Append(a, 0)
      \/ \E i \in 1 .. 3, b \in 0 .. Base - 1 : b # a[i] /\ c = [a EXCEPT ![i] = b]
  OBVIOUS
<1> HIDE DEF a, tx, m, B, n
<1>6. CASE c = Append(a, 0)
  <2>1. Len(c) = m + 6 /\ c[3] = a[3]
    <3>1. 3 \in 1 .. Len(a)
      BY <1>2
    <3>2. Len(c) = Len(a) + 1 /\ \A k \in 1 .. Len(a) : c[k] = a[k]
      <4>1. a \in Seq(B \cup {0}) /\ 0 \in B \cup {0}
        BY <1>2, SeqMonotonic
      <4>2. QED
        BY <1>6, <4>1, AppendProperties
    <3>3. QED
      BY <1>2, <3>1, <3>2
  <2>2. m + 6 \notin TxSz(n) - SizeTlr .. TxSz(n)
    BY <1>2, <1>4 DEF SizesAre, m
  <2>3. QED
    BY <1>2, <2>1, <2>2 DEF IsTransaction
<1>7. CASE \E i \in 1 .. 3, b \in 0 .. Base - 1 : b # a[i] /\ c = [a EXCEPT ![i] = b]
  <2>1. PICK i \in 1 .. 3, b \in 0 .. Base - 1 : b # a[i] /\ c = [a EXCEPT ![i] = b]
    BY <1>7
  <2>2. a \in [1 .. m + 5 -> B]
    BY <1>2, LenProperties
  <2>3. i \in 1 .. m + 5 /\ m + 5 \in Nat
    BY <1>2
  <2>4. c[i] = b /\ c \in [1 .. m + 5 -> B \cup {b}]
    BY <2>1, <2>2, <2>3
  <2>5. Len(c) = m + 5
    BY <2>3, <2>4, FunctionIsSeq
  <2>6. CASE i = 1 \/ i = 2
    BY <1>2, <2>1, <2>4, <2>6 DEF IsTransaction
  <2>7. CASE i = 3
    <3>1. b \in Nat /\ b + 1 \in Nat
      BY WireAssumption
    <3>2. b + 1 # n
      <4>1. a[3] + 1 = n /\ b # a[3] /\ c[3] = b
        BY <1>2, <2>1, <2>4, <2>7
      <4>2. a[3] = n - 1
        BY <1>1 DEF ArtifactWell, a, n
      <4>3. QED
        BY <1>2, <3>1, <4>1, <4>2
    <3>3. m + 5 \notin TxSz(b + 1) - SizeTlr .. TxSz(b + 1)
      BY <1>4, <3>1, <3>2 DEF SizesAre, m
    <3>4. c[3] = b
      BY <2>4, <2>7
    <3>5. QED
      BY <2>5, <3>3, <3>4 DEF IsTransaction
  <2>8. QED
    BY <2>6, <2>7
<1>8. QED
  BY <1>5, <1>6, <1>7

\* What is sent of a copy is the transaction, under its id.
LEMMA SentIsOurs ==
  ASSUME NEW p, IsPlan(p), NEW c, c = Artifact(p) \/ IsDamaged(c, Artifact(p)), Submittable(c)
  PROVE  /\ c \in {Artifact(p), SubSeq(Artifact(p), 1, Len(Artifact(p)) - SizeTlr)}
         /\ IdDigest(FromWire(c),
                     IF FromWire(c).trailer = NoTrailer THEN 0 ELSE FromWire(c).trailer.nonce)
              = Sent(p).trailer.id
<1> DEFINE a == Artifact(p)
           tx == Sent(p)
<1>1. FromWire(a) = tx /\ IdDigest(tx, 0) = tx.trailer.id /\ tx.trailer.nonce = 0
  BY ArtifactIs DEF ArtifactWell
<1>2. CASE c = a
  BY <1>1, <1>2
<1>3. CASE \E n \in 0 .. Len(a) - 1 : c = SubSeq(a, 1, n)
  <2>1. PICK n \in 0 .. Len(a) - 1 : c = SubSeq(a, 1, n)
    BY <1>3
  <2>2. n = Len(a) - SizeTlr /\ FromWire(c) = WithTrailer(tx, NoTrailer)
    BY <2>1, CutIsSent
  <2> HIDE DEF a, tx
  <2>3. FromWire(c).trailer = NoTrailer
    BY <2>2 DEF WithTrailer
  <2>4. IdDigest(FromWire(c), 0) = IdDigest(tx, 0)
    BY <2>2, TrailerIsLast DEF SameButTrailer
  <2>5. QED
    BY <1>1, <2>1, <2>2, <2>3, <2>4 DEF a, tx
<1>4. CASE \/ c = Append(a, 0)
           \/ \E i \in 1 .. 3, b \in 0 .. Base - 1 : b # a[i] /\ c = [a EXCEPT ![i] = b]
  <2>1. ~IsTransaction(c)
    BY <1>4, OddBytesAreNotSent
  <2>2. QED
    BY <2>1 DEF Submittable
<1>5. QED
  BY <1>2, <1>3, <1>4 DEF IsDamaged

-----------------------------------------------------------------------------
(* The invariant.                                                           *)

\* What is planned is a plan.
PlanInv == plan = None \/ IsPlan(plan)

\* The artifact is the bytes of the plan under its own signature.
ArtifactInv == artifact # <<>> => plan # None /\ IsPlan(plan) /\ artifact = Artifact(plan)

\* The copy is the artifact, damaged or not.
CopyInv == copy = <<>> \/ (artifact # <<>> /\ (copy = artifact \/ IsDamaged(copy, artifact)))

\* The inductive invariant.
IInv == PlanInv /\ ArtifactInv /\ CopyInv

\* Nothing is planned at first.
LEMMA InitInv == Init => IInv
BY DEF Init, IInv, PlanInv, ArtifactInv, CopyInv

\* Send leaves a plan only if the node takes it.
LEMMA SendInv ==
  ASSUME IInv, Send
  PROVE  IInv' /\ PlanAgreesWithNode'
<1>1. PICK s \in Spends, entry \in Entries, via \in {"cli", "library"} :
        /\ plan' = IF (IF via = "cli" /\ ~SpendArgs(s) THEN "Usage" ELSE Verdict(s, entry, entry)) = "none"
                   THEN Planned(s, entry, entry) ELSE None
        /\ answer' = [verb |-> "send", typed |-> s, entry |-> entry, via |-> via,
                      said |-> IF via = "cli" /\ ~SpendArgs(s) THEN "Usage" ELSE Verdict(s, entry, entry)]
  BY DEF Send
<1> DEFINE said == IF via = "cli" /\ ~SpendArgs(s) THEN "Usage" ELSE Verdict(s, entry, entry)
<1>2. Typed(s)
  BY SpendsAreTyped
<1>3. /\ plan = None /\ artifact' = artifact /\ copy' = copy
      /\ plan' = IF said = "none" THEN Planned(s, entry, entry) ELSE None
      /\ answer' = [verb |-> "send", typed |-> s, entry |-> entry, via |-> via, said |-> said]
  BY <1>1 DEF Send
<1>4. said = "none" => Verdict(s, entry, entry) = "none"
  OBVIOUS
<1>5. said # "none" => (via = "cli" /\ ~SpendArgs(s)) \/ Verdict(s, entry, entry) # "none"
  OBVIOUS
<1> HIDE DEF said
<1>6. artifact = <<>> /\ copy = <<>>
  BY <1>3 DEF IInv, ArtifactInv, CopyInv
<1>7. said = "none" => IsPlan(plan') /\ Pays(plan', s, entry)
  BY <1>2, <1>3, <1>4, PlannedIsPlan, PlannedPays DEF PlannedWell
<1>8. said # "none" => PaysNothing(s, entry, via)
  BY <1>2, <1>5, RefusedPaysNothing
<1>9. IInv'
  BY <1>3, <1>6, <1>7 DEF IInv, PlanInv, ArtifactInv, CopyInv
<1>10. PlanAgreesWithNode'
  <2>1. answer'.said = said /\ answer'.typed = s /\ answer'.entry = entry /\ answer'.via = via
    BY <1>3
  <2>2. said = "none" => PlanIsPayable'
    BY <1>7, <2>1 DEF PlanIsPayable, Pays
  <2>3. said # "none" => NoPayableSpendIsRefused'
    BY <1>8, <2>1 DEF NoPayableSpendIsRefused, PaysNothing
  <2>4. QED
    BY <2>1, <2>2, <2>3 DEF PlanAgreesWithNode
<1>11. QED
  BY <1>9, <1>10

\* Attach leaves bytes only under the key's own signature of the plan's digest.
LEMMA AttachInv ==
  ASSUME IInv, Attach
  PROVE  IInv' /\ AttachTakesTheRightSignature'
<1>1. PICK sig \in Signatures :
        /\ IF Attaches(plan, sig)
           THEN artifact' = ToWire(Attached(plan, sig)) /\ copy' = artifact'
           ELSE artifact' = artifact /\ copy' = copy
        /\ answer' = [verb |-> "attach", sig |-> sig, taken |-> Attaches(plan, sig)]
  BY DEF Attach
<1>2. IsPlan(plan) /\ plan # None /\ plan' = plan
  BY DEF Attach, IInv, PlanInv
<1>3. SignatureIs(sig)
  BY SignatureFields
<1>4. Attaches(plan, sig) <=> sig = OurSignature(plan)
  BY <1>2, <1>3, AttachTakesOurs
<1>5. Attaches(plan, sig) => artifact' = Artifact(plan) /\ copy' = artifact'
  BY <1>1, <1>2, <1>4, ArtifactIs DEF ArtifactWell
<1>6. IInv'
  BY <1>1, <1>2, <1>5 DEF IInv, PlanInv, ArtifactInv, CopyInv
<1>7. AttachTakesTheRightSignature'
  <2>1. answer'.sig = sig /\ (answer'.taken <=> Attaches(plan, sig))
    BY <1>1
  <2>2. Attaches(plan, sig) =>
          /\ VerifyWots(FromWire(artifact'))
          /\ FromWire(artifact').wots.adrs = WotsPkgen(Source.key, Adrs(Source.key)).adrs
    <3>1. /\ VerifyWots(Final(plan, OurSignature(plan)))
          /\ Final(plan, OurSignature(plan)).wots.adrs = WotsPkgen(Source.key, Adrs(Source.key)).adrs
      BY <1>2, AttachedVerifies
    <3>2. FromWire(Artifact(plan)) = Final(plan, OurSignature(plan))
      BY <1>2, ArtifactIs DEF ArtifactWell, Sent
    <3>3. QED
      BY <1>5, <3>1, <3>2
  <2>3. ChainLengths(OurSignature(plan).over) # ChainLengths(sig.over) =>
          \E i \in 1 .. WOTSLEN : ChainLengths(OurSignature(plan).over)[i] < ChainLengths(sig.over)[i]
    <3>1. OurSignature(plan).over \in Messages /\ sig.over \in Messages
      BY <1>2, <1>3, OursIs DEF SignatureIs
    <3>2. QED
      BY <3>1, SomeChainIsShorter
  <2>4. QED
    BY <1>2, <1>4, <2>1, <2>2, <2>3 DEF AttachTakesTheRightSignature
<1>8. QED
  BY <1>6, <1>7

\* Damage is of the copy alone.
LEMMA DamageInv ==
  ASSUME IInv, Damage
  PROVE  IInv'
<1>1. IsDamaged(copy', artifact) /\ artifact # <<>> /\ artifact' = artifact /\ plan' = plan
  BY DEF Damage, IsDamaged
<1>2. QED
  BY <1>1 DEF IInv, PlanInv, ArtifactInv, CopyInv

\* Submit changes nothing, and sends of a copy the transaction or nothing.
LEMMA SubmitCopyInv ==
  ASSUME IInv, SubmitCopy
  PROVE  IInv' /\ DamagedCopyIsNotAnother'
<1>1. plan' = plan /\ artifact' = artifact /\ copy' = copy /\ copy # <<>>
  BY DEF SubmitCopy
<1>2. IInv'
  BY <1>1 DEF IInv, PlanInv, ArtifactInv, CopyInv
<1>3. /\ IsPlan(plan) /\ artifact = Artifact(plan)
      /\ copy = Artifact(plan) \/ IsDamaged(copy, Artifact(plan))
  BY <1>1 DEF IInv, ArtifactInv, CopyInv
<1>4. CASE Submittable(copy)
  <2> DEFINE nonce == IF FromWire(copy).trailer = NoTrailer THEN 0 ELSE FromWire(copy).trailer.nonce
             id == IdDigest(FromWire(copy), nonce)
  <2>1. answer' = [verb |-> "submit", sent |-> TRUE, id |-> id]
    BY <1>4, Zenon DEF SubmitCopy
  <2>2. answer'.id = id
    BY <2>1
  <2>3. /\ copy \in {artifact, SubSeq(artifact, 1, Len(artifact) - SizeTlr)}
        /\ id = Sent(plan).trailer.id
    BY <1>3, <1>4, SentIsOurs
  <2>4. FromWire(artifact) = Sent(plan)
    BY <1>3, ArtifactIs DEF ArtifactWell
  <2> HIDE DEF id
  <2>5. QED
    BY <1>1, <1>2, <2>2, <2>3, <2>4 DEF DamagedCopyIsNotAnother
<1>5. CASE ~Submittable(copy)
  <2>1. answer' = [verb |-> "submit", sent |-> FALSE]
    BY <1>5 DEF SubmitCopy
  <2>2. ~answer'.sent
    BY <2>1
  <2>3. QED
    BY <1>2, <2>2 DEF DamagedCopyIsNotAnother
<1>6. QED
  BY <1>4, <1>5

\* Resign changes nothing, and reproduces the bytes of the reserved spend alone.
LEMMA ResignInv ==
  ASSUME IInv, Resign
  PROVE  IInv' /\ RetypedSpendIsTheReserved'
<1>1. plan' = plan /\ artifact' = artifact /\ copy' = copy /\ artifact # <<>>
  BY DEF Resign
<1>2. IInv'
  BY <1>1 DEF IInv, PlanInv, ArtifactInv, CopyInv
<1>3. IsPlan(plan) /\ artifact = ToWire(Attached(plan, OurSignature(plan)))
  BY <1>1, ArtifactIs DEF IInv, ArtifactInv, ArtifactWell
<1> DEFINE Typing(dsts, fee, btl) == [dsts |-> dsts, fee |-> fee, btl |-> btl]
           Says(s, first, second, via) ==
             IF via = "cli" /\ ~SpendArgs(s) THEN "Usage" ELSE ResignVerdict(s, first, second)
           Wire(s, first, second, via) ==
             IF Says(s, first, second, via) # "Resigned" THEN <<>>
             ELSE ToWire(Attached(Planned(s, first, second), OurSignature(plan)))
<1>4. PICK dsts \in Retyped(plan.dsts), fee \in Fees, btl \in BlocksToLive,
           first, second \in Entries, via \in {"cli", "library"} :
        answer' = [verb |-> "resign", typed |-> Typing(dsts, fee, btl), first |-> first, second |-> second,
                   via |-> via,
                   said |-> Says(Typing(dsts, fee, btl), first, second, via),
                   wire |-> Wire(Typing(dsts, fee, btl), first, second, via)]
  <2>1. PICK dsts \in Retyped(plan.dsts), fee \in Fees, btl \in BlocksToLive,
             first, second \in Entries, via \in {"cli", "library"} :
          LET t == [dsts |-> dsts, fee |-> fee, btl |-> btl]
              said == IF via = "cli" /\ ~SpendArgs(t) THEN "Usage" ELSE ResignVerdict(t, first, second)
          IN  answer' =
                [verb |-> "resign", typed |-> t, first |-> first, second |-> second, via |-> via,
                 said |-> said,
                 wire |-> IF said # "Resigned" THEN <<>>
                          ELSE ToWire(Attached(Planned(t, first, second), OurSignature(plan)))]
    BY DEF Resign
  <2>2. QED
    BY <2>1
<1> DEFINE s == Typing(dsts, fee, btl)
<1>5. s.dsts = dsts /\ s.fee = fee /\ s.btl = btl
  OBVIOUS
<1> HIDE DEF Typing, s
<1>6. Typed(s)
  BY <1>3, <1>5, RetypedAreTyped
<1> DEFINE Taken == via = "cli" => ~ZeroTagIsTyped(s.dsts) /\ ~ATagIsTypedTwice(s.dsts)
<1>7. /\ ResignVerdict(s, first, second) = "Resigned" <=> IsReserved(plan, s, first, second)
      /\ ResignVerdict(s, first, second) = "Resigned" =>
           Verdict(s, first, second) = "none" /\ Planned(s, first, second) = plan
  <2>1. /\ ResignVerdict(s, first, second) = "Resigned" <=> IsReserved(plan, s, first, second)
        /\ ResignVerdict(s, first, second) = "Resigned" => Planned(s, first, second) = plan
    BY <1>3, <1>6, ResignedIs
  <2>2. IsReserved(plan, s, first, second) => Verdict(s, first, second) = "none"
    BY <1>3, <1>6, PlannedAgain
  <2>3. QED
    BY <2>1, <2>2
<1>8. ResignVerdict(s, first, second) = "Resigned" => (SpendArgs(s) <=> ~ZeroTagIsTyped(s.dsts) /\ ~ATagIsTypedTwice(s.dsts))
  BY <1>6, <1>7, TakenButForTwo
<1>9. SpendArgs(s) => ~ZeroTagIsTyped(s.dsts) /\ ~ATagIsTypedTwice(s.dsts)
  BY DEF SpendArgs
<1>10. Says(s, first, second, via) = "Resigned" <=> IsReserved(plan, s, first, second) /\ Taken
  <2>1. CASE via = "cli" /\ ~SpendArgs(s)
    BY <2>1, <1>7, <1>8
  <2>2. CASE ~(via = "cli" /\ ~SpendArgs(s))
    BY <2>2, <1>7, <1>9
  <2>3. QED
    BY <2>1, <2>2
<1>11. Says(s, first, second, via) = "Resigned" => Wire(s, first, second, via) = artifact
  BY <1>3, <1>7
<1> HIDE DEF Says, Wire
<1>12. /\ answer'.typed = s /\ answer'.first = first /\ answer'.second = second /\ answer'.via = via
       /\ answer'.said = Says(s, first, second, via) /\ answer'.wire = Wire(s, first, second, via)
  BY <1>4 DEF s
<1>13. QED
  BY <1>1, <1>2, <1>10, <1>11, <1>12 DEF RetypedSpendIsTheReserved, IsReserved

\* The other steps leave the invariant as it is.
LEMMA QuietInv ==
  ASSUME IInv, Return \/ Settle \/ UNCHANGED vars
  PROVE  IInv'
<1>1. CASE Return
  BY <1>1 DEF Return, IInv, PlanInv, ArtifactInv, CopyInv
<1>2. CASE Settle
  BY <1>2 DEF Settle, IInv, PlanInv, ArtifactInv, CopyInv
<1>3. CASE UNCHANGED vars
  BY <1>3 DEF vars, IInv, PlanInv, ArtifactInv, CopyInv
<1>4. QED
  BY <1>1, <1>2, <1>3

\* The verb of each command's answer.
LEMMA VerbsAre ==
  ASSUME Next
  PROVE  /\ answer'.verb \in {"none", "send", "attach", "submit", "resign"}
         /\ answer'.verb = "send" => Send
         /\ answer'.verb = "attach" => Attach
         /\ answer'.verb = "submit" => SubmitCopy
         /\ answer'.verb = "resign" => Resign
<1>1. Send => answer'.verb = "send"
  BY DEF Send
<1>2. Attach => answer'.verb = "attach"
  BY DEF Attach
<1>3. SubmitCopy => answer'.verb = "submit"
  BY DEF SubmitCopy
<1>4. Resign => answer'.verb = "resign"
  BY DEF Resign
<1>5. Damage \/ Return \/ Settle => answer'.verb = "none"
  BY DEF Damage, Return, Settle, NoAnswer
<1>6. QED
  BY <1>1, <1>2, <1>3, <1>4, <1>5 DEF Next

\* Every step keeps the invariant.
LEMMA NextInv == IInv /\ [Next]_vars => IInv'
BY SendInv, AttachInv, DamageInv, SubmitCopyInv, ResignInv, QuietInv DEF Next

\* In every state what is planned is a plan of SpendPlan::new (mesh/spend.rs:205),
\* the artifact is the bytes of that plan under the key's own signature
\* (mesh/spend.rs:396), and the copy is those bytes or one damage of them. The
\* properties below are about what a command answers, and each follows from what
\* this invariant says of the state the command found.
THEOREM InvHolds == Spec => []IInv
<1>1. Init => IInv
  BY InitInv
<1>2. IInv /\ [Next]_vars => IInv'
  BY NextInv
<1>3. QED
  BY <1>1, <1>2, PTL DEF Spec

\* A spend the planner takes (mesh/spend.rs:198) is one the node's rules allow, of
\* the destinations typed, in the wire's order, spending the whole balance; one it
\* refuses no reading of what was typed would have paid, but for one that names the
\* all-zero tag or a tag twice on the command line (cli/args.rs:479, 772).
THEOREM PlanAgreesWithNodeHolds == Spec => []PlanAgreesWithNode
<1>1. Init => PlanAgreesWithNode
  BY DEF Init, NoAnswer, PlanAgreesWithNode
<1>2. PlanAgreesWithNode /\ UNCHANGED vars => PlanAgreesWithNode'
  BY DEF vars, PlanAgreesWithNode, PlanIsPayable, NoPayableSpendIsRefused
<1>3. IInv /\ Next => PlanAgreesWithNode'
  <2> SUFFICES ASSUME IInv, Next, answer'.verb = "send"
               PROVE  PlanAgreesWithNode'
    BY DEF PlanAgreesWithNode
  <2>1. Send
    BY VerbsAre
  <2>2. QED
    BY <2>1, SendInv
<1>4. QED
  BY <1>1, <1>2, <1>3, InvHolds, PTL DEF Spec

\* Attach (mesh/spend.rs:396) takes exactly the signature of the source's key over
\* the plan's digest; what it leaves verifies as it is read back, under the address
\* the key was generated with; and no chain of a signature of another digest can be
\* walked on to it.
THEOREM AttachTakesTheRightSignatureHolds == Spec => []AttachTakesTheRightSignature
<1>1. Init => AttachTakesTheRightSignature
  BY DEF Init, NoAnswer, AttachTakesTheRightSignature
<1>2. AttachTakesTheRightSignature /\ UNCHANGED vars => AttachTakesTheRightSignature'
  BY DEF vars, AttachTakesTheRightSignature
<1>3. IInv /\ Next => AttachTakesTheRightSignature'
  <2> SUFFICES ASSUME IInv, Next, answer'.verb = "attach"
               PROVE  AttachTakesTheRightSignature'
    BY DEF AttachTakesTheRightSignature
  <2>1. Attach
    BY VerbsAre
  <2>2. QED
    BY <2>1, AttachInv
<1>4. QED
  BY <1>1, <1>2, <1>3, InvHolds, PTL DEF Spec

\* The bytes attach leaves (tx/wire.rs:395) are read back as the plan's transaction,
\* are written again as the same bytes, and carry the id of what they are.
THEOREM ArtifactReadsBackHolds == Spec => []ArtifactReadsBack
<1>1. IInv => ArtifactReadsBack
  <2> SUFFICES ASSUME IInv, artifact # <<>>
               PROVE  ArtifactReadsBack
    BY DEF ArtifactReadsBack
  <2> DEFINE tx == FromWire(artifact)
  <2>1. IsPlan(plan) /\ artifact = Artifact(plan)
    BY DEF IInv, ArtifactInv
  <2>2. /\ IsTransaction(artifact) /\ tx = Sent(plan) /\ ToWire(tx) = artifact
        /\ IdDigest(tx, 0) = tx.trailer.id
    BY <2>1, ArtifactIs DEF ArtifactWell, Artifact
  <2>3. /\ tx.dsts = plan.dsts /\ tx.send = plan.send /\ tx.change = plan.change
        /\ tx.fee = plan.fee /\ tx.btl = plan.btl /\ tx.src = Source /\ tx.chg = Change
    BY <2>2 DEF Sent, Final, Image
  <2>4. plan.send + plan.change + plan.fee = plan.balance
    BY <2>1, NumbersOfPlan DEF PlanNumbers
  <2>5. plan = [dsts |-> plan.dsts, send |-> plan.send, change |-> plan.change,
                fee |-> plan.fee, btl |-> plan.btl, balance |-> plan.balance]
    <3>1. plan = SpendPlan(At(plan.balance), plan.dsts, plan.fee, plan.btl)
      BY <2>1 DEF IsPlan
    <3>2. plan.send = Tally(plan.dsts) /\ plan.change = plan.balance - Tally(plan.dsts) - plan.fee
      BY <2>1, NumbersOfPlan DEF PlanNumbers
    <3>3. At(plan.balance).balance = plan.balance
      BY DEF At
    <3>4. QED
      BY <3>1, <3>2, <3>3 DEF SpendPlan
  <2> HIDE DEF tx
  <2>6. [dsts |-> tx.dsts, send |-> tx.send, change |-> tx.change, fee |-> tx.fee,
               btl |-> tx.btl, balance |-> tx.send + tx.change + tx.fee] = plan
    BY <2>3, <2>4, <2>5
  <2>7. QED
    BY <2>2, <2>3, <2>6 DEF ArtifactReadsBack, tx
<1>2. QED
  BY <1>1, InvHolds, PTL

\* Submit (cli/mod.rs:1128) sends of a copy that was cut short, ran on or has a byte
\* of its layout wrong nothing but the transaction itself, under its own id.
THEOREM DamagedCopyIsNotAnotherHolds == Spec => []DamagedCopyIsNotAnother
<1>1. Init => DamagedCopyIsNotAnother
  BY DEF Init, NoAnswer, DamagedCopyIsNotAnother
<1>2. DamagedCopyIsNotAnother /\ UNCHANGED vars => DamagedCopyIsNotAnother'
  BY DEF vars, DamagedCopyIsNotAnother
<1>3. IInv /\ Next => DamagedCopyIsNotAnother'
  <2> SUFFICES ASSUME IInv, Next, answer'.verb = "submit"
               PROVE  DamagedCopyIsNotAnother'
    BY DEF DamagedCopyIsNotAnother
  <2>1. SubmitCopy
    BY VerbsAre
  <2>2. QED
    BY <2>1, SubmitCopyInv
<1>4. QED
  BY <1>1, <1>2, <1>3, InvHolds, PTL DEF Spec

\* Resign (keystore/wallet.rs:812) reproduces the artifact's bytes when, and only
\* when, what is typed again is the reserved spend at the reserved balance, and on
\* the command line it names no tag twice and not the all-zero one.
THEOREM RetypedSpendIsTheReservedHolds == Spec => []RetypedSpendIsTheReserved
<1>1. Init => RetypedSpendIsTheReserved
  BY DEF Init, NoAnswer, RetypedSpendIsTheReserved
<1>2. RetypedSpendIsTheReserved /\ UNCHANGED vars => RetypedSpendIsTheReserved'
  BY DEF vars, RetypedSpendIsTheReserved
<1>3. IInv /\ Next => RetypedSpendIsTheReserved'
  <2> SUFFICES ASSUME IInv, Next, answer'.verb = "resign"
               PROVE  RetypedSpendIsTheReserved'
    BY DEF RetypedSpendIsTheReserved
  <2>1. Resign
    BY VerbsAre
  <2>2. QED
    BY <2>1, ResignInv
<1>4. QED
  BY <1>1, <1>2, <1>3, InvHolds, PTL DEF Spec

\* The state keeps its types: a plan's numbers fit a word, and there are no bytes
\* without a plan and no copy without bytes.
THEOREM TypesHold == Spec => []TypeOK
<1>1. Init => answer.verb = "none"
  BY DEF Init, NoAnswer
<1> DEFINE V == answer.verb \in {"none", "send", "attach", "submit", "resign"}
<1>2. V /\ [Next]_vars => V'
  BY VerbsAre DEF vars
<1>3. IInv /\ V => TypeOK
  <2> SUFFICES ASSUME IInv, V
               PROVE  TypeOK
    OBVIOUS
  <2>1. plan # None => /\ plan.dsts \in Seq(PlanDst)
                       /\ {plan.send, plan.change, plan.fee, plan.btl, plan.balance} \subseteq 0 .. Limit
    <3> SUFFICES ASSUME plan # None
                 PROVE  /\ plan.dsts \in Seq(PlanDst)
                        /\ {plan.send, plan.change, plan.fee, plan.btl, plan.balance} \subseteq 0 .. Limit
      OBVIOUS
    <3>1. IsPlan(plan)
      BY DEF IInv, PlanInv
    <3>2. PlanNumbers(plan)
      BY <3>1, NumbersOfPlan
    <3>3. plan.balance <= Limit /\ plan.fee <= Limit /\ plan.btl <= Limit /\ Limit \in Nat
      BY <3>1, NumbersAssumption DEF IsPlan
    <3>4. plan.send <= Limit /\ plan.change <= Limit
      BY <3>2, <3>3 DEF PlanNumbers
    <3>5. QED
      BY <3>1, <3>2, <3>3, <3>4 DEF IsPlan, PlanNumbers
  <2>2. plan = None => artifact = <<>>
    BY DEF IInv, ArtifactInv
  <2>3. artifact = <<>> => copy = <<>>
    BY DEF IInv, CopyInv
  <2>4. QED
    BY <2>1, <2>2, <2>3 DEF TypeOK, PlanDst
<1>4. Init => V
  BY <1>1
<1> HIDE DEF V
<1>5. QED
  BY <1>2, <1>3, <1>4, InvHolds, PTL DEF Spec

==============================================================================
