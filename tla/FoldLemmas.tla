----------------------------- MODULE FoldLemmas -----------------------------
(***************************************************************************)
(* Induction and recursion stated over sets and functions, the form in     *)
(* which a proof can cite them: an induction hypothesis is membership in a *)
(* set, a recursion step is a function.  They are what a proof about a     *)
(* fold of the models (FoldLeft over a sequence) rests on.                 *)
(***************************************************************************)
EXTENDS Integers, SequencesExt, WellFoundedInduction, TLAPS

\* Mathematical induction: the set of naturals a property holds for.
LEMMA NatSetInduction ==
  ASSUME NEW S, 0 \in S, \A n \in Nat : n \in S => n + 1 \in S
  PROVE  Nat \subseteq S
<1>. DEFINE T == {n \in Nat : n \notin S}
<1>. SUFFICES ASSUME T # {} PROVE FALSE
  OBVIOUS
<1>1. PICK x \in T : \A y \in T : ~ (<<y, x>> \in OpToRel(<, Nat))
  <2>1. T \subseteq Nat
    OBVIOUS
  <2>. HIDE DEF T
  <2>. QED BY <2>1, WFMin, NatLessThanWellFounded, Zenon
<1>2. x \in Nat /\ x # 0 /\ x - 1 \in Nat /\ x - 1 < x
  OBVIOUS
<1>3. x - 1 \in S
  BY <1>1, <1>2 DEF OpToRel
<1>. QED BY <1>2, <1>3

\* The least and, under a bound, the greatest element of a set of naturals.
LEMMA LeastExists ==
  ASSUME NEW S, S \subseteq Nat, S # {}
  PROVE  \E x \in S : \A y \in S : x <= y
<1>1. PICK x \in S : \A y \in S : ~ (<<y, x>> \in OpToRel(<, Nat))
  BY WFMin, NatLessThanWellFounded, Zenon
<1>2. ASSUME NEW y \in S PROVE x <= y
  <2>1. x \in Nat /\ y \in Nat
    OBVIOUS
  <2>2. ~ (y < x)
    BY <1>1, <2>1 DEF OpToRel
  <2>. QED BY <2>1, <2>2
<1>. QED BY <1>2

\* The least of a set of numbers.
LEMMA MinFacts ==
  ASSUME NEW S, S \subseteq Nat, S # {}
  PROVE  Min(S) \in S /\ \A y \in S : Min(S) <= y
BY LeastExists DEF Min

\* The greatest of some of the first n numbers.
LEMMA MaxFacts ==
  ASSUME NEW n \in Nat, NEW S, S \subseteq 1 .. n, S # {}
  PROVE  Max(S) \in S /\ \A y \in S : y <= Max(S)
<1>. DEFINE T == {n - y : y \in S}
<1>1. T \subseteq Nat /\ T # {}
  <2>1. ASSUME NEW y \in S PROVE n - y \in Nat
    <3>1. y \in 1 .. n
      OBVIOUS
    <3>. QED BY <3>1
  <2>2. PICK y \in S : TRUE
    OBVIOUS
  <2>3. n - y \in T
    OBVIOUS
  <2>. QED BY <2>1, <2>3
<1>2. PICK m \in T : \A t \in T : m <= t
  <2>. HIDE DEF T
  <2>. QED BY <1>1, LeastExists
<1>3. PICK x \in S : m = n - x
  OBVIOUS
<1>4. ASSUME NEW y \in S PROVE y <= x
  <2>1. n - x <= n - y
    BY <1>2, <1>3
  <2>. QED BY <2>1
<1>5. \E z \in S : \A y \in S : z >= y
  <2>1. \A y \in S : x >= y
    BY <1>4
  <2>. QED BY <2>1
<1>6. Max(S) \in S /\ \A y \in S : Max(S) >= y
  BY <1>5 DEF Max
<1>. QED BY <1>6

\* The greatest of the first i numbers, and the rest without it.
LEMMA MaxOfInterval ==
  ASSUME NEW i \in Nat \ {0}
  PROVE  Max(1 .. i) = i /\ (1 .. i) \ {i} = 1 .. (i - 1)
<1>1. i \in 1 .. i /\ 1 .. i # {} /\ \A y \in 1 .. i : y <= i
  OBVIOUS
<1>2. Max(1 .. i) \in 1 .. i /\ \A y \in 1 .. i : y <= Max(1 .. i)
  BY <1>1, MaxFacts, Zenon
<1>. QED BY <1>1, <1>2

\* Recursion over the subsets of 1..n from the greatest element down: what
\* MapThenFoldSet computes when FoldLeft calls it.
IsMaxRecursion(g, n, base, step) ==
  \A s \in SUBSET (1 .. n) :
    g[s] = IF s = {} THEN base ELSE step[<<g[s \ {Max(s)}], Max(s)>>]

\* A recursion that takes the greatest element off first has a solution.
LEMMA MaxRecursion ==
  ASSUME NEW n \in Nat, NEW R, NEW base \in R, NEW step \in [R \X (1 .. n) -> R]
  PROVE  \E g \in [SUBSET (1 .. n) -> R] : IsMaxRecursion(g, n, base, step)
<1>. USE DEF IsMaxRecursion
<1>. DEFINE Works(g, k) == IsMaxRecursion(g, k, base, step)
            Exists(k) == \E g \in [SUBSET (1 .. k) -> R] : Works(g, k)
            Done == {k \in Nat : k <= n => Exists(k)}
<1>1. Exists(0)
  <2>1. SUBSET (1 .. 0) = {{}}
    OBVIOUS
  <2>2. [s \in SUBSET (1 .. 0) |-> base] \in [SUBSET (1 .. 0) -> R]
    OBVIOUS
  <2>3. Works([s \in SUBSET (1 .. 0) |-> base], 0)
    BY <2>1
  <2>. HIDE DEF Works
  <2>. QED BY <2>2, <2>3
<1>2. ASSUME NEW k \in Nat, k + 1 <= n, Exists(k) PROVE Exists(k + 1)
  <2>1. PICK g \in [SUBSET (1 .. k) -> R] : Works(g, k)
    BY <1>2
  <2>2. \A s \in SUBSET (1 .. (k + 1)) : s \ {k + 1} \in SUBSET (1 .. k)
    OBVIOUS
  <2>3. \A s \in SUBSET (1 .. (k + 1)) : k + 1 \notin s => s \in SUBSET (1 .. k)
    OBVIOUS
  <2>. DEFINE h == [s \in SUBSET (1 .. (k + 1)) |->
                      IF k + 1 \in s THEN step[<<g[s \ {k + 1}], k + 1>>] ELSE g[s]]
  <2>4. h \in [SUBSET (1 .. (k + 1)) -> R]
    BY <1>2, <2>2, <2>3
  <2>5. ASSUME NEW s \in SUBSET (1 .. (k + 1))
        PROVE  h[s] = IF s = {} THEN base ELSE step[<<h[s \ {Max(s)}], Max(s)>>]
    <3>1. CASE k + 1 \in s
      <4>1. k + 1 \in Nat /\ s \subseteq 1 .. (k + 1) /\ s # {}
        BY <3>1
      <4>2. Max(s) \in s /\ \A y \in s : y <= Max(s)
        BY <4>1, MaxFacts, Zenon
      <4>3. Max(s) \in 1 .. (k + 1) /\ k + 1 <= Max(s)
        BY <3>1, <4>2
      <4>4. Max(s) = k + 1
        BY <4>3
      <4>5. s \ {k + 1} \in SUBSET (1 .. (k + 1)) /\ k + 1 \notin s \ {k + 1}
        OBVIOUS
      <4>6. h[s \ {k + 1}] = g[s \ {k + 1}] /\ h[s] = step[<<g[s \ {k + 1}], k + 1>>]
        BY <3>1, <4>5
      <4>. HIDE DEF h
      <4>. QED BY <4>1, <4>4, <4>6
    <3>2. CASE k + 1 \notin s
      <4>1. s \in SUBSET (1 .. k) /\ h[s] = g[s]
        BY <2>3, <3>2
      <4>2. s \ {Max(s)} \in SUBSET (1 .. (k + 1)) /\ k + 1 \notin s \ {Max(s)}
        BY <3>2
      <4>3. h[s \ {Max(s)}] = g[s \ {Max(s)}]
        BY <4>2
      <4>. HIDE DEF h
      <4>. QED BY <2>1, <4>1, <4>3
    <3>. QED BY <3>1, <3>2
  <2>6. Works(h, k + 1)
    BY <2>5
  <2>. HIDE DEF Works, h
  <2>. QED BY <2>4, <2>6
<1>. HIDE DEF Exists
<1>3. 0 \in Done
  BY <1>1
<1>4. ASSUME NEW k \in Nat, k \in Done PROVE k + 1 \in Done
  BY <1>2, <1>4
<1>5. n \in Done
  <2>. HIDE DEF Done
  <2>. QED BY <1>3, <1>4, NatSetInduction
<1>6. Exists(n)
  BY <1>5
<1>. QED BY <1>6 DEF Exists

-----------------------------------------------------------------------------
(* Sums.  A running sum of v[1], ..., v[n]; the folds that add up the       *)
(* entries of a sequence are shown to return its last value.                *)

IsRunningSum(r, v, n) ==
  /\ r \in [0 .. n -> Int] /\ r[0] = 0
  /\ \A i \in 1 .. n : r[i] = r[i - 1] + v[i]
SumOf(v, n) == (CHOOSE r : IsRunningSum(r, v, n))[n]

\* Every row of integers has its running sums.
LEMMA RunningSumExists ==
  ASSUME NEW n \in Nat, NEW v \in [1 .. n -> Int]
  PROVE  \E r : IsRunningSum(r, v, n)
<1>. DEFINE Done == {k \in Nat : k <= n => \E r : IsRunningSum(r, v, k)}
<1>1. IsRunningSum([i \in 0 .. 0 |-> 0], v, 0)
  BY DEF IsRunningSum
<1>2. ASSUME NEW k \in Nat, k + 1 <= n, NEW r, IsRunningSum(r, v, k)
      PROVE  \E q : IsRunningSum(q, v, k + 1)
  <2>. DEFINE q == [i \in 0 .. (k + 1) |-> IF i = k + 1 THEN r[k] + v[k + 1] ELSE r[i]]
  <2>1. r \in [0 .. k -> Int] /\ r[0] = 0 /\ \A i \in 1 .. k : r[i] = r[i - 1] + v[i]
    BY <1>2 DEF IsRunningSum
  <2>2. r[k] \in Int /\ v[k + 1] \in Int
    BY <1>2, <2>1
  <2>3. q \in [0 .. (k + 1) -> Int] /\ q[0] = 0
    BY <2>1, <2>2
  <2>4. ASSUME NEW i \in 1 .. (k + 1) PROVE q[i] = q[i - 1] + v[i]
    <3>1. CASE i = k + 1
      BY <3>1
    <3>2. CASE i # k + 1
      <4>1. i \in 1 .. k /\ i - 1 \in 0 .. k /\ i \in 0 .. (k + 1) /\ i - 1 \in 0 .. (k + 1)
        BY <3>2
      <4>. QED BY <2>1, <4>1, <3>2
    <3>. QED BY <3>1, <3>2
  <2>5. IsRunningSum(q, v, k + 1)
    BY <2>3, <2>4 DEF IsRunningSum
  <2>. QED BY <2>5
<1>3. 0 \in Done
  BY <1>1
<1>4. ASSUME NEW k \in Nat, k \in Done PROVE k + 1 \in Done
  BY <1>2, <1>4
<1>5. n \in Done
  <2>. HIDE DEF Done
  <2>. QED BY <1>3, <1>4, NatSetInduction
<1>. QED BY <1>5

\* The running sums of a row are determined.
LEMMA RunningSumUnique ==
  ASSUME NEW n \in Nat, NEW v \in [1 .. n -> Int], NEW r, IsRunningSum(r, v, n),
         NEW q, IsRunningSum(q, v, n)
  PROVE  \A i \in 0 .. n : r[i] = q[i]
<1>. DEFINE Done == {k \in Nat : k <= n => r[k] = q[k]}
<1>1. 0 \in Done
  BY DEF IsRunningSum
<1>2. ASSUME NEW k \in Nat, k \in Done PROVE k + 1 \in Done
  <2>1. ASSUME k + 1 <= n PROVE r[k + 1] = q[k + 1]
    <3>1. k + 1 \in 1 .. n /\ (k + 1) - 1 = k /\ r[k] = q[k]
      BY <1>2, <2>1
    <3>. QED BY <3>1 DEF IsRunningSum
  <2>. QED BY <2>1
<1>3. Nat \subseteq Done
  <2>. HIDE DEF Done
  <2>. QED BY <1>1, <1>2, NatSetInduction
<1>. QED BY <1>3

\* The sum of a row is the last of its running sums.
LEMMA SumIsLast ==
  ASSUME NEW n \in Nat, NEW v \in [1 .. n -> Int], NEW r, IsRunningSum(r, v, n)
  PROVE  SumOf(v, n) = r[n] /\ SumOf(v, n) \in Int
<1>. DEFINE q == CHOOSE q : IsRunningSum(q, v, n)
<1>1. IsRunningSum(q, v, n)
  <2>. HIDE DEF IsRunningSum
  <2>. QED OBVIOUS
<1>. HIDE DEF q
<1>2. q[n] = r[n]
  BY <1>1, RunningSumUnique
<1>3. r[n] \in Int
  BY DEF IsRunningSum
<1>4. SumOf(v, n) = q[n]
  BY DEF SumOf, q
<1>. QED BY <1>2, <1>3, <1>4

\* The sum of a row with one more at its end.
LEMMA SumFirst ==
  ASSUME NEW n \in Nat, NEW v \in [1 .. n -> Int], NEW w \in [1 .. (n + 1) -> Int],
         \A i \in 1 .. n : w[i] = v[i]
  PROVE  /\ SumOf(v, n) \in Int
         /\ SumOf(w, n + 1) = SumOf(v, n) + w[n + 1]
<1>1. PICK r : IsRunningSum(r, w, n + 1)
  BY RunningSumExists
<1>2. IsRunningSum([i \in 0 .. n |-> r[i]], v, n)
  <2>1. \A i \in 1 .. n : i \in 1 .. (n + 1) /\ i - 1 \in 0 .. n /\ i \in 0 .. n
    OBVIOUS
  <2>. QED BY <1>1, <2>1 DEF IsRunningSum
<1>3. SumOf(v, n) = r[n] /\ SumOf(v, n) \in Int
  BY <1>2, SumIsLast
<1>4. SumOf(w, n + 1) = r[n + 1]
  BY <1>1, SumIsLast
<1>5. r[n + 1] = r[n] + w[n + 1]
  <2>1. n + 1 \in 1 .. (n + 1) /\ (n + 1) - 1 = n
    OBVIOUS
  <2>. QED BY <1>1, <2>1 DEF IsRunningSum
<1>. QED BY <1>3, <1>4, <1>5

\* The sum of a row with one more before it.
LEMMA SumRest ==
  ASSUME NEW n \in Nat, NEW v \in [1 .. n -> Int], NEW w \in [1 .. (n + 1) -> Int],
         \A i \in 1 .. n : w[i + 1] = v[i]
  PROVE  SumOf(w, n + 1) = w[1] + SumOf(v, n)
<1>1. PICK r : IsRunningSum(r, w, n + 1)
  BY RunningSumExists
<1>. DEFINE q == [i \in 0 .. n |-> r[i + 1] - w[1]]
<1>2. IsRunningSum(q, v, n)
  <2>1. r \in [0 .. (n + 1) -> Int] /\ r[0] = 0 /\ \A i \in 1 .. (n + 1) : r[i] = r[i - 1] + w[i]
    BY <1>1 DEF IsRunningSum
  <2>2. w[1] \in Int /\ r[1] = w[1]
    BY <2>1
  <2>3. q \in [0 .. n -> Int] /\ q[0] = 0
    BY <2>1, <2>2
  <2>4. ASSUME NEW i \in 1 .. n PROVE q[i] = q[i - 1] + v[i]
    <3>1. i + 1 \in 1 .. (n + 1) /\ (i + 1) - 1 = i /\ i \in 0 .. n /\ i - 1 \in 0 .. n
          /\ (i - 1) + 1 = i
      OBVIOUS
    <3>2. r[i + 1] = r[i] + v[i]
      BY <2>1, <3>1
    <3>3. r[i] \in Int /\ v[i] \in Int
      BY <2>1, <3>1
    <3>4. q[i] = r[i + 1] - w[1] /\ q[i - 1] = r[i] - w[1]
      BY <3>1
    <3>. QED BY <2>2, <3>2, <3>3, <3>4
  <2>. QED BY <2>3, <2>4 DEF IsRunningSum
<1>3. SumOf(v, n) = q[n]
  BY <1>2, SumIsLast
<1>4. SumOf(w, n + 1) = r[n + 1] /\ r[n + 1] \in Int
  <2>. HIDE DEF q
  <2>. QED BY <1>1, SumIsLast
<1>5. q[n] = r[n + 1] - w[1] /\ w[1] \in Int
  OBVIOUS
<1>. QED BY <1>3, <1>4, <1>5

\* The sum of a row of which one term has changed.
LEMMA SumChange ==
  ASSUME NEW n \in Nat, NEW v \in [1 .. n -> Int], NEW w \in [1 .. n -> Int], NEW k \in 1 .. n,
         \A i \in 1 .. n : i # k => w[i] = v[i]
  PROVE  SumOf(w, n) = SumOf(v, n) + (w[k] - v[k])
<1>1. PICK r : IsRunningSum(r, v, n)
  BY RunningSumExists
<1>. DEFINE q == [i \in 0 .. n |-> IF i < k THEN r[i] ELSE r[i] + (w[k] - v[k])]
<1>2. r \in [0 .. n -> Int] /\ r[0] = 0 /\ \A i \in 1 .. n : r[i] = r[i - 1] + v[i]
  BY <1>1 DEF IsRunningSum
<1>3. v[k] \in Int /\ w[k] \in Int
  OBVIOUS
<1>4. IsRunningSum(q, w, n)
  <2>1. q \in [0 .. n -> Int] /\ q[0] = 0
    BY <1>2, <1>3
  <2>2. ASSUME NEW i \in 1 .. n PROVE q[i] = q[i - 1] + w[i]
    <3>1. i \in 0 .. n /\ i - 1 \in 0 .. n /\ r[i - 1] \in Int /\ v[i] \in Int /\ w[i] \in Int
      BY <1>2
    <3>2. r[i] = r[i - 1] + v[i]
      BY <1>2
    <3>3. CASE i < k
      BY <3>1, <3>2, <3>3
    <3>4. CASE i = k
      BY <1>3, <3>1, <3>2, <3>4
    <3>5. CASE i > k
      BY <1>3, <3>1, <3>2, <3>5
    <3>. QED BY <3>3, <3>4, <3>5
  <2>. QED BY <2>1, <2>2 DEF IsRunningSum
<1>5. SumOf(w, n) = q[n] /\ SumOf(v, n) = r[n]
  BY <1>1, <1>4, SumIsLast
<1>. QED BY <1>5

\* Equal rows have equal sums.
LEMMA SumSame ==
  ASSUME NEW n \in Nat, NEW v \in [1 .. n -> Int], NEW w \in [1 .. n -> Int],
         \A i \in 1 .. n : w[i] = v[i]
  PROVE  SumOf(w, n) = SumOf(v, n)
<1>1. w = v
  OBVIOUS
<1>. QED BY <1>1

\* The sum of nothing.
LEMMA SumOfNone ==
  ASSUME NEW v \in [1 .. 0 -> Int]
  PROVE  SumOf(v, 0) = 0
<1>1. IsRunningSum([i \in 0 .. 0 |-> 0], v, 0)
  BY DEF IsRunningSum
<1>. QED BY <1>1, SumIsLast

\* The sum of n equal terms.
LEMMA SumOfConstant ==
  ASSUME NEW n \in Nat, NEW c \in Int
  PROVE  SumOf([i \in 1 .. n |-> c], n) = n * c
<1>. DEFINE v == [i \in 1 .. n |-> c]
            r == [i \in 0 .. n |-> i * c]
<1>1. v \in [1 .. n -> Int] /\ r \in [0 .. n -> Int] /\ r[0] = 0
  OBVIOUS
<1>2. ASSUME NEW i \in 1 .. n PROVE r[i] = r[i - 1] + v[i]
  <2>1. i \in 0 .. n /\ i - 1 \in 0 .. n
    OBVIOUS
  <2>2. i * c = (i - 1) * c + c
    OBVIOUS
  <2>. QED BY <2>1, <2>2
<1>3. IsRunningSum(r, v, n)
  BY <1>1, <1>2 DEF IsRunningSum
<1>4. r[n] = n * c
  OBVIOUS
<1>. HIDE DEF v, r
<1>5. SumOf(v, n) = n * c
  BY <1>1, <1>3, <1>4, SumIsLast
<1>. QED BY <1>5 DEF v

\* The recursion of a fold that adds up v.
IsAdding(f, v, n) ==
  f = [s \in SUBSET (1 .. n) |-> IF s = {} THEN 0 ELSE f[s \ {Max(s)}] + v[Max(s)]]

\* What it returns for the whole sequence.
LEMMA FoldIsSum ==
  ASSUME NEW n \in Nat, NEW v \in [1 .. n -> Int], NEW f, IsAdding(f, v, n)
  PROVE  f[1 .. n] = SumOf(v, n)
<1>1. f[1 .. 0] = 0
  <2>1. 1 .. 0 = {} /\ 1 .. 0 \in SUBSET (1 .. n)
    OBVIOUS
  <2>. QED BY <2>1 DEF IsAdding
<1>2. ASSUME NEW i \in 1 .. n PROVE f[1 .. i] = f[1 .. (i - 1)] + v[i]
  <2>1. Max(1 .. i) = i /\ (1 .. i) \ {i} = 1 .. (i - 1)
    BY MaxOfInterval
  <2>2. 1 .. i \in SUBSET (1 .. n) /\ i \in 1 .. i
    OBVIOUS
  <2>3. f[1 .. i] = f[(1 .. i) \ {Max(1 .. i)}] + v[Max(1 .. i)]
    BY <2>2 DEF IsAdding
  <2>. QED BY <2>1, <2>3
<1>3. PICK r : IsRunningSum(r, v, n)
  BY RunningSumExists
<1>. DEFINE Done == {k \in Nat : k <= n => f[1 .. k] = r[k]}
<1>4. 0 \in Done
  BY <1>1, <1>3 DEF IsRunningSum
<1>5. ASSUME NEW k \in Nat, k \in Done PROVE k + 1 \in Done
  <2>1. ASSUME k + 1 <= n PROVE f[1 .. (k + 1)] = r[k + 1]
    <3>1. k + 1 \in 1 .. n /\ (k + 1) - 1 = k /\ f[1 .. k] = r[k]
      BY <1>5, <2>1
    <3>. QED BY <1>2, <1>3, <3>1 DEF IsRunningSum
  <2>. QED BY <2>1
<1>6. Nat \subseteq Done
  <2>. HIDE DEF Done
  <2>. QED BY <1>4, <1>5, NatSetInduction
<1>7. f[1 .. n] = r[n]
  BY <1>6
<1>. QED BY <1>3, <1>7, SumIsLast

\* Such a recursion has a solution, so the one CHOOSE takes is one.
LEMMA AddingRecursion ==
  ASSUME NEW n \in Nat, NEW v \in [1 .. n -> Int]
  PROVE  \E f : IsAdding(f, v, n)
<1>. DEFINE step == [p \in Int \X (1 .. n) |-> p[1] + v[p[2]]]
<1>1. step \in [Int \X (1 .. n) -> Int] /\ 0 \in Int
  OBVIOUS
<1>2. \A a \in Int, i \in 1 .. n : step[<<a, i>>] = a + v[i]
  OBVIOUS
<1>. HIDE DEF step
<1>3. PICK g \in [SUBSET (1 .. n) -> Int] : IsMaxRecursion(g, n, 0, step)
  BY <1>1, MaxRecursion, Zenon
<1>4. ASSUME NEW s \in SUBSET (1 .. n), s # {}
      PROVE  g[s] = g[s \ {Max(s)}] + v[Max(s)]
  <2>1. Max(s) \in s
    BY <1>4, MaxFacts
  <2>2. Max(s) \in 1 .. n /\ g[s \ {Max(s)}] \in Int
    BY <2>1
  <2>3. g[s] = step[<<g[s \ {Max(s)}], Max(s)>>]
    BY <1>3, <1>4 DEF IsMaxRecursion
  <2>. QED BY <1>2, <2>2, <2>3
<1>5. g[{}] = 0
  BY <1>3 DEF IsMaxRecursion
<1>6. IsAdding(g, v, n)
  BY <1>4, <1>5 DEF IsAdding
<1>. QED BY <1>6
=============================================================================
