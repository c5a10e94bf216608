------------------------- MODULE PrefixSumsTheorems -------------------------
(***************************************************************************)
(* Facts about PrefixSum: its defining equations, what changing, removing  *)
(* or appending one summand does to it, and that a sum of naturals bounds  *)
(* each of them.  Induction is used in the form of a set of naturals that  *)
(* contains 0 and is closed under successor.                               *)
(***************************************************************************)
EXTENDS PrefixSums, TLAPS, WellFoundedInduction

\* Every nonempty set of naturals has a least element.
LEMMA LeastNatural ==
    ASSUME NEW T, T \subseteq Nat, T # {}
    PROVE  \E x \in T : \A y \in T : x <= y
<1>1. IsWellFoundedOn(OpToRel(<, Nat), Nat)
  BY NatLessThanWellFounded
<1>2. PICK x \in T : \A y \in T : ~(<<y, x>> \in OpToRel(<, Nat))
  BY <1>1, WFMin
<1>3. \A y \in T : ~(y < x)
  BY <1>2 DEF OpToRel
<1> QED
  BY <1>3

\* Induction over the naturals, the induction hypothesis being a set.
LEMMA SetInduction ==
    ASSUME NEW S, 0 \in S, \A n \in Nat : n \in S => n + 1 \in S
    PROVE  Nat \subseteq S
<1> DEFINE T == Nat \ S
<1> SUFFICES ASSUME T # {} PROVE FALSE
  OBVIOUS
<1>1. PICK x \in T : \A y \in T : x <= y
  BY LeastNatural
<1>2. x # 0 /\ x - 1 \in Nat
  BY <1>1
<1>3. x - 1 \in S
  BY <1>1, <1>2
<1> QED
  BY <1>1, <1>2, <1>3

\* The function a PrefixSum is computed with, for each of the prefixes.
Running(g, f, n) ==
    /\ g \in [0..n -> Int]
    /\ g[0] = 0
    /\ \A i \in 1..n : g[i] = g[i - 1] + f[i]

LEMMA RunningExists ==
    ASSUME NEW n \in Nat, NEW f, \A i \in 1..n : f[i] \in Int
    PROVE  \E g : Running(g, f, n)
<1> DEFINE S == {m \in Nat : m <= n => \E g : Running(g, f, m)}
<1>1. 0 \in S
  <2>1. Running([i \in 0..0 |-> 0], f, 0)
    BY DEF Running
  <2> QED
    BY <2>1
<1>2. ASSUME NEW m \in Nat, m \in S PROVE m + 1 \in S
  <2> SUFFICES ASSUME m + 1 <= n PROVE \E g : Running(g, f, m + 1)
    OBVIOUS
  <2>1. PICK g : Running(g, f, m)
    BY <1>2
  <2> DEFINE h == [i \in 0..(m + 1) |-> IF i <= m THEN g[i] ELSE g[m] + f[m + 1]]
  <2>2. f[m + 1] \in Int /\ g[m] \in Int
    BY <2>1 DEF Running
  <2>3. h \in [0..(m + 1) -> Int]
    BY <2>1, <2>2 DEF Running
  <2>4. h[0] = 0
    BY <2>1 DEF Running
  <2>5. ASSUME NEW i \in 1..(m + 1) PROVE h[i] = h[i - 1] + f[i]
    <3>1. CASE i <= m
      BY <2>1, <3>1 DEF Running
    <3>2. CASE i = m + 1
      BY <2>1, <3>2 DEF Running
    <3> QED
      BY <3>1, <3>2
  <2> HIDE DEF h
  <2>6. Running(h, f, m + 1)
    BY <2>3, <2>4, <2>5 DEF Running
  <2> QED
    BY <2>6
<1>3. n \in S
  <2> HIDE DEF S
  <2> QED
    BY <1>1, <1>2, SetInduction
<1> QED
  BY <1>3

\* Two running sums of summands that agree are equal.
LEMMA RunningUnique ==
    ASSUME NEW n \in Nat, NEW f, NEW e, NEW g, NEW h,
           g[0] = 0, \A i \in 1..n : g[i] = g[i - 1] + f[i],
           h[0] = 0, \A i \in 1..n : h[i] = h[i - 1] + e[i],
           \A i \in 1..n : f[i] = e[i]
    PROVE  \A i \in 0..n : g[i] = h[i]
<1> DEFINE S == {m \in Nat : m <= n => g[m] = h[m]}
<1>1. 0 \in S
  OBVIOUS
<1>2. ASSUME NEW m \in Nat, m \in S PROVE m + 1 \in S
  <2> SUFFICES ASSUME m + 1 <= n PROVE g[m + 1] = h[m + 1]
    OBVIOUS
  <2>1. m + 1 \in 1..n /\ (m + 1) - 1 = m /\ g[m] = h[m]
    BY <1>2
  <2> QED
    BY <2>1
<1>3. Nat \subseteq S
  <2> HIDE DEF S
  <2> QED
    BY <1>1, <1>2, SetInduction
<1> QED
  BY <1>3

\* PrefixSum is the value of any running sum at n.
LEMMA PrefixSumIsRunning ==
    ASSUME NEW n \in Nat, NEW f, NEW g, Running(g, f, n)
    PROVE  PrefixSum(f, n) = g[n]
<1> DEFINE Body(s) == [i \in 0..n |-> IF i = 0 THEN 0 ELSE s[i - 1] + f[i]]
           sum == CHOOSE s : s = Body(s)
<1>1. g = Body(g)
  BY DEF Running
<1>2. sum = Body(sum)
  <2> HIDE DEF Body
  <2> QED
    BY <1>1
<1>3. PrefixSum(f, n) = sum[n]
  BY DEF PrefixSum
<1> HIDE DEF sum
<1>4. sum[0] = 0 /\ \A i \in 1..n : sum[i] = sum[i - 1] + f[i]
  BY <1>2
<1>5. \A i \in 0..n : sum[i] = g[i]
  <2>1. g[0] = 0 /\ \A i \in 1..n : g[i] = g[i - 1] + f[i]
    BY DEF Running
  <2> HIDE DEF Body
  <2> QED
    BY ONLY n \in Nat, <1>4, <2>1, RunningUnique
<1> QED
  BY <1>3, <1>5

\* The sum of integers is an integer.
LEMMA PrefixSumInt ==
    ASSUME NEW n \in Nat, NEW f, \A i \in 1..n : f[i] \in Int
    PROVE  PrefixSum(f, n) \in Int
<1>1. PICK g : Running(g, f, n)
  BY RunningExists
<1> QED
  BY <1>1, PrefixSumIsRunning DEF Running

\* Summands that agree have the same sum.
LEMMA PrefixSumEqual ==
    ASSUME NEW n \in Nat, NEW f, NEW e,
           \A i \in 1..n : f[i] \in Int, \A i \in 1..n : e[i] = f[i]
    PROVE  PrefixSum(e, n) = PrefixSum(f, n)
<1>1. PICK g : Running(g, f, n)
  BY RunningExists
<1>2. Running(g, e, n)
  BY <1>1 DEF Running
<1> QED
  BY <1>1, <1>2, PrefixSumIsRunning

\* The empty sum.
LEMMA PrefixSumZero ==
    ASSUME NEW f PROVE PrefixSum(f, 0) = 0
<1>1. Running([i \in 0..0 |-> 0], f, 0)
  BY DEF Running
<1> QED
  BY <1>1, PrefixSumIsRunning

\* A sum is the sum without its last summand, and the last summand.
LEMMA PrefixSumAppend ==
    ASSUME NEW n \in Nat, NEW f, \A i \in 1..(n + 1) : f[i] \in Int
    PROVE  PrefixSum(f, n + 1) = PrefixSum(f, n) + f[n + 1]
<1>1. PICK g : Running(g, f, n + 1)
  BY RunningExists
<1> DEFINE h == [i \in 0..n |-> g[i]]
<1>2. Running(h, f, n)
  BY <1>1 DEF Running
<1>3. PrefixSum(f, n) = h[n] /\ PrefixSum(f, n + 1) = g[n + 1]
  <2> HIDE DEF h
  <2> QED
    BY <1>1, <1>2, PrefixSumIsRunning
<1> QED
  BY <1>1, <1>3 DEF Running

\* Changing one summand changes the sum by the difference.
LEMMA PrefixSumUpdate ==
    ASSUME NEW n \in Nat, NEW f, NEW e, NEW j \in 1..n,
           \A i \in 1..n : f[i] \in Int,
           \A i \in 1..n : i # j => e[i] = f[i], e[j] \in Int
    PROVE  PrefixSum(e, n) = PrefixSum(f, n) + (e[j] - f[j])
<1>1. PICK g : Running(g, f, n)
  BY RunningExists
<1> DEFINE h == [i \in 0..n |-> IF i < j THEN g[i] ELSE g[i] + (e[j] - f[j])]
<1>2. h \in [0..n -> Int] /\ h[0] = 0
  BY <1>1 DEF Running
<1>3. ASSUME NEW i \in 1..n PROVE h[i] = h[i - 1] + e[i]
  <2>0. /\ g[i] = g[i - 1] + f[i]
        /\ g[i] \in Int /\ g[i - 1] \in Int /\ f[i] \in Int /\ f[j] \in Int
        /\ i - 1 \in 0..n
    BY <1>1 DEF Running
  <2>1. CASE i < j
    BY <2>0, <2>1
  <2>2. CASE i = j
    BY <2>0, <2>2
  <2>3. CASE i > j
    BY <2>0, <2>3
  <2> QED
    BY <2>1, <2>2, <2>3
<1> HIDE DEF h
<1>4. Running(h, e, n)
  BY <1>2, <1>3 DEF Running
<1>5. PrefixSum(e, n) = h[n] /\ PrefixSum(f, n) = g[n]
  BY <1>1, <1>4, PrefixSumIsRunning
<1> QED
  BY <1>5 DEF h

\* Removing one summand, the later ones moving up.
LEMMA PrefixSumRemove ==
    ASSUME NEW n \in Nat, NEW f, NEW e, NEW j \in 1..(n + 1),
           \A i \in 1..(n + 1) : f[i] \in Int,
           \A i \in 1..n : e[i] = IF i < j THEN f[i] ELSE f[i + 1]
    PROVE  PrefixSum(e, n) = PrefixSum(f, n + 1) - f[j]
<1>1. PICK g : Running(g, f, n + 1)
  BY RunningExists
<1> DEFINE h == [i \in 0..n |-> IF i < j THEN g[i] ELSE g[i + 1] - f[j]]
<1>2. h \in [0..n -> Int] /\ h[0] = 0
  <2>1. ASSUME NEW i \in 0..n PROVE h[i] \in Int
    <3>1. g[i] \in Int /\ g[i + 1] \in Int /\ f[j] \in Int
      BY <1>1 DEF Running
    <3> QED
      BY <3>1
  <2>2. h[0] = 0
    BY <1>1 DEF Running
  <2> QED
    BY <2>1, <2>2
<1>3. ASSUME NEW i \in 1..n PROVE h[i] = h[i - 1] + e[i]
  <2>0. /\ g[i] = g[i - 1] + f[i] /\ g[i + 1] = g[i] + f[i + 1]
        /\ g[i] \in Int /\ g[i - 1] \in Int /\ g[i + 1] \in Int
        /\ f[i] \in Int /\ f[i + 1] \in Int /\ f[j] \in Int
        /\ i - 1 \in 0..n
    BY <1>1 DEF Running
  <2>1. CASE i < j
    BY <2>0, <2>1
  <2>2. CASE i = j
    BY <2>0, <2>2
  <2>3. CASE i > j
    BY <2>0, <2>3
  <2> QED
    BY <2>1, <2>2, <2>3
<1> HIDE DEF h
<1>4. Running(h, e, n)
  BY <1>2, <1>3 DEF Running
<1>5. PrefixSum(e, n) = h[n] /\ PrefixSum(f, n + 1) = g[n + 1]
  BY <1>1, <1>4, PrefixSumIsRunning
<1>6. h[n] = g[n + 1] - f[j]
  BY <1>1 DEF h, Running
<1> QED
  BY <1>5, <1>6

\* A sum of naturals is a natural at least as large as each summand.
LEMMA PrefixSumBounds ==
    ASSUME NEW n \in Nat, NEW f, \A i \in 1..n : f[i] \in Nat
    PROVE  /\ PrefixSum(f, n) \in Nat
           /\ \A j \in 1..n : f[j] <= PrefixSum(f, n)
<1>1. PICK g : Running(g, f, n)
  BY RunningExists
<1> DEFINE S == {m \in Nat : m <= n => /\ g[m] \in Nat
                                       /\ \A j \in 1..m : f[j] <= g[m]}
<1>2. 0 \in S
  BY <1>1 DEF Running
<1>3. ASSUME NEW m \in Nat, m \in S PROVE m + 1 \in S
  <2> SUFFICES ASSUME m + 1 <= n
               PROVE  /\ g[m + 1] \in Nat
                      /\ \A j \in 1..(m + 1) : f[j] <= g[m + 1]
    OBVIOUS
  <2>1. /\ g[m] \in Nat /\ \A j \in 1..m : f[j] \in Nat /\ f[j] <= g[m]
        /\ g[m + 1] = g[m] + f[m + 1] /\ f[m + 1] \in Nat
    BY <1>1, <1>3 DEF Running
  <2> QED
    BY <2>1
<1>4. n \in S
  <2> HIDE DEF S
  <2> QED
    BY <1>2, <1>3, SetInduction
<1>5. PrefixSum(f, n) = g[n]
  BY <1>1, PrefixSumIsRunning
<1> QED
  BY <1>4, <1>5

\* A running sum is one of its first summands, too.
LEMMA RunningPrefix ==
    ASSUME NEW n \in Nat, NEW f, NEW g, Running(g, f, n), NEW m \in 0..n
    PROVE  PrefixSum(f, m) = g[m]
<1> DEFINE h == [i \in 0..m |-> g[i]]
<1>1. Running(h, f, m)
  BY DEF Running
<1>2. PrefixSum(f, m) = h[m]
  <2> HIDE DEF h
  <2> QED
    BY <1>1, PrefixSumIsRunning
<1> QED
  BY <1>2

\* The first m summands and the others, moved to the front.
LEMMA PrefixSumShift ==
    ASSUME NEW n \in Nat, NEW f, NEW e, NEW m \in 0..n,
           \A i \in 1..n : f[i] \in Int,
           \A i \in 1..(n - m) : e[i] = f[i + m]
    PROVE  PrefixSum(f, n) = PrefixSum(f, m) + PrefixSum(e, n - m)
<1>1. PICK g : Running(g, f, n)
  BY RunningExists
<1> DEFINE h == [i \in 0..(n - m) |-> g[i + m] - g[m]]
<1>2. \A i \in 0..n : g[i] \in Int
  BY <1>1 DEF Running
<1>3. h \in [0..(n - m) -> Int] /\ h[0] = 0
  BY <1>2
<1>4. ASSUME NEW i \in 1..(n - m) PROVE h[i] = h[i - 1] + e[i]
  <2>1. i + m \in 1..n /\ (i + m) - 1 = (i - 1) + m /\ i - 1 \in 0..(n - m)
    OBVIOUS
  <2>2. g[i + m] = g[(i - 1) + m] + f[i + m] /\ f[i + m] \in Int
    BY <1>1, <2>1 DEF Running
  <2>3. g[i + m] \in Int /\ g[(i - 1) + m] \in Int /\ g[m] \in Int
    BY <1>2, <2>1
  <2> QED
    BY <2>1, <2>2, <2>3
<1>5. PrefixSum(e, n - m) = h[n - m]
  <2> HIDE DEF h
  <2>1. Running(h, e, n - m)
    BY <1>3, <1>4 DEF Running
  <2> QED
    BY <2>1, PrefixSumIsRunning
<1>6. PrefixSum(f, n) = g[n] /\ PrefixSum(f, m) = g[m]
  BY <1>1, RunningPrefix
<1> QED
  BY <1>2, <1>5, <1>6

\* The first m summands and the others, in their places.
LEMMA PrefixSumSplit ==
    ASSUME NEW n \in Nat, NEW f, NEW e, NEW m \in 0..n,
           \A i \in 1..n : f[i] \in Int,
           \A i \in 1..n : e[i] = IF i <= m THEN 0 ELSE f[i]
    PROVE  PrefixSum(f, n) = PrefixSum(f, m) + PrefixSum(e, n)
<1>1. PICK g : Running(g, f, n)
  BY RunningExists
<1> DEFINE h == [i \in 0..n |-> IF i <= m THEN 0 ELSE g[i] - g[m]]
<1>2. \A i \in 0..n : g[i] \in Int
  BY <1>1 DEF Running
<1>3. h \in [0..n -> Int] /\ h[0] = 0
  BY <1>2
<1>4. ASSUME NEW i \in 1..n PROVE h[i] = h[i - 1] + e[i]
  <2>1. /\ g[i] = g[i - 1] + f[i] /\ f[i] \in Int /\ i - 1 \in 0..n
        /\ g[i] \in Int /\ g[i - 1] \in Int /\ g[m] \in Int
    BY <1>1, <1>2 DEF Running
  <2>2. CASE i <= m
    BY <2>1, <2>2
  <2>3. CASE i = m + 1
    BY <2>1, <2>3
  <2>4. CASE i > m + 1
    BY <2>1, <2>4
  <2> QED
    BY <2>2, <2>3, <2>4
<1>5. PrefixSum(e, n) = h[n]
  <2> HIDE DEF h
  <2>1. Running(h, e, n)
    BY <1>3, <1>4 DEF Running
  <2> QED
    BY <2>1, PrefixSumIsRunning
<1>6. PrefixSum(f, n) = g[n] /\ PrefixSum(f, m) = g[m]
  BY <1>1, RunningPrefix
<1>7. h[n] = g[n] - g[m]
  BY <1>2
<1> QED
  BY <1>2, <1>5, <1>6, <1>7

=============================================================================
