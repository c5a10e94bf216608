----------------------- MODULE StatsCollectionProofs -----------------------
(***************************************************************************)
(* The invariants of StatsCollection hold for every value of the constants.*)
(* IInv is inductive: the sections below prove it of Init, of the steps    *)
(* that only change the current period, of the requests that take the      *)
(* write lock, of one iteration of a purge and of the ends of the purges;  *)
(* the last section draws the theorems from it.  What a purge does to      *)
(* Totals and to Duration rests on what removing, replacing or appending   *)
(* a summand does to a sum (PrefixSumsTheorems).                           *)
(***************************************************************************)
EXTENDS StatsCollection, PrefixSumsTheorems, SequenceTheorems

\* Durations are natural numbers.
LEMMA TruncateNat ==
    ASSUME NEW t \in Nat PROVE Truncate(t) \in Nat
<1>1. TicksPerMinute \in Nat /\ TicksPerMinute > 0
  BY StatsAssumption
<1>2. t % TicksPerMinute \in Nat /\ t % TicksPerMinute <= t
  BY <1>1
<1> QED
  BY <1>2 DEF Truncate

\* What RemoveAt returns.
LEMMA RemoveAtProperties ==
    ASSUME NEW S, NEW seq \in Seq(S), NEW i \in 1..Len(seq)
    PROVE  /\ RemoveAt(seq, i) \in Seq(S)
           /\ Len(RemoveAt(seq, i)) = Len(seq) - 1
           /\ \A k \in 1..(Len(seq) - 1) :
                 RemoveAt(seq, i)[k] = IF k < i THEN seq[k] ELSE seq[k + 1]
<1> DEFINE front == SubSeq(seq, 1, i - 1)
           back == SubSeq(seq, i + 1, Len(seq))
<1>1. /\ front \in Seq(S) /\ Len(front) = i - 1
      /\ \A k \in 1..(i - 1) : front[k] = seq[k]
  BY SubSeqProperties
<1>2. /\ back \in Seq(S) /\ Len(back) = Len(seq) - i
      /\ \A k \in 1..(Len(seq) - i) : back[k] = seq[k + i]
  BY SubSeqProperties
<1>3. RemoveAt(seq, i) = front \o back
  BY DEF RemoveAt
<1> HIDE DEF front, back
<1>4. /\ front \o back \in Seq(S)
      /\ Len(front \o back) = Len(front) + Len(back)
      /\ \A k \in 1..(Len(front) + Len(back)) :
            (front \o back)[k] =
                IF k <= Len(front) THEN front[k] ELSE back[k - Len(front)]
  BY <1>1, <1>2, ConcatProperties
<1>5. ASSUME NEW k \in 1..(Len(seq) - 1)
      PROVE  (front \o back)[k] = IF k < i THEN seq[k] ELSE seq[k + 1]
  <2>0. k < i \/ k >= i
    OBVIOUS
  <2>1. k \in 1..(Len(front) + Len(back))
    BY <1>1, <1>2
  <2>2. CASE k < i
    BY <1>1, <1>4, <2>1, <2>2
  <2>3. CASE k >= i
    <3>1. /\ k - Len(front) \in 1..(Len(seq) - i) /\ ~(k <= Len(front))
          /\ (k - Len(front)) + i = k + 1
      BY <1>1, <2>3
    <3> QED
      BY <1>2, <1>4, <2>1, <2>3, <3>1
  <2> QED
    BY <2>0, <2>2, <2>3
<1> QED
  BY <1>1, <1>2, <1>3, <1>4, <1>5

-----------------------------------------------------------------------------
(* Types of the counts.                                                     *)

LEMMA NoCountsType == NoCounts \in Counts
BY DEF NoCounts, Counts, EmptyCounts

LEMMA CountsAt ==
    ASSUME NEW c \in Counts, NEW b \in Bucket, NEW s \in Slot
    PROVE  c[b][s] \in Nat
BY DEF Counts

LEMMA CountedType ==
    ASSUME NEW c \in Counts, NEW p \in PokemonKey, NEW nests \in SUBSET Nest
    PROVE  Counted(c, p, nests) \in Counts
BY DEF Counted, Counts

LEMMA NewPeriodType ==
    ASSUME NEW t \in Nat PROVE NewPeriod(t) \in Period
BY NoCountsType DEF NewPeriod, Period, NoTime

\* A subtraction is exact when what is subtracted is covered, and when a Total
\* that reaches 0 takes the counts of all pokemon with it.
LEMMA SubtractExact ==
    ASSUME NEW c \in Counts, NEW o \in Counts,
           \A b \in Bucket, s \in Slot : o[b][s] <= c[b][s],
           \A b \in Bucket : c[b][Total] = o[b][Total] =>
                                \A s \in Slot : c[b][s] = o[b][s]
    PROVE  /\ Subtract(c, o) \in Counts
           /\ \A b \in Bucket, s \in Slot :
                 Subtract(c, o)[b][s] = c[b][s] - o[b][s]
<1>1. ASSUME NEW b \in Bucket, NEW s \in Slot
      PROVE  /\ Subtract(c, o)[b] \in [Slot -> Nat]
             /\ Subtract(c, o)[b][s] = c[b][s] - o[b][s]
  <2>1. \A r \in Slot : c[b][r] \in Nat /\ o[b][r] \in Nat /\ c[b][r] - o[b][r] \in Nat
    BY CountsAt
  <2>2. Subtract(c, o)[b] = SubtractBucket(c[b], o[b])
    BY DEF Subtract
  <2>3. CASE c[b][Total] = o[b][Total]
    BY <2>1, <2>2, <2>3 DEF SubtractBucket, EmptyCounts
  <2>4. CASE c[b][Total] # o[b][Total]
    BY <2>1, <2>2, <2>4 DEF SubtractBucket
  <2> QED
    BY <2>3, <2>4
<1>2. Subtract(c, o) \in Counts
  <2>1. Total \in Slot /\ Subtract(c, o) = [b \in Bucket |-> Subtract(c, o)[b]]
    BY DEF Slot, Subtract
  <2>2. \A b \in Bucket : Subtract(c, o)[b] \in [Slot -> Nat]
    BY <1>1, <2>1
  <2> QED
    BY <2>1, <2>2 DEF Counts
<1> QED
  BY <1>1, <1>2

-----------------------------------------------------------------------------
(* HistoryCount under the changes the operations make to the list.          *)

LEMMA CountInList ==
    ASSUME NEW list \in Seq(Period), NEW b \in Bucket, NEW s \in Slot,
           NEW i \in 1..Len(list)
    PROVE  list[i].counts[b][s] \in Nat
<1>1. list[i] \in Period
  BY ElementOfSeq
<1>2. list[i].counts \in Counts
  BY <1>1 DEF Period
<1> QED
  BY <1>2, CountsAt

LEMMA HistoryCountBounds ==
    ASSUME NEW list \in Seq(Period), NEW b \in Bucket, NEW s \in Slot
    PROVE  /\ HistoryCount(list, b, s) \in Nat
           /\ \A i \in 1..Len(list) :
                 /\ list[i].counts[b][s] \in Nat
                 /\ list[i].counts[b][s] <= HistoryCount(list, b, s)
<1> DEFINE f == [i \in 1..Len(list) |-> list[i].counts[b][s]]
<1>1. \A i \in 1..Len(list) : f[i] = list[i].counts[b][s] /\ f[i] \in Nat
  BY CountInList
<1>2. Len(list) \in Nat
  OBVIOUS
<1> HIDE DEF f
<1>3. /\ PrefixSum(f, Len(list)) \in Nat
      /\ \A j \in 1..Len(list) : f[j] <= PrefixSum(f, Len(list))
  BY <1>1, <1>2, PrefixSumBounds
<1> QED
  BY <1>1, <1>3 DEF HistoryCount, f

LEMMA HistoryCountReplace ==
    ASSUME NEW list \in Seq(Period), NEW b \in Bucket, NEW s \in Slot,
           NEW i \in 1..Len(list), NEW p \in Period
    PROVE  HistoryCount([list EXCEPT ![i] = p], b, s) =
              HistoryCount(list, b, s) + (p.counts[b][s] - list[i].counts[b][s])
<1> DEFINE new == [list EXCEPT ![i] = p]
           f == [k \in 1..Len(list) |-> list[k].counts[b][s]]
           e == [k \in 1..Len(new) |-> new[k].counts[b][s]]
<1>1. Len(new) = Len(list) /\ Len(list) \in Nat
  OBVIOUS
<1>2. \A k \in 1..Len(list) : f[k] = list[k].counts[b][s] /\ f[k] \in Nat
  BY CountInList
<1>3. \A k \in 1..Len(list) : k # i => e[k] = f[k]
  BY <1>1
<1>4. e[i] = p.counts[b][s] /\ e[i] \in Int
  BY <1>1, CountsAt DEF Period
<1> HIDE DEF e, f
<1>5. \A k \in 1..Len(list) : f[k] \in Int
  BY <1>2
<1>6. PrefixSum(e, Len(list)) = PrefixSum(f, Len(list)) + (e[i] - f[i])
  BY <1>1, <1>3, <1>4, <1>5, PrefixSumUpdate
<1> QED
  BY <1>1, <1>2, <1>4, <1>6 DEF HistoryCount, e, f

LEMMA HistoryCountRemove ==
    ASSUME NEW list \in Seq(Period), NEW b \in Bucket, NEW s \in Slot,
           NEW i \in 1..Len(list)
    PROVE  HistoryCount(RemoveAt(list, i), b, s) =
              HistoryCount(list, b, s) - list[i].counts[b][s]
<1> DEFINE new == RemoveAt(list, i)
           n == Len(list) - 1
           f == [k \in 1..Len(list) |-> list[k].counts[b][s]]
           e == [k \in 1..Len(new) |-> new[k].counts[b][s]]
<1>1. /\ n \in Nat /\ Len(list) = n + 1 /\ Len(new) = n
      /\ \A k \in 1..n : new[k] = IF k < i THEN list[k] ELSE list[k + 1]
  BY RemoveAtProperties
<1>2. \A k \in 1..(n + 1) : f[k] = list[k].counts[b][s] /\ f[k] \in Int
  BY <1>1, CountInList
<1>3. \A k \in 1..n : e[k] = IF k < i THEN f[k] ELSE f[k + 1]
  BY <1>1
<1> HIDE DEF e, f, n, new
<1>4. n \in Nat /\ i \in 1..(n + 1) /\ \A k \in 1..(n + 1) : f[k] \in Int
  BY <1>1, <1>2
<1>5. PrefixSum(e, n) = PrefixSum(f, n + 1) - f[i]
  BY <1>3, <1>4, PrefixSumRemove
<1> QED
  BY <1>1, <1>2, <1>5 DEF HistoryCount, e, f, new

LEMMA HistoryCountAppend ==
    ASSUME NEW list \in Seq(Period), NEW b \in Bucket, NEW s \in Slot,
           NEW t \in Nat
    PROVE  HistoryCount(Append(list, NewPeriod(t)), b, s) = HistoryCount(list, b, s)
<1> DEFINE new == Append(list, NewPeriod(t))
           n == Len(list)
           f == [k \in 1..n |-> list[k].counts[b][s]]
           e == [k \in 1..Len(new) |-> new[k].counts[b][s]]
<1>1. /\ n \in Nat /\ Len(new) = n + 1 /\ new[n + 1] = NewPeriod(t)
      /\ \A k \in 1..n : new[k] = list[k]
  OBVIOUS
<1>2. \A k \in 1..n : f[k] = list[k].counts[b][s] /\ f[k] \in Int
  BY CountInList
<1>3. \A k \in 1..n : e[k] = f[k]
  BY <1>1
<1>4. e[n + 1] = 0
  BY <1>1 DEF NewPeriod, NoCounts, EmptyCounts
<1> HIDE DEF e, f, n, new
<1>5. \A k \in 1..(n + 1) : e[k] \in Int
  BY <1>1, <1>2, <1>3, <1>4
<1>6. PrefixSum(e, n + 1) = PrefixSum(e, n) + e[n + 1]
  BY <1>1, <1>5, PrefixSumAppend
<1>7. PrefixSum(e, n) = PrefixSum(f, n)
  BY <1>1, <1>2, <1>3, PrefixSumEqual
<1>8. PrefixSum(f, n) \in Int
  BY <1>1, <1>2, PrefixSumInt
<1>9. PrefixSum(e, n + 1) = PrefixSum(f, n)
  BY <1>4, <1>6, <1>7, <1>8
<1> QED
  BY <1>1, <1>9 DEF HistoryCount, e, f, n, new

-----------------------------------------------------------------------------
(* ClosedDuration under the changes the operations make to the list.        *)

\* What a period adds to ClosedDuration.
Weight(p) == IF p.frozen THEN Truncate(p.end - p.start) ELSE 0

LEMMA WeightNat ==
    ASSUME NEW p \in Period,
           p.frozen => p.end # NoTime /\ p.start <= p.end
    PROVE  Weight(p) \in Nat
<1>1. CASE p.frozen
  <2>1. p.end - p.start \in Nat
    BY <1>1 DEF Period
  <2> QED
    BY <1>1, <2>1, TruncateNat DEF Weight
<1>2. CASE ~p.frozen
  BY <1>2 DEF Weight
<1> QED
  BY <1>1, <1>2

LEMMA ClosedDurationReplace ==
    ASSUME NEW list \in Seq(Period), NEW i \in 1..Len(list), NEW p \in Period,
           \A k \in 1..Len(list) : Weight(list[k]) \in Int,
           Weight(p) \in Int
    PROVE  /\ ClosedDuration([list EXCEPT ![i] = p]) =
                ClosedDuration(list) + (Weight(p) - Weight(list[i]))
           /\ ClosedDuration(list) \in Int
<1> DEFINE new == [list EXCEPT ![i] = p]
           f == [k \in 1..Len(list) |-> Weight(list[k])]
           e == [k \in 1..Len(new) |-> Weight(new[k])]
<1>1. Len(new) = Len(list) /\ Len(list) \in Nat
  OBVIOUS
<1>2. \A k \in 1..Len(list) : f[k] = Weight(list[k]) /\ f[k] \in Int
  OBVIOUS
<1>3. \A k \in 1..Len(list) : k # i => e[k] = f[k]
  BY <1>1
<1>4. e[i] = Weight(p) /\ e[i] \in Int
  BY <1>1
<1>5. ClosedDuration(new) = PrefixSum(e, Len(new))
  BY DEF ClosedDuration, Weight
<1>6. ClosedDuration(list) = PrefixSum(f, Len(list))
  BY DEF ClosedDuration, Weight
<1> HIDE DEF e, f
<1>7. \A k \in 1..Len(list) : f[k] \in Int
  BY <1>2
<1>8. PrefixSum(e, Len(list)) = PrefixSum(f, Len(list)) + (e[i] - f[i])
  BY <1>1, <1>3, <1>4, <1>7, PrefixSumUpdate
<1>9. PrefixSum(f, Len(list)) \in Int
  BY <1>1, <1>7, PrefixSumInt
<1> QED
  BY <1>1, <1>2, <1>4, <1>5, <1>6, <1>8, <1>9

LEMMA ClosedDurationRemove ==
    ASSUME NEW list \in Seq(Period), NEW i \in 1..Len(list),
           \A k \in 1..Len(list) : Weight(list[k]) \in Int
    PROVE  ClosedDuration(RemoveAt(list, i)) = ClosedDuration(list) - Weight(list[i])
<1> DEFINE new == RemoveAt(list, i)
           n == Len(list) - 1
           f == [k \in 1..Len(list) |-> Weight(list[k])]
           e == [k \in 1..Len(new) |-> Weight(new[k])]
<1>0. /\ Len(RemoveAt(list, i)) = Len(list) - 1
      /\ \A k \in 1..(Len(list) - 1) :
            RemoveAt(list, i)[k] = IF k < i THEN list[k] ELSE list[k + 1]
  <2> HIDE DEF new, n, f, e
  <2> QED
    BY RemoveAtProperties
<1>1. /\ n \in Nat /\ Len(list) = n + 1 /\ Len(new) = n
      /\ \A k \in 1..n : new[k] = IF k < i THEN list[k] ELSE list[k + 1]
  BY <1>0
<1>2. \A k \in 1..(n + 1) : f[k] = Weight(list[k]) /\ f[k] \in Int
  BY <1>1
<1>3. \A k \in 1..n : e[k] = IF k < i THEN f[k] ELSE f[k + 1]
  BY <1>1
<1>4. ClosedDuration(new) = PrefixSum(e, Len(new))
  BY DEF ClosedDuration, Weight
<1>5. ClosedDuration(list) = PrefixSum(f, Len(list))
  BY DEF ClosedDuration, Weight
<1> HIDE DEF e, f, n, new
<1>6. n \in Nat /\ i \in 1..(n + 1) /\ \A k \in 1..(n + 1) : f[k] \in Int
  BY <1>1, <1>2
<1>7. PrefixSum(e, n) = PrefixSum(f, n + 1) - f[i]
  BY <1>3, <1>6, PrefixSumRemove
<1> QED
  BY <1>1, <1>2, <1>4, <1>5, <1>6, <1>7 DEF new

LEMMA ClosedDurationAppend ==
    ASSUME NEW list \in Seq(Period), NEW t \in Nat,
           \A k \in 1..Len(list) : Weight(list[k]) \in Int
    PROVE  ClosedDuration(Append(list, NewPeriod(t))) = ClosedDuration(list)
<1> DEFINE new == Append(list, NewPeriod(t))
           n == Len(list)
           f == [k \in 1..n |-> Weight(list[k])]
           e == [k \in 1..Len(new) |-> Weight(new[k])]
<1>1. /\ n \in Nat /\ Len(new) = n + 1 /\ new[n + 1] = NewPeriod(t)
      /\ \A k \in 1..n : new[k] = list[k]
  OBVIOUS
<1>2. \A k \in 1..n : f[k] \in Int
  OBVIOUS
<1>3. \A k \in 1..n : e[k] = f[k]
  BY <1>1
<1>4. e[n + 1] = 0
  BY <1>1 DEF NewPeriod, Weight
<1>5. ClosedDuration(new) = PrefixSum(e, Len(new))
  BY DEF ClosedDuration, Weight
<1>6. ClosedDuration(list) = PrefixSum(f, n)
  BY DEF ClosedDuration, Weight
<1> HIDE DEF e, f, n, new
<1>7. \A k \in 1..(n + 1) : e[k] \in Int
  BY <1>1, <1>2, <1>3, <1>4
<1>8. PrefixSum(e, n + 1) = PrefixSum(e, n) + e[n + 1]
  BY <1>1, <1>7, PrefixSumAppend
<1>9. PrefixSum(e, n) = PrefixSum(f, n)
  BY <1>1, <1>2, <1>3, PrefixSumEqual
<1>10. PrefixSum(f, n) \in Int
  BY <1>1, <1>2, PrefixSumInt
<1>11. ClosedDuration(new) = ClosedDuration(list)
  BY <1>1, <1>4, <1>5, <1>6, <1>8, <1>9, <1>10
<1> QED
  BY <1>11 DEF new

\* A sum of zeros.
LEMMA ZeroSum ==
    ASSUME NEW n \in Nat, NEW f, \A k \in 1..n : f[k] = 0
    PROVE  PrefixSum(f, n) = 0
<1>1. Running([k \in 0..n |-> 0], f, n)
  BY DEF Running
<1> QED
  BY <1>1, PrefixSumIsRunning

-----------------------------------------------------------------------------
(* The initial state.                                                       *)

LEMMA BeginType ==
    ASSUME NEW kind \in OpKind, NEW arg \in Nat, NEW includeCurrent \in BOOLEAN
    PROVE  Begin(kind, arg, includeCurrent) \in Op
BY DEF Begin, Op

LEMMA IdleType == Idle \in Op
BY BeginType DEF Idle, OpKind

LEMMA InitIInv == Init => IInv
<1> SUFFICES ASSUME Init PROVE IInv
  OBVIOUS
<1>1. NewPeriod(0) \in Period /\ NoCounts \in Counts
  BY NewPeriodType, NoCountsType
<1>2. /\ periods = <<NewPeriod(0)>> /\ Len(periods) = 1 /\ periods[1] = NewPeriod(0)
      /\ periods \in Seq(Period)
  BY <1>1 DEF Init
<1>3. TypeOK
  <2>1. totals \in Counts /\ op \in Op /\ duration \in Int /\ totalsStart \in Nat /\ now \in Nat
    BY <1>1, IdleType DEF Init
  <2>2. nilMap \in BOOLEAN /\ panicked \in BOOLEAN /\ currentPurged \in BOOLEAN
    BY DEF Init
  <2> QED
    BY <1>2, <2>1, <2>2 DEF TypeOK
<1>4. TotalsAreSums
  <2>1. ASSUME NEW b \in Bucket, NEW s \in Slot PROVE HistoryCount(periods, b, s) = 0
    <3>1. \A i \in 1..1 : periods[i].counts[b][s] = 0
      BY <1>2 DEF NewPeriod, NoCounts, EmptyCounts
    <3> QED
      BY <1>2, <3>1, ZeroSum DEF HistoryCount
  <2>2. \A b \in Bucket, s \in Slot : totals[b][s] = 0
    BY DEF Init, NoCounts, EmptyCounts
  <2> QED
    BY <2>1, <2>2 DEF TotalsAreSums
<1>5. PeriodsAreOrdered
  BY <1>2 DEF Init, PeriodsAreOrdered, NewPeriod, NoTime
<1>6. ClosedDuration(periods) = 0
  BY <1>2, ZeroSum DEF ClosedDuration, NewPeriod
<1>7. DurationIsCovered
  BY <1>6 DEF Init, DurationIsCovered
<1>8. CountsAreWithin
  BY <1>2 DEF CountsAreWithin, NewPeriod, NoCounts, EmptyCounts, Slot, Bucket
<1>9. CurrentIsOpen
  BY <1>2 DEF Init, CurrentIsOpen, NewPeriod, Idle, Begin
<1> QED
  BY <1>3, <1>4, <1>5, <1>7, <1>8, <1>9
     DEF Init, IInv, NilMapMeansEmpty, PanicIsOutsideOfWriters

-----------------------------------------------------------------------------
(* Facts about the state that the steps rest on.                            *)

LEMMA StateFacts ==
    ASSUME IInv
    PROVE  /\ periods \in Seq(Period) /\ Len(periods) \in Nat
           /\ \A k \in 1..Len(periods) :
                 /\ periods[k] \in Period
                 /\ Weight(periods[k]) \in Nat
                 /\ k < Len(periods) => periods[k].frozen
           /\ now \in Nat /\ totals \in Counts /\ op \in Op
<1>1. periods \in Seq(Period) /\ Len(periods) \in Nat /\ now \in Nat
  BY DEF IInv, TypeOK
<1>2. ASSUME NEW k \in 1..Len(periods)
      PROVE  /\ periods[k] \in Period
             /\ Weight(periods[k]) \in Nat
  <2>1. periods[k] \in Period
    BY <1>1, ElementOfSeq
  <2>2. /\ periods[k].frozen => periods[k].end # NoTime
        /\ periods[k].end # NoTime => periods[k].start <= periods[k].end
        /\ periods[k].start <= now
    BY DEF IInv, PeriodsAreOrdered
  <2>3. Weight(periods[k]) \in Nat
    BY <2>1, <2>2, WeightNat
  <2> QED
    BY <2>1, <2>3
<1>3. \A k \in 1..Len(periods) : k < Len(periods) => periods[k].frozen
  BY DEF IInv, CurrentIsOpen
<1> QED
  BY <1>1, <1>2, <1>3 DEF IInv, TypeOK

\* Duration(), from now on, of a period of the list.
LEMMA DurationFacts ==
    ASSUME IInv, NEW k \in 1..Len(periods)
    PROVE  /\ \A t \in Nat : t >= now => DurationAt(periods[k], t) \in Nat
           /\ periods[k].frozen => \A t : DurationAt(periods[k], t) = Weight(periods[k])
<1>1. periods[k] \in Period /\ now \in Nat
  BY StateFacts
<1>2. /\ periods[k].frozen => periods[k].end # NoTime
      /\ periods[k].end # NoTime => periods[k].start <= periods[k].end
      /\ periods[k].start <= now
  BY DEF IInv, PeriodsAreOrdered
<1>3. ASSUME NEW t \in Nat, t >= now
      PROVE  DurationAt(periods[k], t) \in Nat
  <2>1. (IF periods[k].end = NoTime THEN t ELSE periods[k].end) - periods[k].start \in Nat
    BY ONLY <1>1, <1>2, <1>3 DEF Period
  <2> QED
    BY <2>1, TruncateNat DEF DurationAt
<1>4. periods[k].frozen => \A t : DurationAt(periods[k], t) = Weight(periods[k])
  BY <1>2 DEF DurationAt, Weight
<1> QED
  BY <1>3, <1>4

LEMMA TickIInv == IInv /\ Tick => IInv'
<1> SUFFICES ASSUME IInv, Tick PROVE IInv'
  OBVIOUS
<1>1. now' = now + 1 /\ now \in Nat
  BY DEF Tick, IInv, TypeOK
<1>2. UNCHANGED <<periods, totals, nilMap, totalsStart, duration, op, panicked,
                  currentPurged>>
  BY DEF Tick
<1>3. TypeOK'
  BY <1>1, <1>2 DEF IInv, TypeOK
<1>4. PeriodsAreOrdered'
  <2>1. \A i \in 1..Len(periods) :
           periods[i].start \in Nat /\ periods[i].end \in Nat \cup {NoTime}
    BY StateFacts DEF Period
  <2> QED
    BY <1>1, <1>2, <2>1 DEF IInv, PeriodsAreOrdered, NoTime
<1> QED
  BY <1>2, <1>3, <1>4
     DEF IInv, TotalsAreSums, DurationIsCovered, NilMapMeansEmpty, CountsAreWithin,
         CurrentIsOpen, PanicIsOutsideOfWriters

-----------------------------------------------------------------------------
(* The operations that only change the current period.                      *)

\* When the lock is free the current period is the last of the list.
LEMMA CurrentFacts ==
    ASSUME IInv, op = Idle
    PROVE  /\ Len(periods) \in 1..Len(periods)
           /\ Current = periods[Len(periods)] /\ Current \in Period
           /\ ~Current.frozen /\ Weight(Current) = 0
           /\ \A k \in 1..Len(periods) : periods[k].frozen <=> k < Len(periods)
           /\ totalsStart = periods[1].start
           /\ Current.start <= now
<1>1. CurrentIsOpen /\ PeriodsAreOrdered
  BY DEF IInv
<1>2. Len(periods) > 0 /\ \A k \in 1..Len(periods) : periods[k].frozen <=> k < Len(periods)
  BY <1>1 DEF CurrentIsOpen, Idle, Begin
<1>3. Len(periods) \in 1..Len(periods)
  BY <1>2, StateFacts
<1>4. Current \in Period /\ ~Current.frozen /\ Current.start <= now
  BY <1>1, <1>2, <1>3, StateFacts DEF Current, PeriodsAreOrdered
<1> QED
  BY <1>1, <1>2, <1>3, <1>4 DEF Current, Weight, PeriodsAreOrdered

\* Replacing the open current period by an open one that begins with it and
\* ends, if at all, by now keeps the structure of the list.
LEMMA ReplaceCurrent ==
    ASSUME IInv, op = Idle, NEW p \in Period,
           ~p.frozen, p.start = Current.start,
           p.end = NoTime \/ (p.start <= p.end /\ p.end <= now),
           periods' = [periods EXCEPT ![Len(periods)] = p],
           UNCHANGED <<totalsStart, duration, now, op, currentPurged>>
    PROVE  /\ periods' \in Seq(Period)
           /\ Len(periods') = Len(periods)
           /\ \A k \in 1..Len(periods) :
                 periods'[k] = IF k = Len(periods) THEN p ELSE periods[k]
           /\ PeriodsAreOrdered' /\ DurationIsCovered' /\ CurrentIsOpen'
<1>1. /\ periods' \in Seq(Period)
      /\ Len(periods') = Len(periods)
      /\ \A k \in 1..Len(periods) :
            periods'[k] = IF k = Len(periods) THEN p ELSE periods[k]
  BY StateFacts, CurrentFacts, ExceptSeq
<1>2. CurrentIsOpen'
  <2>1. op'.kind = "idle"
    BY DEF Idle, Begin
  <2>2. \A k \in 1..Len(periods) : periods'[k].frozen <=> k < Len(periods)
    BY <1>1, CurrentFacts
  <2>3. Len(periods) > 0
    BY CurrentFacts, StateFacts
  <2> QED
    BY <1>1, <2>1, <2>2, <2>3 DEF CurrentIsOpen
<1>3. PeriodsAreOrdered'
  <2>1. ASSUME NEW i \in 1..Len(periods)
        PROVE  /\ periods'[i].start = periods[i].start
               /\ periods'[i].frozen => periods'[i].end # NoTime
               /\ periods'[i].end # NoTime => /\ periods'[i].start <= periods'[i].end
                                             /\ periods'[i].end <= now
               /\ i < Len(periods) => periods'[i].end = periods[i].end
    BY <1>1, CurrentFacts DEF IInv, PeriodsAreOrdered
  <2>2. ASSUME NEW i \in 1..Len(periods), i > 1
        PROVE  periods'[i - 1].end <= periods'[i].start
    <3>1. i - 1 \in 1..Len(periods) /\ i - 1 < Len(periods)
      BY <2>2, StateFacts
    <3>2. periods[i - 1].end <= periods[i].start
      BY <2>2 DEF IInv, PeriodsAreOrdered
    <3> QED
      BY <2>1, <3>1, <3>2
  <2>3. totalsStart' = periods'[1].start
    BY <2>1, CurrentFacts, StateFacts
  <2>4. \A i \in 1..Len(periods) : periods[i].start <= now
    BY DEF IInv, PeriodsAreOrdered
  <2> QED
    BY <1>1, <2>1, <2>2, <2>3, <2>4 DEF PeriodsAreOrdered
<1>4. DurationIsCovered'
  <2>1. Weight(p) = 0
    BY DEF Weight
  <2>2. /\ ClosedDuration(periods') = ClosedDuration(periods) + (Weight(p) - Weight(Current))
        /\ ClosedDuration(periods) \in Int
    <3>1. \A k \in 1..Len(periods) : Weight(periods[k]) \in Int
      BY StateFacts
    <3>2. /\ ClosedDuration([periods EXCEPT ![Len(periods)] = p]) =
                 ClosedDuration(periods) + (Weight(p) - Weight(periods[Len(periods)]))
          /\ ClosedDuration(periods) \in Int
      BY <2>1, <3>1, StateFacts, CurrentFacts, ClosedDurationReplace
    <3> QED
      BY <3>2, CurrentFacts
  <2>3. ClosedDuration(periods') = ClosedDuration(periods)
    BY <2>1, <2>2, CurrentFacts
  <2> QED
    BY <2>3 DEF IInv, DurationIsCovered
<1> QED
  BY <1>1, <1>2, <1>3, <1>4

LEMMA GlobalTotal == Global \in Bucket /\ Total \in Slot
BY DEF Bucket, Slot

LEMMA AddPokemonIInv ==
    ASSUME IInv, NEW pokemon \in PokemonKey, NEW nests \in SUBSET Nest,
           AddPokemon(pokemon, nests)
    PROVE  IInv'
<1> DEFINE n == Len(periods)
           q == [Current EXCEPT !.counts = Counted(Current.counts, pokemon, nests)]
           more(b, s) == IF b \in nests \cup {Global} /\ s \in {pokemon, Total}
                         THEN 1 ELSE 0
<1>1. op = Idle /\ ~panicked
  BY DEF AddPokemon, LockIsFree
<1>2. Current \in Period /\ Current.counts \in Counts
  BY <1>1, CurrentFacts DEF Period
<1>3. /\ q \in Period /\ ~q.frozen /\ q.start = Current.start /\ q.end = Current.end
      /\ q.counts = Counted(Current.counts, pokemon, nests)
  BY <1>1, <1>2, CountedType, CurrentFacts DEF Period
<1>4. periods' = [periods EXCEPT ![Len(periods)] = q]
  BY DEF AddPokemon, Current
<1>5. UNCHANGED <<nilMap, totalsStart, duration, now, op, currentPurged>>
  BY DEF AddPokemon
<1>6. q.end = NoTime \/ (q.start <= q.end /\ q.end <= now)
  BY <1>1, <1>3, CurrentFacts DEF IInv, PeriodsAreOrdered
<1> HIDE DEF q
<1>7. /\ periods' \in Seq(Period)
      /\ Len(periods') = n
      /\ \A k \in 1..n : periods'[k] = IF k = n THEN q ELSE periods[k]
      /\ PeriodsAreOrdered' /\ DurationIsCovered' /\ CurrentIsOpen'
  BY <1>1, <1>3, <1>4, <1>5, <1>6, ReplaceCurrent
<1>8. ASSUME NEW c \in Counts, NEW b \in Bucket, NEW s \in Slot
      PROVE  Counted(c, pokemon, nests)[b][s] = c[b][s] + more(b, s)
  BY <1>8, CountsAt DEF Counted
<1>9. TypeOK'
  <2>1. totals' \in Counts
    <3>1. CASE nilMap
      <4>1. totals' = [totals EXCEPT ![Global][Total] = @ + 1]
        BY <3>1 DEF AddPokemon
      <4>2. totals[Global][Total] + 1 \in Nat
        BY StateFacts, GlobalTotal, CountsAt
      <4> QED
        BY <4>1, <4>2, StateFacts, GlobalTotal DEF Counts
    <3>2. CASE ~nilMap
      BY <3>2, StateFacts, CountedType DEF AddPokemon
    <3> QED
      BY <3>1, <3>2
  <2>2. panicked' \in BOOLEAN
    BY DEF AddPokemon, IInv, TypeOK
  <2> QED
    BY <1>5, <1>7, <2>1, <2>2 DEF IInv, TypeOK
<1>10. TotalsAreSums'
  <2> SUFFICES ASSUME ~panicked', NEW b \in Bucket, NEW s \in Slot
               PROVE  totals'[b][s] = HistoryCount(periods', b, s)
    BY DEF TotalsAreSums
  <2>1. totals' = Counted(totals, pokemon, nests)
    BY DEF AddPokemon
  <2>2. totals[b][s] = HistoryCount(periods, b, s)
    BY <1>1 DEF IInv, TotalsAreSums
  <2>3. HistoryCount(periods', b, s) =
           HistoryCount(periods, b, s) + (q.counts[b][s] - Current.counts[b][s])
    <3>1. HistoryCount([periods EXCEPT ![Len(periods)] = q], b, s) =
             HistoryCount(periods, b, s)
                + (q.counts[b][s] - periods[Len(periods)].counts[b][s])
      BY <1>1, <1>3, HistoryCountReplace, CurrentFacts, StateFacts
    <3> QED
      BY <1>4, <3>1 DEF Current
  <2>4. q.counts[b][s] = Current.counts[b][s] + more(b, s)
    BY <1>2, <1>3, <1>8
  <2>5. totals'[b][s] = totals[b][s] + more(b, s)
    BY <1>8, <2>1, StateFacts
  <2>6. Current.counts[b][s] \in Nat /\ totals[b][s] \in Nat /\ more(b, s) \in Nat
    BY <1>2, CountsAt, StateFacts
  <2> HIDE DEF more
  <2> QED
    BY <2>2, <2>3, <2>4, <2>5, <2>6
<1>11. CountsAreWithin'
  <2> SUFFICES ASSUME NEW i \in 1..n, NEW b \in Bucket, NEW s \in Slot
               PROVE  /\ periods'[i].counts[b][s] <= periods'[i].counts[b][Total]
                      /\ periods'[i].counts[b][s] <= periods'[i].counts[Global][s]
    BY <1>7 DEF CountsAreWithin
  <2>1. /\ periods[i].counts[b][s] <= periods[i].counts[b][Total]
        /\ periods[i].counts[b][s] <= periods[i].counts[Global][s]
    BY DEF IInv, CountsAreWithin
  <2>2. CASE i # n
    BY <1>7, <2>1, <2>2
  <2>3. CASE i = n
    <3>1. periods'[i].counts = q.counts /\ periods[i] = Current
      BY <1>7, <2>3 DEF Current
    <3>2. /\ q.counts[b][s] = Current.counts[b][s] + more(b, s)
          /\ q.counts[b][Total] = Current.counts[b][Total] + more(b, Total)
          /\ q.counts[Global][s] = Current.counts[Global][s] + more(Global, s)
      BY <1>2, <1>3, <1>8, GlobalTotal
    <3>3. more(b, s) <= more(b, Total) /\ more(b, s) <= more(Global, s)
      OBVIOUS
    <3>4. /\ more(b, s) \in Nat /\ more(b, Total) \in Nat /\ more(Global, s) \in Nat
          /\ Current.counts[b][s] \in Nat /\ Current.counts[b][Total] \in Nat
          /\ Current.counts[Global][s] \in Nat
      BY <1>2, CountsAt, GlobalTotal
    <3> HIDE DEF more
    <3>5. /\ Current.counts[b][s] <= Current.counts[b][Total]
          /\ Current.counts[b][s] <= Current.counts[Global][s]
      BY <2>1, <3>1
    <3>6. \A x, y, d, e \in Nat : x <= y /\ d <= e => x + d <= y + e
      OBVIOUS
    <3>7. /\ Current.counts[b][s] + more(b, s) <= Current.counts[b][Total] + more(b, Total)
          /\ Current.counts[b][s] + more(b, s) <= Current.counts[Global][s] + more(Global, s)
      BY <3>3, <3>4, <3>5, <3>6
    <3>8. q.counts[b][s] <= q.counts[b][Total] /\ q.counts[b][s] <= q.counts[Global][s]
      BY <3>2, <3>7
    <3> QED
      BY <3>1, <3>8
  <2> QED
    BY <2>2, <2>3
<1>12. NilMapMeansEmpty'
  BY <1>5 DEF AddPokemon, NilMapMeansEmpty
<1>13. PanicIsOutsideOfWriters'
  BY <1>1, <1>5 DEF PanicIsOutsideOfWriters
<1> QED
  BY <1>7, <1>9, <1>10, <1>11, <1>12, <1>13 DEF IInv

LEMMA GetSnapshotIInv == IInv /\ GetSnapshot => IInv'
<1> SUFFICES ASSUME IInv, GetSnapshot PROVE IInv'
  OBVIOUS
<1> DEFINE n == Len(periods)
           q == [Current EXCEPT !.end = now]
<1>1. op = Idle /\ ~panicked
  BY DEF GetSnapshot, LockIsFree
<1>2. Current \in Period /\ now \in Nat /\ Current.start <= now
  BY <1>1, CurrentFacts, StateFacts
<1>3. /\ q \in Period /\ ~q.frozen /\ q.start = Current.start /\ q.end = now
      /\ q.counts = Current.counts
  BY <1>1, <1>2, CurrentFacts DEF Period
<1>4. periods' = [periods EXCEPT ![Len(periods)] = q]
  BY DEF GetSnapshot, Current
<1>5. UNCHANGED <<totals, nilMap, totalsStart, duration, now, op, panicked, currentPurged>>
  BY DEF GetSnapshot
<1>6. q.end = NoTime \/ (q.start <= q.end /\ q.end <= now)
  BY <1>2, <1>3
<1> HIDE DEF q
<1>7. /\ periods' \in Seq(Period)
      /\ Len(periods') = n
      /\ \A k \in 1..n : periods'[k] = IF k = n THEN q ELSE periods[k]
      /\ PeriodsAreOrdered' /\ DurationIsCovered' /\ CurrentIsOpen'
  BY <1>1, <1>3, <1>4, <1>5, <1>6, ReplaceCurrent
<1>8. TypeOK'
  BY <1>5, <1>7 DEF IInv, TypeOK
<1>9. \A k \in 1..n : periods'[k].counts = periods[k].counts
  BY <1>3, <1>7 DEF Current
<1>10. TotalsAreSums'
  <2>1. ASSUME NEW b \in Bucket, NEW s \in Slot
        PROVE  HistoryCount(periods', b, s) = HistoryCount(periods, b, s)
    <3>1. HistoryCount([periods EXCEPT ![Len(periods)] = q], b, s) =
             HistoryCount(periods, b, s)
                + (q.counts[b][s] - periods[Len(periods)].counts[b][s])
      BY <1>1, <1>3, HistoryCountReplace, CurrentFacts, StateFacts
    <3>2. HistoryCount(periods, b, s) \in Nat /\ Current.counts[b][s] \in Nat
      BY <1>1, HistoryCountBounds, CurrentFacts, StateFacts
    <3> QED
      BY <1>3, <1>4, <3>1, <3>2 DEF Current
  <2> QED
    BY <1>5, <2>1 DEF IInv, TotalsAreSums
<1>11. CountsAreWithin'
  BY <1>7, <1>9 DEF IInv, CountsAreWithin
<1> QED
  BY <1>5, <1>7, <1>8, <1>10, <1>11 DEF IInv, NilMapMeansEmpty, PanicIsOutsideOfWriters

-----------------------------------------------------------------------------
(* Subtracting one period from Totals.                                      *)

Within(list) ==
    \A i \in 1..Len(list), b \in Bucket, s \in Slot :
        /\ list[i].counts[b][s] <= list[i].counts[b][Total]
        /\ list[i].counts[b][s] <= list[i].counts[Global][s]

\* Where a sum is 0, so is each of its summands and each that is below one.
LEMMA ZeroHistory ==
    ASSUME NEW list \in Seq(Period), NEW b \in Bucket, NEW s \in Slot,
           NEW c \in Bucket, NEW r \in Slot,
           HistoryCount(list, c, r) = 0,
           \A i \in 1..Len(list) : list[i].counts[b][s] <= list[i].counts[c][r]
    PROVE  HistoryCount(list, b, s) = 0
<1> DEFINE f == [i \in 1..Len(list) |-> list[i].counts[b][s]]
<1>1. ASSUME NEW i \in 1..Len(list) PROVE f[i] = 0
  <2>1. /\ list[i].counts[c][r] \in Nat /\ list[i].counts[c][r] <= 0
        /\ list[i].counts[b][s] \in Nat
    BY HistoryCountBounds
  <2>2. list[i].counts[b][s] <= list[i].counts[c][r]
    OBVIOUS
  <2>3. list[i].counts[b][s] = 0
    BY <2>1, <2>2
  <2> QED
    BY <2>3
<1>2. Len(list) \in Nat
  OBVIOUS
<1> HIDE DEF f
<1>3. PrefixSum(f, Len(list)) = 0
  BY <1>1, <1>2, ZeroSum
<1> QED
  BY <1>3 DEF HistoryCount, f

LEMMA SubtractPeriod ==
    ASSUME IInv, ~panicked, NEW i \in 1..Len(periods),
           NEW list \in Seq(Period), Within(list),
           \A b \in Bucket, s \in Slot :
               HistoryCount(list, b, s) =
                  HistoryCount(periods, b, s) - periods[i].counts[b][s]
    PROVE  LET rest == Subtract(totals, periods[i].counts)
           IN  /\ rest \in Counts
               /\ \A b \in Bucket, s \in Slot : rest[b][s] = HistoryCount(list, b, s)
               /\ totals[Global][Total] = periods[i].counts[Global][Total]
                     => rest = NoCounts
               /\ totals = NoCounts => rest = NoCounts
<1> DEFINE del == periods[i].counts
           rest == Subtract(totals, del)
<1>1. totals \in Counts /\ del \in Counts
  BY StateFacts DEF Period
<1>2. ASSUME NEW b \in Bucket, NEW s \in Slot
      PROVE  /\ totals[b][s] = HistoryCount(periods, b, s)
             /\ totals[b][s] \in Nat /\ del[b][s] \in Nat
             /\ del[b][s] <= totals[b][s]
             /\ HistoryCount(list, b, s) = totals[b][s] - del[b][s]
  BY HistoryCountBounds, StateFacts DEF IInv, TotalsAreSums
<1>3. \A b \in Bucket, s \in Slot :
         /\ list \in Seq(Period)
         /\ \A k \in 1..Len(list) : /\ list[k].counts[b][s] <= list[k].counts[b][Total]
                                    /\ list[k].counts[b][s] <= list[k].counts[Global][s]
  BY DEF Within
<1> HIDE DEF del
<1>4. ASSUME NEW b \in Bucket, totals[b][Total] = del[b][Total], NEW s \in Slot
      PROVE  totals[b][s] = del[b][s]
  <2>1. HistoryCount(list, b, Total) = 0
    BY <1>2, <1>4, GlobalTotal
  <2>2. HistoryCount(list, b, s) = 0
    BY <1>3, <2>1, ZeroHistory, GlobalTotal
  <2> QED
    BY <1>2, <2>2
<1>5. /\ rest \in Counts
      /\ \A b \in Bucket, s \in Slot : rest[b][s] = totals[b][s] - del[b][s]
  BY <1>1, <1>2, <1>4, SubtractExact
<1>6. \A b \in Bucket, s \in Slot : rest[b][s] = HistoryCount(list, b, s)
  BY <1>2, <1>5
<1>7. ASSUME \A b \in Bucket, s \in Slot : rest[b][s] = 0 PROVE rest = NoCounts
  <2> HIDE DEF rest
  <2>1. /\ rest = [b \in Bucket |-> rest[b]]
        /\ \A b \in Bucket : rest[b] = [s \in Slot |-> rest[b][s]]
    BY <1>5 DEF Counts
  <2>2. \A b \in Bucket : rest[b] = EmptyCounts
    BY <1>7, <2>1 DEF EmptyCounts
  <2> QED
    BY <2>1, <2>2 DEF NoCounts
<1>8. ASSUME totals[Global][Total] = del[Global][Total] PROVE rest = NoCounts
  <2>1. HistoryCount(list, Global, Total) = 0
    BY <1>2, <1>8, GlobalTotal
  <2>2. ASSUME NEW b \in Bucket, NEW s \in Slot PROVE HistoryCount(list, b, s) = 0
    <3>1. HistoryCount(list, b, Total) = 0
      BY <1>3, <2>1, ZeroHistory, GlobalTotal
    <3> QED
      BY <1>3, <3>1, ZeroHistory, GlobalTotal
  <2> QED
    BY <1>6, <1>7, <2>2
<1>9. ASSUME totals = NoCounts PROVE rest = NoCounts
  <2>1. totals[Global][Total] = 0
    BY <1>9, GlobalTotal DEF NoCounts, EmptyCounts
  <2>2. totals[Global][Total] = del[Global][Total]
    BY <1>2, <2>1, GlobalTotal
  <2> QED
    BY <1>8, <2>2
<1> HIDE DEF rest
<1> QED
  BY <1>5, <1>6, <1>8, <1>9 DEF del, rest

-----------------------------------------------------------------------------
(* The requests that take the write lock.                                   *)

LEMMA BeginIInv ==
    ASSUME IInv, ~panicked, NEW kind \in OpKind \ {"idle"}, NEW arg \in Nat,
           NEW includeCurrent \in BOOLEAN, op = Idle,
           op' = Begin(kind, arg, includeCurrent),
           UNCHANGED <<periods, totals, nilMap, totalsStart, duration, now, panicked,
                       currentPurged>>
    PROVE  IInv'
<1>1. op' \in Op /\ op' # Idle /\ op'.numPurged = 0
  BY BeginType DEF Begin, Idle
<1>2. TypeOK'
  BY <1>1 DEF IInv, TypeOK
<1>3. CurrentIsOpen'
  <2>1. Len(periods) > 0
    BY CurrentFacts, StateFacts
  <2>2. \A k \in 1..Len(periods) : periods[k].frozen <=> k < Len(periods)
    BY CurrentFacts
  <2> QED
    BY <1>1, <2>1, <2>2 DEF CurrentIsOpen
<1>4. PeriodsAreOrdered'
  BY <1>1 DEF IInv, PeriodsAreOrdered
<1> QED
  BY <1>2, <1>3, <1>4
     DEF IInv, TotalsAreSums, DurationIsCovered, NilMapMeansEmpty, CountsAreWithin,
         PanicIsOutsideOfWriters

LEMMA RotateThrowAwayIInv ==
    ASSUME IInv, NEW maxHistory \in MaxHistories, NEW skipPct,
           RotateThrowAway(maxHistory, skipPct)
    PROVE  IInv'
<1> DEFINE n == Len(periods)
           q == NewPeriod(now)
<1>1. op = Idle /\ ~panicked
  BY DEF RotateThrowAway, LockIsFree
<1>2. /\ n \in 1..n /\ n \in Nat /\ now \in Nat /\ q \in Period
      /\ Current = periods[n]
  BY <1>1, CurrentFacts, StateFacts, NewPeriodType
<1>3. /\ q.start = now /\ q.end = NoTime /\ ~q.frozen /\ Weight(q) = 0
      /\ \A b \in Bucket, s \in Slot : q.counts[b][s] = 0
  BY DEF NewPeriod, Weight, NoCounts, EmptyCounts
<1>4. /\ periods' = [periods EXCEPT ![n] = q]
      /\ op' = Begin("keep", maxHistory, FALSE)
      /\ totalsStart' = periods'[1].start
      /\ totals' = Subtract(totals, periods[n].counts)
      /\ nilMap' = (nilMap \/ totals[Global][Total] = periods[n].counts[Global][Total])
      /\ UNCHANGED <<duration, now, panicked, currentPurged>>
  BY DEF RotateThrowAway, Current, Emptied
<1> HIDE DEF q
<1>5. /\ periods' \in Seq(Period)
      /\ Len(periods') = n
      /\ \A k \in 1..n : periods'[k] = IF k = n THEN q ELSE periods[k]
  BY <1>2, <1>4, ExceptSeq, StateFacts
<1>6. op' \in Op /\ op' # Idle /\ op'.numPurged = 0
  <2>1. maxHistory \in Nat
    BY StatsAssumption
  <2> QED
    BY <1>4, <2>1, BeginType DEF Begin, Idle, OpKind
<1>7. Within(periods')
  <2> SUFFICES ASSUME NEW k \in 1..n, NEW b \in Bucket, NEW s \in Slot
               PROVE  /\ periods'[k].counts[b][s] <= periods'[k].counts[b][Total]
                      /\ periods'[k].counts[b][s] <= periods'[k].counts[Global][s]
    BY <1>5 DEF Within
  <2>1. CASE k = n
    BY <1>3, <1>5, <2>1, GlobalTotal
  <2>2. CASE k # n
    BY <1>5, <2>2 DEF IInv, CountsAreWithin
  <2> QED
    BY <2>1, <2>2
<1>8. ASSUME NEW b \in Bucket, NEW s \in Slot
      PROVE  HistoryCount(periods', b, s) =
                HistoryCount(periods, b, s) - periods[n].counts[b][s]
  <2>1. HistoryCount([periods EXCEPT ![n] = q], b, s) =
           HistoryCount(periods, b, s) + (q.counts[b][s] - periods[n].counts[b][s])
    BY <1>2, HistoryCountReplace, StateFacts
  <2>2. HistoryCount(periods, b, s) \in Nat /\ periods[n].counts[b][s] \in Nat
    BY <1>2, HistoryCountBounds, StateFacts
  <2> QED
    BY <1>3, <1>4, <2>1, <2>2
<1>9. /\ totals' \in Counts
      /\ \A b \in Bucket, s \in Slot : totals'[b][s] = HistoryCount(periods', b, s)
      /\ totals[Global][Total] = periods[n].counts[Global][Total] => totals' = NoCounts
      /\ totals = NoCounts => totals' = NoCounts
  BY <1>1, <1>2, <1>4, <1>5, <1>7, <1>8, SubtractPeriod
<1>10. TypeOK'
  <2>1. totalsStart' \in Nat
    BY <1>2, <1>3, <1>4, <1>5, StateFacts DEF Period
  <2>2. nilMap' \in BOOLEAN
    BY <1>4 DEF IInv, TypeOK
  <2> QED
    BY <1>4, <1>5, <1>6, <1>9, <2>1, <2>2 DEF IInv, TypeOK
<1>11. TotalsAreSums'
  BY <1>9 DEF TotalsAreSums
<1>12. PeriodsAreOrdered'
  <2>1. ASSUME NEW k \in 1..n
        PROVE  /\ periods'[k].start <= now
               /\ periods'[k].frozen => periods'[k].end # NoTime
               /\ periods'[k].end # NoTime => /\ periods'[k].start <= periods'[k].end
                                             /\ periods'[k].end <= now
    BY <1>2, <1>3, <1>5 DEF IInv, PeriodsAreOrdered
  <2>2. ASSUME NEW k \in 1..n, k > 1 PROVE periods'[k - 1].end <= periods'[k].start
    <3>1. k - 1 \in 1..n /\ k - 1 < n
      BY <1>2, <2>2
    <3>2. periods'[k - 1] = periods[k - 1] /\ periods[k - 1].frozen
      BY <1>5, <3>1, StateFacts
    <3>3. periods[k - 1].end <= periods[k].start /\ periods[k - 1].end <= now
      BY <2>2, <3>1, <3>2 DEF IInv, PeriodsAreOrdered
    <3>4. periods'[k].start = periods[k].start \/ periods'[k].start = now
      BY <1>3, <1>5
    <3> QED
      BY <3>2, <3>3, <3>4
  <2> QED
    BY <1>4, <1>5, <1>6, <2>1, <2>2 DEF PeriodsAreOrdered
<1>13. DurationIsCovered'
  <2>1. \A k \in 1..Len(periods) : Weight(periods[k]) \in Int
    BY StateFacts
  <2>2. /\ ClosedDuration([periods EXCEPT ![n] = q]) =
              ClosedDuration(periods) + (Weight(q) - Weight(periods[n]))
        /\ ClosedDuration(periods) \in Int
    BY <1>2, <1>3, <2>1, ClosedDurationReplace, StateFacts
  <2>3. Weight(periods[n]) = 0
    BY <1>1, CurrentFacts
  <2>4. ClosedDuration(periods') = ClosedDuration(periods)
    BY <1>3, <1>4, <2>2, <2>3
  <2> QED
    BY <1>4, <2>4 DEF IInv, DurationIsCovered
<1>14. NilMapMeansEmpty'
  BY <1>1, <1>4, <1>9 DEF IInv, NilMapMeansEmpty
<1>15. CurrentIsOpen'
  <2>1. \A k \in 1..n : periods'[k].frozen <=> k < n
    BY <1>1, <1>3, <1>5, CurrentFacts
  <2>2. n > 0
    BY <1>2
  <2> QED
    BY <1>5, <1>6, <2>1, <2>2 DEF CurrentIsOpen
<1> QED
  BY <1>1, <1>4, <1>7, <1>10, <1>11, <1>12, <1>13, <1>14, <1>15
     DEF IInv, CountsAreWithin, Within, PanicIsOutsideOfWriters

LEMMA RotateCloseIInv ==
    ASSUME IInv, NEW maxHistory \in MaxHistories, NEW skipPct,
           RotateClose(maxHistory, skipPct)
    PROVE  IInv'
<1> DEFINE n == Len(periods)
           closed == [Current EXCEPT !.end = now, !.frozen = TRUE]
           mid == [periods EXCEPT ![n] = closed]
           q == NewPeriod(now)
<1>1. op = Idle /\ ~panicked
  BY DEF RotateClose, LockIsFree
<1>2. /\ n \in 1..n /\ n \in Nat /\ now \in Nat /\ q \in Period
      /\ Current = periods[n] /\ Current \in Period /\ Current.start <= now
  BY <1>1, CurrentFacts, StateFacts, NewPeriodType
<1>3. /\ q.start = now /\ q.end = NoTime /\ ~q.frozen
      /\ \A b \in Bucket, s \in Slot : q.counts[b][s] = 0
  BY DEF NewPeriod, NoCounts, EmptyCounts
<1>4. /\ closed \in Period /\ closed.frozen /\ closed.end = now
      /\ closed.start = periods[n].start /\ closed.counts = periods[n].counts
      /\ closed.end # NoTime
  <2>1. closed \in Period
    BY <1>2 DEF Period
  <2>2. /\ closed.frozen /\ closed.end = now
        /\ closed.start = periods[n].start /\ closed.counts = periods[n].counts
    BY <1>2 DEF Period
  <2>3. now # NoTime
    BY <1>2 DEF NoTime
  <2> QED
    BY <2>1, <2>2, <2>3
<1>5. /\ periods' = Append(mid, q)
      /\ op' = Begin("keep", maxHistory, FALSE)
      /\ duration' = duration + PeriodDuration(closed)
      /\ UNCHANGED <<totals, nilMap, totalsStart, now, panicked, currentPurged>>
  BY DEF RotateClose, Closed
<1> HIDE DEF q, closed
<1>6. /\ mid \in Seq(Period) /\ Len(mid) = n
      /\ \A k \in 1..n : mid[k] = IF k = n THEN closed ELSE periods[k]
  BY <1>2, <1>4, ExceptSeq, StateFacts
<1> HIDE DEF mid
<1>7. /\ periods' \in Seq(Period) /\ Len(periods') = n + 1
      /\ \A k \in 1..n : periods'[k] = IF k = n THEN closed ELSE periods[k]
      /\ periods'[n + 1] = q
  BY <1>2, <1>5, <1>6
<1>8. op' \in Op /\ op' # Idle /\ op'.numPurged = 0
  <2>1. maxHistory \in Nat
    BY StatsAssumption
  <2> QED
    BY <1>5, <2>1, BeginType DEF Begin, Idle, OpKind
<1>9. Weight(closed) \in Nat /\ PeriodDuration(closed) = Weight(closed)
  <2>1. Weight(closed) \in Nat
    BY <1>2, <1>4, WeightNat
  <2> QED
    BY <1>4, <2>1 DEF PeriodDuration, DurationAt, Weight
<1>10. ASSUME NEW b \in Bucket, NEW s \in Slot
       PROVE  HistoryCount(periods', b, s) = HistoryCount(periods, b, s)
  <2>1. HistoryCount(mid, b, s) =
           HistoryCount(periods, b, s) + (closed.counts[b][s] - periods[n].counts[b][s])
    <3>1. periods \in Seq(Period) /\ n \in 1..Len(periods) /\ closed \in Period
      BY <1>2, <1>4, StateFacts
    <3> QED
      BY ONLY <3>1, HistoryCountReplace DEF mid
  <2>2. HistoryCount(periods, b, s) \in Nat /\ periods[n].counts[b][s] \in Nat
    BY <1>2, HistoryCountBounds, StateFacts
  <2>3. HistoryCount(Append(mid, q), b, s) = HistoryCount(mid, b, s)
    BY <1>2, <1>6, HistoryCountAppend DEF q
  <2> QED
    BY <1>4, <1>5, <2>1, <2>2, <2>3
<1>11. TypeOK'
  <2>1. duration' \in Int
    BY <1>5, <1>9 DEF IInv, TypeOK
  <2> QED
    BY <1>5, <1>7, <1>8, <2>1 DEF IInv, TypeOK
<1>12. TotalsAreSums'
  BY <1>5, <1>10 DEF IInv, TotalsAreSums
<1>13. PeriodsAreOrdered'
  <2>1. ASSUME NEW k \in 1..(n + 1)
        PROVE  /\ periods'[k].start <= now
               /\ periods'[k].frozen => periods'[k].end # NoTime
               /\ periods'[k].end # NoTime => /\ periods'[k].start <= periods'[k].end
                                             /\ periods'[k].end <= now
    <3>1. CASE k = n + 1
      BY <1>2, <1>3, <1>7, <3>1
    <3>2. CASE k = n
      BY <1>2, <1>4, <1>7, <3>2
    <3>3. CASE k < n
      <4>1. k \in 1..n /\ periods'[k] = periods[k]
        BY <1>2, <1>7, <3>3
      <4> QED
        BY <4>1 DEF IInv, PeriodsAreOrdered
    <3> QED
      BY <1>2, <3>1, <3>2, <3>3
  <2>2. ASSUME NEW k \in 1..(n + 1), k > 1
        PROVE  periods'[k - 1].end <= periods'[k].start
    <3>1. CASE k = n + 1
      <4>1. periods'[k - 1] = closed /\ periods'[k] = q
        BY <1>2, <1>7, <3>1
      <4> QED
        BY <1>2, <1>3, <1>4, <4>1
    <3>2. CASE k <= n
      <4>1. k \in 1..n /\ k - 1 \in 1..n /\ k - 1 # n
        BY <1>2, <2>2, <3>2
      <4>2. periods'[k - 1] = periods[k - 1] /\ periods'[k].start = periods[k].start
        BY <1>4, <1>7, <4>1
      <4> QED
        BY <2>2, <4>1, <4>2 DEF IInv, PeriodsAreOrdered
    <3> QED
      BY <1>2, <3>1, <3>2
  <2> QED
    BY <1>5, <1>7, <1>8, <2>1, <2>2 DEF PeriodsAreOrdered
<1>14. DurationIsCovered'
  <2>1. \A k \in 1..Len(periods) : Weight(periods[k]) \in Int
    BY StateFacts
  <2>2. /\ ClosedDuration(mid) =
              ClosedDuration(periods) + (Weight(closed) - Weight(periods[n]))
        /\ ClosedDuration(periods) \in Int
    BY <1>2, <1>4, <1>9, <2>1, ClosedDurationReplace, StateFacts DEF mid
  <2>3. \A k \in 1..Len(mid) : Weight(mid[k]) \in Int
    BY <1>6, <1>9, <2>1
  <2>4. ClosedDuration(Append(mid, q)) = ClosedDuration(mid)
    BY <1>2, <1>6, <2>3, ClosedDurationAppend DEF q
  <2>5. Weight(periods[n]) = 0
    BY <1>1, CurrentFacts
  <2>6. ClosedDuration(periods') = ClosedDuration(periods) + Weight(closed)
    BY <1>5, <1>9, <2>2, <2>4, <2>5
  <2>7. duration' = duration + Weight(closed) /\ duration \in Int
    BY <1>5, <1>9 DEF IInv, TypeOK
  <2> QED
    BY <1>5, <1>9, <2>2, <2>6, <2>7 DEF IInv, DurationIsCovered
<1>15. CountsAreWithin'
  <2> SUFFICES ASSUME NEW k \in 1..(n + 1), NEW b \in Bucket, NEW s \in Slot
               PROVE  /\ periods'[k].counts[b][s] <= periods'[k].counts[b][Total]
                      /\ periods'[k].counts[b][s] <= periods'[k].counts[Global][s]
    BY <1>7 DEF CountsAreWithin
  <2>1. CASE k = n + 1
    BY <1>3, <1>7, <2>1, GlobalTotal
  <2>2. CASE k # n + 1
    <3>1. k \in 1..n /\ periods'[k].counts = periods[k].counts
      BY <1>2, <1>4, <1>7, <2>2
    <3> QED
      BY <3>1 DEF IInv, CountsAreWithin
  <2> QED
    BY <2>1, <2>2
<1>16. CurrentIsOpen'
  <2>1. ASSUME NEW k \in 1..(n + 1) PROVE periods'[k].frozen <=> k < n + 1
    <3>1. CASE k = n + 1
      BY <1>2, <1>3, <1>7, <3>1
    <3>2. CASE k = n
      BY <1>2, <1>4, <1>7, <3>2
    <3>3. CASE k < n
      <4>1. k \in 1..n /\ periods'[k] = periods[k]
        BY <1>2, <1>7, <3>3
      <4> QED
        BY <1>1, <1>2, <3>3, <4>1, CurrentFacts
    <3> QED
      BY <1>2, <3>1, <3>2, <3>3
  <2>2. n + 1 > 0
    BY <1>2
  <2> QED
    BY <1>7, <1>8, <2>1, <2>2 DEF CurrentIsOpen
<1> QED
  BY <1>1, <1>5, <1>11, <1>12, <1>13, <1>14, <1>15, <1>16
     DEF IInv, NilMapMeansEmpty, PanicIsOutsideOfWriters

-----------------------------------------------------------------------------
(* One iteration of a purge.                                                *)

LEMMA PurgeIInv ==
    ASSUME IInv, ~panicked, op.kind # "idle", NEW i \in 1..Len(periods), Purge(i),
           CurrentIsOpen'
    PROVE  IInv'
<1> DEFINE n == Len(periods) - 1
           del == periods[i]
<1>1. /\ n \in Nat /\ Len(periods) = n + 1
      /\ periods' \in Seq(Period) /\ Len(periods') = n
      /\ \A k \in 1..n : periods'[k] = IF k < i THEN periods[k] ELSE periods[k + 1]
  <2>1. /\ RemoveAt(periods, i) \in Seq(Period)
        /\ Len(RemoveAt(periods, i)) = Len(periods) - 1
        /\ \A k \in 1..(Len(periods) - 1) :
              RemoveAt(periods, i)[k] = IF k < i THEN periods[k] ELSE periods[k + 1]
    BY StateFacts, RemoveAtProperties
  <2>2. periods' = RemoveAt(periods, i) /\ Len(periods) \in Nat
    BY StateFacts DEF Purge
  <2> QED
    BY <2>1, <2>2
<1>first. PICK first \in now..MaxTime, second \in now..MaxTime :
           /\ first <= second
           /\ periods' = RemoveAt(periods, i)
           /\ op' = [op EXCEPT !.numPurged = @ + 1,
                               !.durPurged = @ + DurationAt(del, first)]
           /\ duration' = duration - DurationAt(del, second)
           /\ now' = second
           /\ totals' = Subtract(totals, del.counts)
           /\ nilMap' = (nilMap \/ Emptied(del))
           /\ currentPurged' = (currentPurged \/ ~del.frozen)
           /\ UNCHANGED <<totalsStart, panicked>>
  BY DEF Purge
<1>2. /\ periods' = RemoveAt(periods, i)
      /\ duration' = duration - DurationAt(del, second)
      /\ totals' = Subtract(totals, del.counts)
      /\ nilMap' = (nilMap \/ totals[Global][Total] = del.counts[Global][Total])
      /\ op' = [op EXCEPT !.numPurged = @ + 1, !.durPurged = @ + DurationAt(del, first)]
      /\ currentPurged' = (currentPurged \/ ~del.frozen)
      /\ UNCHANGED <<totalsStart, panicked>>
  BY <1>first DEF Emptied
<1>now. now \in Nat /\ now' \in Nat /\ now <= now'
  BY <1>first, StateFacts DEF StatsAssumption
<1>3. DurationAt(del, first) \in Nat /\ DurationAt(del, second) \in Nat
  <2>1. now \in Nat /\ first \in Nat /\ first >= now /\ second \in Nat /\ second >= now
    BY StateFacts
  <2> QED
    BY <2>1, DurationFacts
<1>4. op' \in Op /\ op' # Idle
  <2>1. /\ op \in Op /\ op.numPurged + 1 \in Nat
        /\ op.durPurged + DurationAt(del, first) \in Nat
    BY <1>3, StateFacts DEF Op
  <2>2. op' \in Op /\ op'.kind = op.kind
    BY <1>2, <2>1 DEF Op
  <2>3. Idle.kind = "idle"
    BY DEF Idle, Begin
  <2> QED
    BY <2>2, <2>3
<1>5. \A k \in 1..n : \E j \in 1..(n + 1) : periods'[k] = periods[j]
  BY <1>1
<1> HIDE DEF n, del
<1>6. Within(periods')
  <2> SUFFICES ASSUME NEW k \in 1..n, NEW b \in Bucket, NEW s \in Slot
               PROVE  /\ periods'[k].counts[b][s] <= periods'[k].counts[b][Total]
                      /\ periods'[k].counts[b][s] <= periods'[k].counts[Global][s]
    BY <1>1 DEF Within
  <2>1. PICK j \in 1..(n + 1) : periods'[k] = periods[j]
    BY <1>5
  <2> QED
    BY <1>1, <2>1 DEF IInv, CountsAreWithin
<1>7. ASSUME NEW b \in Bucket, NEW s \in Slot
      PROVE  HistoryCount(periods', b, s) =
                HistoryCount(periods, b, s) - periods[i].counts[b][s]
  BY <1>2, HistoryCountRemove, StateFacts
<1>8. /\ totals' \in Counts
      /\ \A b \in Bucket, s \in Slot : totals'[b][s] = HistoryCount(periods', b, s)
      /\ totals[Global][Total] = del.counts[Global][Total] => totals' = NoCounts
      /\ totals = NoCounts => totals' = NoCounts
  BY <1>1, <1>2, <1>6, <1>7, SubtractPeriod DEF del
<1>9. TypeOK'
  <2>1. duration' \in Int
    BY <1>2, <1>3 DEF IInv, TypeOK
  <2>2. nilMap' \in BOOLEAN /\ currentPurged' \in BOOLEAN
    BY <1>2 DEF IInv, TypeOK
  <2> QED
    BY <1>1, <1>2, <1>now, <1>4, <1>8, <2>1, <2>2 DEF IInv, TypeOK
<1>10. TotalsAreSums'
  BY <1>8 DEF TotalsAreSums
<1>11. PeriodsAreOrdered'
  <2>1. ASSUME NEW k \in 1..n
        PROVE  /\ periods'[k].start <= now'
               /\ periods'[k].frozen => periods'[k].end # NoTime
               /\ periods'[k].end # NoTime => /\ periods'[k].start <= periods'[k].end
                                             /\ periods'[k].end <= now'
    <3>1. PICK j \in 1..(n + 1) : periods'[k] = periods[j]
      BY <1>5
    <3>2. /\ periods[j].start <= now
          /\ periods[j].frozen => periods[j].end # NoTime
          /\ periods[j].end # NoTime => /\ periods[j].start <= periods[j].end
                                        /\ periods[j].end <= now
      BY <1>1 DEF IInv, PeriodsAreOrdered
    <3>3. periods[j] \in Period
      BY <1>1, StateFacts
    <3> QED
      BY <1>now, <3>1, <3>2, <3>3 DEF Period
  <2>2. ASSUME NEW k \in 1..n, k > 1 PROVE periods'[k - 1].end <= periods'[k].start
    <3>1. /\ k - 1 \in 1..n /\ k \in 1..(n + 1) /\ k - 1 \in 1..(n + 1)
          /\ k + 1 \in 1..(n + 1) /\ (k - 1) + 1 = k /\ (k + 1) - 1 = k /\ k + 1 > 1
      BY <1>1, <2>2
    <3>2. /\ periods[k - 1].end <= periods[k].start
          /\ periods[k].end <= periods[k + 1].start
      BY <1>1, <2>2, <3>1 DEF IInv, PeriodsAreOrdered
    <3>3. CASE k < i
      BY <1>1, <3>1, <3>2, <3>3
    <3>4. CASE k = i
      <4>1. periods[k].frozen
        BY <1>1, <3>1, StateFacts
      <4>2. k - 1 < Len(periods)
        BY <1>1, <3>1
      <4>3. /\ periods[k] \in Period
            /\ periods[k - 1] \in Period /\ periods[k - 1].frozen
            /\ periods[k + 1] \in Period
        BY <1>1, <3>1, <4>2, StateFacts
      <4>4. /\ periods[k - 1].end # NoTime
            /\ periods[k].start <= periods[k].end /\ periods[k].end # NoTime
        BY <1>1, <3>1, <4>1, <4>3 DEF IInv, PeriodsAreOrdered
      <4>5. periods'[k - 1] = periods[k - 1] /\ periods'[k] = periods[k + 1]
        BY <1>1, <3>1, <3>4
      <4>6. /\ periods[k - 1].end \in Nat /\ periods[k].start \in Nat
            /\ periods[k].end \in Nat /\ periods[k + 1].start \in Nat
        BY ONLY <4>3, <4>4 DEF Period
      <4>7. periods[k - 1].end <= periods[k + 1].start
        <5>1. \A u, v, w, z \in Nat : u <= v /\ v <= w /\ w <= z => u <= z
          OBVIOUS
        <5>2. /\ periods[k - 1].end <= periods[k].start
              /\ periods[k].start <= periods[k].end
              /\ periods[k].end <= periods[k + 1].start
          BY <3>2, <4>4
        <5> QED
          BY ONLY <4>6, <5>1, <5>2
      <4> QED
        BY ONLY <4>5, <4>7
    <3>5. CASE k > i
      <4>1. periods'[k - 1] = periods[k] /\ periods'[k] = periods[k + 1]
        BY <1>1, <3>1, <3>5
      <4> QED
        BY <3>2, <4>1
    <3> QED
      BY <1>1, <3>3, <3>4, <3>5
  <2> QED
    BY <1>1, <1>2, <1>4, <2>1, <2>2 DEF PeriodsAreOrdered
<1>12. DurationIsCovered'
  <2>1. \A k \in 1..Len(periods) : Weight(periods[k]) \in Int
    BY StateFacts
  <2>2. ClosedDuration(periods') = ClosedDuration(periods) - Weight(del)
    BY <1>2, <2>1, ClosedDurationRemove, StateFacts DEF del
  <2>3. ClosedDuration(periods) \in Int /\ duration \in Int /\ Weight(del) \in Nat
    <3>1. ClosedDuration(periods) \in Int
      BY <2>1, ClosedDurationReplace, StateFacts
    <3> QED
      BY <3>1, StateFacts DEF IInv, TypeOK, del
  <2>4. /\ duration <= ClosedDuration(periods)
        /\ ~currentPurged => duration = ClosedDuration(periods)
    BY DEF IInv, DurationIsCovered
  <2>5. CASE del.frozen
    <3>1. DurationAt(del, second) = Weight(del)
      BY <2>5, DurationFacts DEF del
    <3>2. /\ duration' = duration - Weight(del)
          /\ currentPurged' = currentPurged
      BY <1>2, <2>5, <3>1 DEF IInv, TypeOK
    <3>3. duration' <= ClosedDuration(periods')
      BY <2>2, <2>3, <2>4, <3>2
    <3>4. duration = ClosedDuration(periods) => duration' = ClosedDuration(periods')
      BY <2>2, <3>2
    <3> QED
      BY <2>4, <3>2, <3>3, <3>4 DEF DurationIsCovered
  <2>6. CASE ~del.frozen
    <3>1. Weight(del) = 0
      BY <2>6 DEF Weight
    <3>2. duration' <= ClosedDuration(periods')
      BY <1>2, <1>3, <2>2, <2>3, <2>4, <3>1
    <3> QED
      BY <1>2, <2>6, <3>2 DEF DurationIsCovered
  <2> QED
    BY <2>5, <2>6
<1>13. NilMapMeansEmpty'
  BY <1>2, <1>8 DEF IInv, NilMapMeansEmpty
<1> QED
  BY <1>2, <1>6, <1>9, <1>10, <1>11, <1>12, <1>13
     DEF IInv, CountsAreWithin, Within, PanicIsOutsideOfWriters

\* Whoever holds the write lock did not panic.
LEMMA WriterFacts ==
    ASSUME IInv, op.kind # "idle"
    PROVE  ~panicked /\ op # Idle
BY DEF IInv, PanicIsOutsideOfWriters, Idle, Begin

\* Purging any period but the last leaves the last one open.
LEMMA PurgeClosed ==
    ASSUME IInv, op.kind # "idle",
           op.kind # "newest" \/ ~op.includeCurrent,
           NEW i \in 1..Len(periods), i < Len(periods), Purge(i)
    PROVE  IInv'
<1> DEFINE n == Len(periods) - 1
<1>1. \A k \in 1..Len(periods) : periods[k].frozen <=> k < Len(periods)
  BY DEF IInv, CurrentIsOpen
<1>2. /\ n \in Nat /\ n > 0 /\ Len(periods) = n + 1 /\ Len(periods') = n
      /\ \A k \in 1..n : periods'[k] = IF k < i THEN periods[k] ELSE periods[k + 1]
  <2>1. /\ Len(RemoveAt(periods, i)) = Len(periods) - 1
        /\ \A k \in 1..(Len(periods) - 1) :
              RemoveAt(periods, i)[k] = IF k < i THEN periods[k] ELSE periods[k + 1]
    BY StateFacts, RemoveAtProperties
  <2>2. periods' = RemoveAt(periods, i) /\ Len(periods) \in Nat
    BY StateFacts DEF Purge
  <2> QED
    BY <2>1, <2>2
<1> HIDE DEF n
<1>3. ASSUME NEW k \in 1..n PROVE periods'[k].frozen <=> k < n
  <2>1. CASE k < i
    BY <1>1, <1>2, <2>1
  <2>2. CASE ~(k < i)
    BY <1>1, <1>2, <2>2
  <2> QED
    BY <2>1, <2>2
<1>4. op'.kind # "newest" \/ ~op'.includeCurrent
  BY StateFacts DEF Purge, Op
<1>5. CurrentIsOpen'
  BY <1>2, <1>3, <1>4 DEF CurrentIsOpen
<1> QED
  BY <1>5, PurgeIInv, WriterFacts

\* The loop of keepRecentStats never reaches the current period: without
\* closed periods there is no duration to exceed anything.
LEMMA KeepRecentLoopIInv == IInv /\ KeepRecentLoop => IInv'
<1> SUFFICES ASSUME IInv, KeepRecentLoop PROVE IInv'
  OBVIOUS
<1>1. /\ op.kind = "keep" /\ Len(periods) > 0 /\ duration > op.arg /\ Purge(1)
      /\ op.arg \in Nat
  BY StateFacts DEF KeepRecentLoop, ExceedsKeep, Op
<1>2. Len(periods) # 1
  <2> SUFFICES ASSUME Len(periods) = 1 PROVE FALSE
    OBVIOUS
  <2>1. ~periods[1].frozen
    BY <1>1 DEF IInv, CurrentIsOpen
  <2>2. ClosedDuration(periods) = 0
    BY <2>1, ZeroSum DEF ClosedDuration
  <2>3. duration <= 0 /\ duration \in Int
    BY <2>2 DEF IInv, DurationIsCovered, TypeOK
  <2> QED
    BY <1>1, <2>3
<1>3. Len(periods) \in Nat
  BY StateFacts
<1>4. 1 \in 1..Len(periods) /\ 1 < Len(periods)
  <2>1. Len(periods) > 0
    BY <1>1
  <2> QED
    BY ONLY <1>2, <1>3, <2>1
<1> QED
  BY <1>1, <1>4, PurgeClosed

LEMMA PurgeOldestLoopIInv == IInv /\ PurgeOldestLoop => IInv'
<1> SUFFICES ASSUME IInv, PurgeOldestLoop PROVE IInv'
  OBVIOUS
<1>1. op.kind = "oldest" /\ Len(periods) > 1 /\ Purge(1)
  BY DEF PurgeOldestLoop, PurgeOldestContinues
<1>2. 1 \in 1..Len(periods)
  BY <1>1, StateFacts
<1> QED
  BY <1>1, <1>2, PurgeClosed

LEMMA PurgeNewestLoopIInv == IInv /\ PurgeNewestLoop => IInv'
<1> SUFFICES ASSUME IInv, PurgeNewestLoop PROVE IInv'
  OBVIOUS
<1>1. op.kind = "newest" /\ Newest > 0 /\ Purge(Newest)
  BY DEF PurgeNewestLoop, PurgeNewestContinues
<1>2. CASE ~op.includeCurrent
  <2>1. Newest = Len(periods) - 1
    BY <1>2 DEF Newest
  <2>2. Newest \in 1..Len(periods) /\ Newest < Len(periods)
    BY <1>1, <2>1, StateFacts
  <2> QED
    BY <1>1, <1>2, <2>2, PurgeClosed
<1>3. CASE op.includeCurrent
  <2>1. Newest = Len(periods) /\ Newest \in 1..Len(periods)
    BY <1>1, <1>3, StateFacts DEF Newest
  <2>2. /\ Len(RemoveAt(periods, Newest)) = Len(periods) - 1
        /\ \A k \in 1..(Len(periods) - 1) :
              RemoveAt(periods, Newest)[k] =
                 IF k < Newest THEN periods[k] ELSE periods[k + 1]
    BY <2>1, StateFacts, RemoveAtProperties
  <2>3. periods' = RemoveAt(periods, Newest)
    BY <1>1 DEF Purge
  <2>4. ASSUME NEW k \in 1..Len(periods') PROVE periods'[k].frozen
    <3>1. Len(periods) \in Nat
      BY StateFacts
    <3>2. k \in 1..Len(periods) /\ k < Len(periods) /\ periods'[k] = periods[k]
      BY ONLY <2>1, <2>2, <2>3, <3>1
    <3> QED
      BY <3>2, StateFacts
  <2>5. op'.kind = "newest" /\ op'.includeCurrent /\ op'.numPurged > 0
    <3>1. op \in Op /\ op.numPurged \in Nat
      BY StateFacts DEF Op
    <3> QED
      BY <1>1, <1>3, <3>1 DEF Purge, Op
  <2>6. CurrentIsOpen'
    BY <2>4, <2>5 DEF CurrentIsOpen
  <2> QED
    BY <1>1, <2>1, <2>6, PurgeIInv, WriterFacts
<1> QED
  BY <1>2, <1>3

-----------------------------------------------------------------------------
(* The ends of the purges.                                                  *)

\* The list is what the loop left, and ends in the open current period.
LEMMA FinishUnchanged ==
    ASSUME IInv, op.kind # "idle",
           ~(op.kind = "newest" /\ op.includeCurrent /\ op.numPurged > 0),
           Finish(periods)
    PROVE  IInv'
<1>1. /\ periods' = periods /\ totalsStart' = periods[1].start /\ op' = Idle
      /\ UNCHANGED <<totals, nilMap, duration, now, panicked, currentPurged>>
  BY DEF Finish
<1>2. /\ Len(periods) > 0
      /\ \A k \in 1..Len(periods) : periods[k].frozen <=> k < Len(periods)
  BY DEF IInv, CurrentIsOpen
<1>3. CurrentIsOpen'
  BY <1>1, <1>2 DEF CurrentIsOpen, Idle, Begin
<1>4. TypeOK'
  <2>1. totalsStart' \in Nat
    <3>1. Len(periods) \in Nat
      BY StateFacts
    <3>2. 1 \in 1..Len(periods)
      BY ONLY <1>2, <3>1
    <3>3. periods[1] \in Period
      BY <3>2, StateFacts
    <3> QED
      BY ONLY <1>1, <3>3 DEF Period
  <2> QED
    BY <1>1, <2>1, IdleType DEF IInv, TypeOK
<1>5. PeriodsAreOrdered'
  BY <1>1 DEF IInv, PeriodsAreOrdered
<1> QED
  BY <1>1, <1>3, <1>4, <1>5
     DEF IInv, TotalsAreSums, DurationIsCovered, NilMapMeansEmpty, CountsAreWithin,
         PanicIsOutsideOfWriters

\* The current period was purged, and a new one takes its place.
LEMMA FinishWithNewPeriod ==
    ASSUME IInv, op.kind = "newest", op.includeCurrent, op.numPurged > 0,
           Finish(Append(periods, NewPeriod(now)))
    PROVE  IInv'
<1> DEFINE n == Len(periods)
           q == NewPeriod(now)
<1>1. /\ periods' = Append(periods, q) /\ totalsStart' = periods'[1].start /\ op' = Idle
      /\ UNCHANGED <<totals, nilMap, duration, now, panicked, currentPurged>>
  BY DEF Finish
<1>2. n \in Nat /\ now \in Nat /\ q \in Period /\ periods \in Seq(Period)
  BY StateFacts, NewPeriodType
<1>3. /\ q.start = now /\ q.end = NoTime /\ ~q.frozen
      /\ \A b \in Bucket, s \in Slot : q.counts[b][s] = 0
  BY DEF NewPeriod, NoCounts, EmptyCounts
<1> HIDE DEF q
<1>4. /\ periods' \in Seq(Period) /\ Len(periods') = n + 1 /\ periods'[n + 1] = q
      /\ \A k \in 1..n : periods'[k] = periods[k]
  BY <1>1, <1>2
<1>5. \A k \in 1..n : periods[k].frozen
  BY DEF IInv, CurrentIsOpen
<1>6. TypeOK'
  <2>1. periods'[1] \in Period
    BY <1>2, <1>4, ElementOfSeq
  <2>2. totalsStart' \in Nat
    BY <1>1, <2>1 DEF Period
  <2> QED
    BY <1>1, <1>4, <2>2, IdleType DEF IInv, TypeOK
<1>7. TotalsAreSums'
  <2>1. \A b \in Bucket, s \in Slot :
           HistoryCount(periods', b, s) = HistoryCount(periods, b, s)
    BY <1>1, <1>2, HistoryCountAppend DEF q
  <2> QED
    BY <1>1, <2>1 DEF IInv, TotalsAreSums
<1>8. PeriodsAreOrdered'
  <2>1. ASSUME NEW k \in 1..(n + 1)
        PROVE  /\ periods'[k].start <= now
               /\ periods'[k].frozen => periods'[k].end # NoTime
               /\ periods'[k].end # NoTime => /\ periods'[k].start <= periods'[k].end
                                             /\ periods'[k].end <= now
    <3>1. CASE k = n + 1
      BY <1>2, <1>3, <1>4, <3>1
    <3>2. CASE k # n + 1
      <4>1. k \in 1..n /\ periods'[k] = periods[k]
        BY <1>2, <1>4, <3>2
      <4> QED
        BY <4>1 DEF IInv, PeriodsAreOrdered
    <3> QED
      BY <3>1, <3>2
  <2>2. ASSUME NEW k \in 1..(n + 1), k > 1
        PROVE  periods'[k - 1].end <= periods'[k].start
    <3>1. CASE k = n + 1
      <4>1. periods'[k - 1] = periods[n] /\ periods'[k] = q /\ n \in 1..n
        BY <1>2, <1>4, <2>2, <3>1
      <4>2. periods[n].end <= now
        BY <1>5, <4>1 DEF IInv, PeriodsAreOrdered
      <4> QED
        BY <1>3, <4>1, <4>2
    <3>2. CASE k # n + 1
      <4>1. /\ k \in 1..n /\ k - 1 \in 1..n
            /\ periods'[k] = periods[k] /\ periods'[k - 1] = periods[k - 1]
        BY <1>2, <1>4, <2>2, <3>2
      <4> QED
        BY <2>2, <4>1 DEF IInv, PeriodsAreOrdered
    <3> QED
      BY <3>1, <3>2
  <2> QED
    BY <1>1, <1>4, <2>1, <2>2 DEF PeriodsAreOrdered
<1>9. DurationIsCovered'
  <2>1. \A k \in 1..Len(periods) : Weight(periods[k]) \in Int
    BY StateFacts
  <2>2. ClosedDuration(periods') = ClosedDuration(periods)
    BY <1>1, <1>2, <2>1, ClosedDurationAppend DEF q
  <2> QED
    BY <1>1, <2>2 DEF IInv, DurationIsCovered
<1>10. CountsAreWithin'
  <2> SUFFICES ASSUME NEW k \in 1..(n + 1), NEW b \in Bucket, NEW s \in Slot
               PROVE  /\ periods'[k].counts[b][s] <= periods'[k].counts[b][Total]
                      /\ periods'[k].counts[b][s] <= periods'[k].counts[Global][s]
    BY <1>4 DEF CountsAreWithin
  <2>1. CASE k = n + 1
    BY <1>3, <1>4, <2>1, GlobalTotal
  <2>2. CASE k # n + 1
    <3>1. k \in 1..n /\ periods'[k] = periods[k]
      BY <1>2, <1>4, <2>2
    <3> QED
      BY <3>1 DEF IInv, CountsAreWithin
  <2> QED
    BY <2>1, <2>2
<1>11. CurrentIsOpen'
  <2>1. ASSUME NEW k \in 1..(n + 1) PROVE periods'[k].frozen <=> k < n + 1
    <3>1. CASE k = n + 1
      BY <1>2, <1>3, <1>4, <3>1
    <3>2. CASE k # n + 1
      <4>1. k \in 1..n /\ k < n + 1 /\ periods'[k] = periods[k]
        BY <1>2, <1>4, <3>2
      <4> QED
        BY <1>5, <4>1
    <3> QED
      BY <3>1, <3>2
  <2>2. n + 1 > 0
    BY <1>2
  <2> QED
    BY <1>1, <1>4, <2>1, <2>2 DEF CurrentIsOpen, Idle, Begin
<1> QED
  BY <1>1, <1>6, <1>7, <1>8, <1>9, <1>10, <1>11
     DEF IInv, NilMapMeansEmpty, PanicIsOutsideOfWriters

LEMMA EndsIInv ==
    IInv /\ (KeepRecentEnd \/ PurgeOldestEnd \/ PurgeNewestEnd) => IInv'
<1>1. ASSUME IInv, KeepRecentEnd PROVE IInv'
  <2>1. op.kind = "keep"
    BY <1>1 DEF KeepRecentEnd
  <2>2. Len(periods) > 0
    BY <1>1, <2>1 DEF IInv, CurrentIsOpen
  <2>3. periods # <<>>
    BY <2>2
  <2>4. Finish(periods)
    BY <1>1, <2>3 DEF KeepRecentEnd
  <2> QED
    BY <1>1, <2>1, <2>4, FinishUnchanged
<1>2. ASSUME IInv, PurgeOldestEnd PROVE IInv'
  BY <1>2, FinishUnchanged DEF PurgeOldestEnd
<1>3. ASSUME IInv, PurgeNewestEnd PROVE IInv'
  <2>1. op.kind = "newest"
    BY <1>3 DEF PurgeNewestEnd
  <2>2. CASE op.includeCurrent /\ op.numPurged > 0
    <3>1. Finish(Append(periods, NewPeriod(now)))
      BY <1>3, <2>2 DEF PurgeNewestEnd
    <3> QED
      BY <1>3, <2>1, <2>2, <3>1, FinishWithNewPeriod
  <2>3. CASE ~(op.includeCurrent /\ op.numPurged > 0)
    <3>1. Finish(periods)
      BY <1>3, <2>3 DEF PurgeNewestEnd
    <3> QED
      BY <1>3, <2>1, <2>3, <3>1, FinishUnchanged
  <2> QED
    BY <2>2, <2>3
<1> QED
  BY <1>1, <1>2, <1>3

-----------------------------------------------------------------------------
(* The theorems.                                                            *)

LEMMA NextIInv == IInv /\ [Next]_vars => IInv'
<1> SUFFICES ASSUME IInv, [Next]_vars PROVE IInv'
  OBVIOUS
<1>1. CASE Tick
  BY <1>1, TickIInv
<1>2. CASE \E maxHistory \in MaxHistories, skipPct \in SkipPcts :
              \/ RotateClose(maxHistory, skipPct)
              \/ RotateThrowAway(maxHistory, skipPct)
  BY <1>2, RotateCloseIInv, RotateThrowAwayIInv
<1>3. ASSUME NEW d \in KeepDurations, KeepRecent(d) PROVE IInv'
  <2>1. d \in Nat /\ "keep" \in OpKind \ {"idle"} /\ FALSE \in BOOLEAN
    BY StatsAssumption DEF OpKind
  <2> QED
    BY <1>3, <2>1, BeginIInv DEF KeepRecent, LockIsFree
<1>4. ASSUME NEW d \in PurgeDurations, PurgeOldest(d) PROVE IInv'
  <2>1. d \in Nat /\ "oldest" \in OpKind \ {"idle"} /\ FALSE \in BOOLEAN
    BY StatsAssumption DEF OpKind
  <2> QED
    BY <1>4, <2>1, BeginIInv DEF PurgeOldest, LockIsFree
<1>5. ASSUME NEW d \in PurgeDurations, NEW includeCurrent \in BOOLEAN,
             PurgeNewest(d, includeCurrent)
      PROVE  IInv'
  <2>1. d \in Nat /\ "newest" \in OpKind \ {"idle"}
    BY StatsAssumption DEF OpKind
  <2> QED
    BY <1>5, <2>1, BeginIInv DEF PurgeNewest, LockIsFree
<1>6. ASSUME NEW p \in PokemonKey, NEW nests \in SUBSET Nest, AddPokemon(p, nests)
      PROVE  IInv'
  BY <1>6, AddPokemonIInv
<1>7. CASE GetSnapshot
  BY <1>7, GetSnapshotIInv
<1>8. CASE Writer
  BY <1>8, KeepRecentLoopIInv, PurgeOldestLoopIInv, PurgeNewestLoopIInv, EndsIInv
     DEF Writer
<1>9. CASE UNCHANGED vars
  BY <1>9
     DEF vars, IInv, TypeOK, TotalsAreSums, PeriodsAreOrdered, DurationIsCovered,
         NilMapMeansEmpty, CountsAreWithin, CurrentIsOpen, PanicIsOutsideOfWriters
<1> QED
  BY <1>1, <1>2, <1>3, <1>4, <1>5, <1>6, <1>7, <1>8, <1>9 DEF Next, Request

LEMMA Invariance == Spec => []IInv
BY InitIInv, NextIInv, PTL DEF Spec

\* No count of Totals ever wraps around and no nest is ever missing from it,
\* whatever is counted, rotated out, thrown away and purged: totals stays in
\* Counts (subtract in processor/stats.go).
THEOREM StatsTypeCorrect == Spec => []TypeOK
<1>1. IInv => TypeOK
  BY DEF IInv
<1> QED
  BY <1>1, Invariance, PTL

\* Totals is always the sum of the stats of all periods (the comment on
\* StatsCollection.Totals), also between two iterations of a purge.
THEOREM TotalsCorrect == Spec => []TotalsAreSums
<1>1. IInv => TotalsAreSums
  BY DEF IInv
<1> QED
  BY <1>1, Invariance, PTL

\* Whenever the lock is free the last period is the one that still counts
\* ("there's always an entry" in StatsCollection.AddPokemon).
THEOREM OpenPeriodCorrect == Spec => []OneOpenPeriod
<1>1. IInv => OneOpenPeriod
  <2> SUFFICES ASSUME IInv, op = Idle PROVE OneOpenPeriod
    BY DEF OneOpenPeriod
  <2>1. Len(periods) > 0
    BY CurrentFacts, StateFacts
  <2>2. periods # <<>>
    BY <2>1
  <2> QED
    BY <2>2, CurrentFacts DEF OneOpenPeriod
<1> QED
  BY <1>1, Invariance, PTL

\* The periods are in the order of time, and Totals starts with the oldest.
THEOREM OrderCorrect == Spec => []PeriodsAreOrdered
<1>1. IInv => PeriodsAreOrdered
  BY DEF IInv
<1> QED
  BY <1>1, Invariance, PTL

\* Duration is exact until a current period is purged, and never too large.
THEOREM DurationCorrect == Spec => []DurationIsCovered
<1>1. IInv => DurationIsCovered
  BY DEF IInv
<1> QED
  BY <1>1, Invariance, PTL

\* subtract drops the pokemon map of an empty Totals only.
THEOREM NilMapCorrect == Spec => []NilMapMeansEmpty
<1>1. IInv => NilMapMeansEmpty
  BY DEF IInv
<1> QED
  BY <1>1, Invariance, PTL
-----------------------------------------------------------------------------
(* The action properties.                                                   *)

\* keepRecentStats purges only from a history longer than what is to be kept,
\* and until a current period was purged leaves none that is.
THEOREM KeepRecentCorrect == Spec => KeepRecentIsExact
<1>1. ASSUME IInv
      PROVE  /\ duration \in Int /\ op.arg \in Nat
             /\ ClosedDuration(periods) \in Int
             /\ duration <= ClosedDuration(periods)
             /\ ~currentPurged => duration = ClosedDuration(periods)
  <2>1. duration \in Int /\ op.arg \in Nat
    BY <1>1 DEF IInv, TypeOK, Op
  <2>2. ClosedDuration(periods) \in Int
    <3> DEFINE f == [i \in 1..Len(periods) |-> Weight(periods[i])]
    <3>1. Len(periods) \in Nat /\ f \in [1..Len(periods) -> Int]
      BY <1>1, StateFacts
    <3>2. PrefixSum(f, Len(periods)) \in Int
      BY <3>1, PrefixSumInt
    <3> QED
      BY <3>2 DEF ClosedDuration, Weight
  <2> QED
    BY <1>1, <2>1, <2>2 DEF IInv, DurationIsCovered
<1>2. ASSUME IInv, KeepRecentLoop PROVE ClosedDuration(periods) > op.arg
  BY <1>1, <1>2 DEF KeepRecentLoop, ExceedsKeep
<1>3. ASSUME IInv, KeepRecentEnd, ~currentPurged
      PROVE  ClosedDuration(periods') <= op.arg
  <2>1. Len(periods) > 0
    BY <1>3 DEF IInv, CurrentIsOpen, KeepRecentEnd
  <2>2. periods' = periods
    BY <1>3, <2>1, StateFacts DEF KeepRecentEnd, Finish
  <2>3. duration <= op.arg
    BY <1>1, <1>3, <2>1 DEF KeepRecentEnd, ExceedsKeep
  <2> QED
    BY <1>1, <1>3, <2>2, <2>3
<1>4. IInv => [/\ KeepRecentLoop => ClosedDuration(periods) > op.arg
               /\ KeepRecentEnd /\ ~currentPurged
                     => ClosedDuration(periods') <= op.arg]_vars
  BY <1>2, <1>3
<1> QED
  BY <1>4, Invariance, PTL DEF KeepRecentIsExact

\* A closed period of the next state was there before, or is the current one
\* that Rotate closes.
OnlyRotateCloses ==
    \A i \in 1..Len(periods') :
        periods'[i].frozen =>
            \/ \E j \in 1..Len(periods) : periods[j] = periods'[i]
            \/ periods'[i] = Closed(Current)

\* The steps under the write lock close nothing.
LEMMA PurgeClosesNothing ==
    ASSUME IInv, NEW i \in 1..Len(periods), Purge(i)
    PROVE  OnlyRotateCloses
<1>1. Len(periods) \in Nat /\ periods \in Seq(Period)
  BY StateFacts
<1>2. /\ Len(periods') = Len(periods) - 1
      /\ \A k \in 1..(Len(periods) - 1) :
            periods'[k] = IF k < i THEN periods[k] ELSE periods[k + 1]
  BY <1>1, RemoveAtProperties DEF Purge
<1>3. ASSUME NEW k \in 1..Len(periods')
      PROVE  \E j \in 1..Len(periods) : periods[j] = periods'[k]
  <2>1. k \in 1..Len(periods) /\ k + 1 \in 1..Len(periods)
    BY <1>1, <1>2
  <2>2. periods'[k] = periods[k] \/ periods'[k] = periods[k + 1]
    BY <1>1, <1>2
  <2> QED
    BY <2>1, <2>2
<1> QED
  BY <1>3 DEF OnlyRotateCloses

LEMMA WriterClosesNothing ==
    ASSUME IInv, Writer
    PROVE  OnlyRotateCloses
<1>1. Len(periods) \in Nat /\ periods \in Seq(Period)
  BY StateFacts
<1>2. CASE KeepRecentLoop
  <2>1. 1 \in 1..Len(periods)
    BY <1>1, <1>2 DEF KeepRecentLoop, ExceedsKeep
  <2> QED
    BY <1>2, <2>1, PurgeClosesNothing DEF KeepRecentLoop
<1>3. CASE PurgeOldestLoop
  <2>1. 1 \in 1..Len(periods)
    BY <1>1, <1>3 DEF PurgeOldestLoop, PurgeOldestContinues
  <2> QED
    BY <1>3, <2>1, PurgeClosesNothing DEF PurgeOldestLoop
<1>4. CASE PurgeNewestLoop
  <2>1. Newest \in 1..Len(periods)
    BY <1>1, <1>4 DEF PurgeNewestLoop, PurgeNewestContinues, Newest
  <2> QED
    BY <1>4, <2>1, PurgeClosesNothing DEF PurgeNewestLoop
<1>5. CASE KeepRecentEnd \/ PurgeOldestEnd \/ PurgeNewestEnd
  <2>1. \/ periods' = periods
        \/ periods' = <<NewPeriod(now)>>
        \/ periods' = Append(periods, NewPeriod(now))
    BY <1>5 DEF KeepRecentEnd, PurgeOldestEnd, PurgeNewestEnd, Finish
  <2>2. ~NewPeriod(now).frozen
    BY DEF NewPeriod
  <2>3. CASE periods' = periods
    BY <2>3 DEF OnlyRotateCloses
  <2>4. CASE periods' = <<NewPeriod(now)>>
    BY <2>2, <2>4 DEF OnlyRotateCloses
  <2>5. CASE periods' = Append(periods, NewPeriod(now))
    <3>1. Len(periods') = Len(periods) + 1
      BY <1>1, <2>5
    <3>2. ASSUME NEW k \in 1..Len(periods'), periods'[k].frozen
          PROVE  k \in 1..Len(periods) /\ periods[k] = periods'[k]
      BY <1>1, <2>2, <2>5, <3>1, <3>2
    <3> QED
      BY <3>2 DEF OnlyRotateCloses
  <2> QED
    BY <2>1, <2>3, <2>4, <2>5
<1> QED
  BY <1>2, <1>3, <1>4, <1>5 DEF Writer

\* The requests change the current period only, and leave it open, or close it
\* as it is.
LEMMA ReplaceClosesNothing ==
    ASSUME IInv, op = Idle, NEW p \in Period, ~p.frozen,
           periods' = [periods EXCEPT ![Len(periods)] = p]
    PROVE  OnlyRotateCloses
<1>1. Len(periods) \in Nat
  BY StateFacts
<1>2. /\ Len(periods') = Len(periods)
      /\ \A k \in 1..Len(periods) :
            periods'[k] = IF k = Len(periods) THEN p ELSE periods[k]
  BY StateFacts, CurrentFacts, ExceptSeq
<1>3. ASSUME NEW k \in 1..Len(periods'), periods'[k].frozen
      PROVE  k \in 1..Len(periods) /\ periods[k] = periods'[k]
  <2>1. k \in 1..Len(periods)
    BY <1>2
  <2>2. k # Len(periods)
    BY <1>2, <1>3, <2>1
  <2> QED
    BY <1>2, <2>1, <2>2
<1> QED
  BY <1>3 DEF OnlyRotateCloses

LEMMA RequestClosesCurrent ==
    ASSUME IInv, Request
    PROVE  OnlyRotateCloses
<1>1. Len(periods) \in Nat /\ periods \in Seq(Period)
  BY StateFacts
<1>2. ASSUME UNCHANGED periods PROVE OnlyRotateCloses
  BY <1>2 DEF OnlyRotateCloses
<1>3. ASSUME NEW h, NEW pct, RotateThrowAway(h, pct) PROVE OnlyRotateCloses
  <2>1. ~NewPeriod(now).frozen /\ NewPeriod(now) \in Period
    BY StateFacts, NewPeriodType DEF NewPeriod
  <2> QED
    BY <1>3, <2>1, ReplaceClosesNothing DEF RotateThrowAway, LockIsFree
<1>4. ASSUME NEW h, NEW pct, RotateClose(h, pct) PROVE OnlyRotateCloses
  <2> DEFINE closed == Closed(Current)
             list == [periods EXCEPT ![Len(periods)] = closed]
  <2>1. periods' = Append(list, NewPeriod(now))
    BY <1>4 DEF RotateClose
  <2>2. ~NewPeriod(now).frozen
    BY DEF NewPeriod
  <2>3. closed \in Period
    BY <1>4, CurrentFacts, StateFacts DEF Closed, Period, RotateClose, LockIsFree
  <2>4. op = Idle
    BY <1>4 DEF RotateClose, LockIsFree
  <2>5. /\ list \in Seq(Period) /\ Len(list) = Len(periods)
        /\ \A k \in 1..Len(periods) :
              list[k] = IF k = Len(periods) THEN closed ELSE periods[k]
    BY <2>3, <2>4, StateFacts, CurrentFacts, ExceptSeq
  <2> HIDE DEF closed, list
  <2>6. ASSUME NEW k \in 1..Len(periods'), periods'[k].frozen
        PROVE  (k \in 1..Len(periods) /\ periods[k] = periods'[k])
               \/ periods'[k] = closed
    <3>1. Len(periods') = Len(periods) + 1
      BY <2>1, <2>5
    <3>2. k \in 1..Len(periods)
      BY <1>1, <2>1, <2>2, <2>5, <2>6, <3>1
    <3>3. periods'[k] = list[k]
      BY <2>1, <2>5, <3>2
    <3> QED
      BY <2>5, <3>2, <3>3
  <2> QED
    BY <2>6 DEF OnlyRotateCloses, closed
<1>5. ASSUME NEW p \in PokemonKey, NEW nests \in SUBSET Nest,
             AddPokemon(p, nests)
      PROVE  OnlyRotateCloses
  <2> DEFINE q == [Current EXCEPT !.counts = Counted(@, p, nests)]
  <2>1. ~q.frozen /\ q \in Period
    <3>1. Current \in Period /\ ~Current.frozen
      BY <1>5, CurrentFacts DEF AddPokemon, LockIsFree
    <3>2. Counted(Current.counts, p, nests) \in Counts
      BY <3>1, CountedType DEF Period
    <3> QED
      BY <3>1, <3>2 DEF Period
  <2>2. periods' = [periods EXCEPT ![Len(periods)] = q]
    BY <1>5 DEF AddPokemon, Current
  <2> HIDE DEF q
  <2> QED
    BY <1>5, <2>1, <2>2, ReplaceClosesNothing DEF AddPokemon, LockIsFree
<1>6. ASSUME GetSnapshot PROVE OnlyRotateCloses
  <2> DEFINE q == [Current EXCEPT !.end = now]
  <2>1. ~q.frozen /\ q \in Period
    BY <1>6, CurrentFacts, StateFacts DEF GetSnapshot, LockIsFree, Period
  <2>2. periods' = [periods EXCEPT ![Len(periods)] = q]
    BY <1>6 DEF GetSnapshot, Current
  <2> HIDE DEF q
  <2> QED
    BY <1>6, <2>1, <2>2, ReplaceClosesNothing DEF GetSnapshot, LockIsFree
<1> QED
  BY <1>2, <1>3, <1>4, <1>5, <1>6 DEF Request, KeepRecent, PurgeOldest, PurgeNewest

\* What Rotate hands to ProcessStatsCollection without a copy never changes:
\* no step touches the counts or the times of a closed period.
THEOREM ClosedPeriodsCorrect == Spec => ClosedPeriodsAreImmutable
<1>1. IInv /\ [Next]_vars => [OnlyRotateCloses]_vars
  <2> SUFFICES ASSUME IInv, Next PROVE OnlyRotateCloses
    OBVIOUS
  <2>1. CASE Tick
    BY <2>1 DEF Tick, OnlyRotateCloses
  <2> QED
    BY <2>1, RequestClosesCurrent, WriterClosesNothing DEF Next
<1>2. Spec => [][OnlyRotateCloses]_vars
  BY <1>1, Invariance, PTL DEF Spec
<1> QED
  BY <1>2 DEF OnlyRotateCloses, ClosedPeriodsAreImmutable

=============================================================================
