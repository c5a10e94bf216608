---------------------------- MODULE StatsSlices ----------------------------
(***************************************************************************)
(* The memory that the operations of processor/stats.go share: the time    *)
(* periods are pointers, the list of them is a slice of a backing array,   *)
(* and GetSnapshot and Rotate hand out slices of that same array.          *)
(*                                                                         *)
(* Threads that add a pokemon or take a snapshot hold StatsCollection.mutex*)
(* for reading and interleave, lock by lock.  A rotation or a purge waits  *)
(* for it to be free of readers and is one step: StatsCollection models    *)
(* which periods it removes, here any number of them may go.  A period and *)
(* Totals count the sightings of one pokemon.                              *)
(***************************************************************************)
EXTENDS Integers, FiniteSets, Sequences, PrefixSums

CONSTANTS
    Adder,         \* threads that call AddPokemon
    Snapshotter,   \* threads that call GetSnapshot
    InitialCap,    \* capacity of the first backing array (8 in the code)
    MaxPeriods,    \* bound on the periods ever allocated, clones included
    MaxSightings   \* bound on the pokemon that Totals counts

ASSUME SlicesAssumption ==
    /\ Adder \cap Snapshotter = {}
    /\ IsFiniteSet(Adder)
    /\ InitialCap \in Nat \ {0}
    /\ MaxPeriods \in Nat /\ MaxSightings \in Nat

VARIABLES
    heap,        \* the periods ever allocated; a pointer is an index into it
    arrays,      \* the backing arrays ever allocated
    live,        \* the slice CountsByTimePeriod
    total,       \* the count of Totals
    pc,          \* what each thread does next; not "idle" is: holds the read lock
    ptr,         \* the period each thread has read the pointer of, or cloned
    writer,      \* "waiting": a rotation or a purge has called mutex.Lock()
    batch,       \* the slice that the last Rotate returned
    view,        \* what each GetSnapshot returned, and its last period's count
    overlapped   \* history: some AddPokemon ran concurrently to a GetSnapshot

vars == <<heap, arrays, live, total, pc, ptr, writer, batch, view, overlapped>>
memory == <<heap, arrays, live, total>>

-----------------------------------------------------------------------------
(* Pointers, arrays and slices.                                             *)

Nil == 0
Thread == Adder \cup Snapshotter
Period == [count: Nat, frozen: BOOLEAN]
NewPeriod == [count |-> 0, frozen |-> FALSE]
Slice == [arr: Nat, off: Nat, len: Nat]

Index(slice, i) == slice.off + i
Entry(slice, i) == arrays[slice.arr][Index(slice, i)]

NewPointer == Len(heap) + 1

\* The memory after list = append(slice, pointer): in place while the array
\* has room, into an array of twice the capacity otherwise.
Appended(arrs, slice, pointer) ==
    LET array == arrs[slice.arr]
        cap   == Len(array) - slice.off
        old   == SubSeq(array, slice.off + 1, slice.off + slice.len)
        room  == IF cap = 0 THEN 1 ELSE 2 * cap
    IN  IF slice.len < cap
        THEN [arrays |-> [arrs EXCEPT ![slice.arr][slice.off + slice.len + 1] = pointer],
              slice  |-> [slice EXCEPT !.len = @ + 1]]
        ELSE [arrays |-> Append(arrs, [i \in 1..room |->
                             IF i <= slice.len THEN old[i]
                             ELSE IF i = slice.len + 1 THEN pointer ELSE Nil]),
              slice  |-> [arr |-> Len(arrs) + 1, off |-> 0, len |-> slice.len + 1]]

Dropped(slice, k) == [arr |-> slice.arr, off |-> slice.off + k, len |-> slice.len - k]

\* Mutant: the periods are set to nil, but the old array stays in use.
KeptInPlace(arrs, slice, k) ==
    IF k = 0
    THEN [arrays |-> arrs, slice |-> slice]
    ELSE [arrays |-> [arrs EXCEPT ![slice.arr] = [i \in DOMAIN @ |->
                         IF i \in slice.off + k + 1 .. slice.off + slice.len
                         THEN Nil ELSE @[i]]],
          slice  |-> Dropped(slice, k)]

\* The memory after keepRecentStats has purged k periods: the others move to
\* an array of their own, and the old one is cleared behind them.
Kept(arrs, slice, k) ==
    LET rest == slice.off + k + 1 .. slice.off + slice.len
    IN  IF k = 0
        THEN [arrays |-> arrs, slice |-> slice]
        ELSE [arrays |->
                 Append([arrs EXCEPT ![slice.arr] =
                            [i \in DOMAIN @ |-> IF i \in rest THEN Nil ELSE @[i]]],
                        SubSeq(arrs[slice.arr], slice.off + k + 1,
                               slice.off + slice.len)),
              slice |-> [arr |-> Len(arrs) + 1, off |-> 0, len |-> slice.len - k]]

\* What the periods from the m-th to the n-th count together.
CountOf(m, n) ==
    PrefixSum([i \in 1..n |-> IF i < m THEN 0 ELSE heap[Entry(live, i)].count], n)

-----------------------------------------------------------------------------
(* sync.RWMutex: a waiting writer keeps new readers out.                    *)

Readers == {t \in Thread : pc[t] # "idle"}

\* Mutant: the writers take the lock for reading only.
WritesBesideReaders == writer = "waiting"

RLocked(t) == pc[t] = "idle" /\ writer = "idle"
Locked == writer = "waiting" /\ Readers = {}

LockForWriting ==
    /\ writer = "idle"
    /\ writer' = "waiting"
    /\ UNCHANGED <<memory, pc, ptr, batch, view, overlapped>>

NoSlice == [arr |-> Nil, off |-> 0, len |-> 0]
NoView == [slice |-> NoSlice, last |-> Nil, count |-> 0]

Init ==
    /\ heap = <<NewPeriod>>
    /\ arrays = <<[i \in 1..InitialCap |-> IF i = 1 THEN 1 ELSE Nil]>>
    /\ live = [arr |-> 1, off |-> 0, len |-> 1]
    /\ total = 0
    /\ pc = [t \in Thread |-> "idle"]
    /\ ptr = [t \in Thread |-> Nil]
    /\ writer = "idle"
    /\ batch = NoSlice
    /\ view = [t \in Snapshotter |-> NoView]
    /\ overlapped = FALSE

-----------------------------------------------------------------------------
(* AddPokemon: the period is counted under its own lock, then Totals under  *)
(* its own.                                                                 *)

AddPokemon(t) ==
    /\ RLocked(t)
    /\ total + Cardinality({a \in Adder : pc[a] # "idle"}) < MaxSightings
    /\ ptr' = [ptr EXCEPT ![t] = Entry(live, live.len)]
    /\ pc' = [pc EXCEPT ![t] = "count"]
    /\ overlapped' = (overlapped \/ \E s \in Snapshotter : pc[s] # "idle")
    /\ UNCHANGED <<memory, writer, batch, view>>

\* Mutant: a sighting is counted twice.
CountInPeriodTwice(t) ==
    /\ pc[t] = "count"
    /\ heap' = [heap EXCEPT ![ptr[t]].count = @ + 2]
    /\ pc' = [pc EXCEPT ![t] = "total"]
    /\ UNCHANGED <<arrays, live, total, ptr, writer, batch, view, overlapped>>

CountInPeriod(t) ==
    /\ pc[t] = "count"
    /\ IF heap[ptr[t]].frozen
       THEN /\ pc' = [pc EXCEPT ![t] = "idle"]
            /\ ptr' = [ptr EXCEPT ![t] = Nil]
            /\ UNCHANGED heap
       ELSE /\ heap' = [heap EXCEPT ![ptr[t]].count = @ + 1]
            /\ pc' = [pc EXCEPT ![t] = "total"]
            /\ UNCHANGED ptr
    /\ UNCHANGED <<arrays, live, total, writer, batch, view, overlapped>>

\* Mutant: a sighting is counted in Totals only once per period.
CountInTotalsOnce(t) ==
    /\ pc[t] = "total"
    /\ total' = IF heap[ptr[t]].count > 1 THEN total ELSE total + 1
    /\ pc' = [pc EXCEPT ![t] = "idle"]
    /\ ptr' = [ptr EXCEPT ![t] = Nil]
    /\ UNCHANGED <<heap, arrays, live, writer, batch, view, overlapped>>

CountInTotals(t) ==
    /\ pc[t] = "total"
    /\ total' = total + 1
    /\ pc' = [pc EXCEPT ![t] = "idle"]
    /\ ptr' = [ptr EXCEPT ![t] = Nil]
    /\ UNCHANGED <<heap, arrays, live, writer, batch, view, overlapped>>

-----------------------------------------------------------------------------
(* GetSnapshot: the last period is cloned under the lock of the original,   *)
(* the clone goes into the array under no lock at all.                      *)

GetSnapshot(t) ==
    /\ RLocked(t)
    /\ view[t] = NoView
    /\ Len(heap) + Cardinality({s \in Snapshotter : pc[s] = "clone"}) < MaxPeriods
    /\ ptr' = [ptr EXCEPT ![t] = Entry(live, live.len)]
    /\ pc' = [pc EXCEPT ![t] = "clone"]
    /\ overlapped' = (overlapped \/ \E a \in Adder : pc[a] # "idle")
    /\ UNCHANGED <<memory, writer, batch, view>>

ClonePeriod(t) ==
    /\ pc[t] = "clone"
    /\ heap' = Append(heap, [heap[ptr[t]] EXCEPT !.frozen = FALSE])
    /\ ptr' = [ptr EXCEPT ![t] = NewPointer]
    /\ pc' = [pc EXCEPT ![t] = "store"]
    /\ UNCHANGED <<arrays, live, total, writer, batch, view, overlapped>>

StoreClone(t) ==
    /\ pc[t] = "store"
    /\ arrays' = [arrays EXCEPT ![live.arr][Index(live, live.len)] = ptr[t]]
    /\ pc' = [pc EXCEPT ![t] = "totals"]
    /\ UNCHANGED <<heap, live, total, ptr, writer, batch, view, overlapped>>

\* Mutant: the snapshot is returned with the read lock still held.
ReturnSnapshotLocked(t) ==
    /\ pc[t] = "totals"
    /\ view[t] = NoView
    /\ view' = [view EXCEPT ![t] = [slice |-> live, last |-> ptr[t],
                                    count |-> heap[ptr[t]].count]]
    /\ UNCHANGED <<memory, pc, ptr, writer, batch, overlapped>>

\* Totals is cloned and the snapshot returned.
ReturnSnapshot(t) ==
    /\ pc[t] = "totals"
    /\ view' = [view EXCEPT ![t] = [slice |-> live, last |-> ptr[t],
                                    count |-> heap[ptr[t]].count]]
    /\ pc' = [pc EXCEPT ![t] = "idle"]
    /\ ptr' = [ptr EXCEPT ![t] = Nil]
    /\ UNCHANGED <<memory, writer, batch, overlapped>>

\* The caller is done with its snapshot.
DropSnapshot(t) ==
    /\ view[t] # NoView
    /\ view' = [view EXCEPT ![t] = NoView]
    /\ UNCHANGED <<memory, pc, ptr, writer, batch, overlapped>>

-----------------------------------------------------------------------------
(* Rotations and purges.                                                    *)

\* After Rotate has closed the current period, and purged k of the closed.
RotateClose(k) ==
    LET closed == Appended(arrays, live, NewPointer)
        kept   == Kept(closed.arrays, closed.slice, k)
    IN  /\ Locked
        /\ Len(heap) < MaxPeriods
        /\ heap' = Append([heap EXCEPT ![Entry(live, live.len)].frozen = TRUE],
                          NewPeriod)
        /\ arrays' = kept.arrays
        /\ live' = kept.slice
        /\ total' = total - CountOf(1, k)
        /\ batch' = live
        /\ writer' = "idle"
        /\ UNCHANGED <<pc, ptr, view, overlapped>>

\* After Rotate has thrown the current period away, and purged k of the others:
\* some pokemon dominates it, so it is not empty.
RotateThrowAway(k) ==
    LET current == Entry(live, live.len)
        kept == Kept([arrays EXCEPT ![live.arr][Index(live, live.len)] = NewPointer],
                     live, k)
    IN  /\ Locked
        /\ k < live.len
        /\ Len(heap) < MaxPeriods
        /\ heap[current].count > 0
        /\ heap' = Append([heap EXCEPT ![current].frozen = TRUE], NewPeriod)
        /\ arrays' = kept.arrays
        /\ live' = kept.slice
        /\ total' = total - heap[current].count - CountOf(1, k)
        /\ writer' = "idle"
        /\ UNCHANGED <<pc, ptr, batch, view, overlapped>>

KeepRecent(k) ==
    LET kept == Kept(arrays, live, k)
    IN  /\ Locked
        /\ k < live.len
        /\ arrays' = kept.arrays
        /\ live' = kept.slice
        /\ total' = total - CountOf(1, k)
        /\ writer' = "idle"
        /\ UNCHANGED <<heap, pc, ptr, batch, view, overlapped>>

PurgeOldest(k) ==
    /\ Locked
    /\ k < live.len
    /\ live' = Dropped(live, k)
    /\ total' = total - CountOf(1, k)
    /\ writer' = "idle"
    /\ UNCHANGED <<heap, arrays, pc, ptr, batch, view, overlapped>>

\* The current period is put back in the place of the oldest one purged.
PurgeNewestClosed(k) ==
    LET back == Appended(arrays, [live EXCEPT !.len = @ - 1 - k],
                         Entry(live, live.len))
    IN  /\ Locked
        /\ k < live.len
        /\ arrays' = back.arrays
        /\ live' = back.slice
        /\ total' = total - CountOf(live.len - k, live.len - 1)
        /\ writer' = "idle"
        /\ UNCHANGED <<heap, pc, ptr, batch, view, overlapped>>

\* The current period is the first to go, and a new one takes its place.
PurgeNewestWithCurrent(k) ==
    LET new == Appended(arrays, [live EXCEPT !.len = @ - k], NewPointer)
    IN  /\ Locked
        /\ k \in 1..live.len
        /\ Len(heap) < MaxPeriods
        /\ heap' = Append(heap, NewPeriod)
        /\ arrays' = new.arrays
        /\ live' = new.slice
        /\ total' = total - CountOf(live.len - k + 1, live.len)
        /\ writer' = "idle"
        /\ UNCHANGED <<pc, ptr, batch, view, overlapped>>

\* ProcessStatsCollection is done with what Rotate returned.
DropBatch ==
    /\ batch # NoSlice
    /\ batch' = NoSlice
    /\ UNCHANGED <<memory, pc, ptr, writer, view, overlapped>>

-----------------------------------------------------------------------------

\* The rest of a call under the read lock.
ReaderStep(t) ==
    \/ t \in Adder /\ (CountInPeriod(t) \/ CountInTotals(t))
    \/ t \in Snapshotter /\ (ClonePeriod(t) \/ StoreClone(t) \/ ReturnSnapshot(t))

WriterStep ==
    \E k \in 0..live.len :
        \/ RotateClose(k) \/ RotateThrowAway(k) \/ KeepRecent(k)
        \/ PurgeOldest(k) \/ PurgeNewestClosed(k) \/ PurgeNewestWithCurrent(k)

Next ==
    \/ \E t \in Adder : AddPokemon(t)
    \/ \E t \in Snapshotter : GetSnapshot(t) \/ DropSnapshot(t)
    \/ \E t \in Thread : ReaderStep(t)
    \/ LockForWriting
    \/ WriterStep
    \/ DropBatch

Spec == Init /\ [][Next]_vars

\* The scheduler runs every thread that can run.
FairSpec ==
    /\ Spec
    /\ \A t \in Thread : WF_vars(ReaderStep(t))
    /\ WF_vars(WriterStep)

-----------------------------------------------------------------------------
(* Correctness.                                                             *)

\* The live list stays a list of distinct periods without a nil, its last one
\* the only open one, however often its array was shared, cleared, overwritten
\* in place or exchanged for another.
LiveListIsWellFormed ==
    /\ live.len > 0
    /\ \A i \in 1..live.len :
          /\ Entry(live, i) # Nil
          /\ heap[Entry(live, i)].frozen <=> i < live.len
          /\ \A j \in 1..live.len : Entry(live, i) = Entry(live, j) => i = j

\* Sightings that are counted in a period and not yet in Totals.
InFlight == Cardinality({a \in Adder : pc[a] = "total"})

\* Totals and the sightings in flight never count less than the periods do,
\* whatever snapshots do to the current period: a purge cannot take more from
\* Totals than there is.
TotalsCoverPeriods == total + InFlight >= CountOf(1, live.len)

\* As long as no snapshot was taken while a pokemon was being added, not one
\* sighting is lost or counted twice.
TotalsAreExactWithoutOverlap ==
    ~overlapped => total + InFlight = CountOf(1, live.len)

\* A thread that is about to count a pokemon never meets a closed period: the
\* read lock it holds keeps rotations away ("only happens if we have a bug!").
AddersMeetOpenPeriods ==
    \A a \in Adder : pc[a] = "count" => ~heap[ptr[a]].frozen

\* A rotation or a purge gets the lock in the end, however many pokemon and
\* snapshots keep coming, and gives it back.
WriterGetsLock == writer = "waiting" ~> writer = "idle"

-----------------------------------------------------------------------------
(* What the comments say and the code does not do.                          *)

\* The comment on Totals: "Totals are the sums of stats from all time periods".
\* A snapshot loses the sightings that the original counts after it was cloned.
TotalsAreSumsOfPeriods ==
    Readers = {} => total = CountOf(1, live.len)

\* GetSnapshot: "we have to clone the last entry, as it will continue to be
\* updated after we're done with our lock".  The snapshot holds the clone, and
\* the clone is what continues to be updated.
SnapshotIsStable ==
    \A t \in Snapshotter :
        view[t] # NoView => heap[view[t].last].count = view[t].count

\* FrozenStatsCollection.LatestEntry: "there's always an entry".  Rotate itself
\* can clear it: keepRecentStats sets the slots of the shared array to nil.
BatchHasLatestEntry ==
    batch # NoSlice => Entry(batch, batch.len) # Nil

=============================================================================
