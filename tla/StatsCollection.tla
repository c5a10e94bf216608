-------------------------- MODULE StatsCollection --------------------------
(***************************************************************************)
(* The spawn statistics of processor/stats.go: a list of time periods, of  *)
(* which only the last one (the current period) still counts pokemon, and  *)
(* Totals, the running totals over the whole list, which every purge       *)
(* updates by subtraction instead of recounting.                           *)
(*                                                                         *)
(* StatsCollection.mutex is a readers-writer lock.  AddPokemon and         *)
(* GetSnapshot hold it for reading and are one step each here (how the two *)
(* interleave is the subject of StatsSlices).  Rotate, KeepRecent,         *)
(* PurgeOldest and PurgeNewest hold it for writing: their loops are        *)
(* modelled one iteration per step, `op' holding the writer's local        *)
(* variables, and nothing but the clock moves until the writer is done.    *)
(***************************************************************************)
EXTENDS Integers, SequencesExt, PrefixSums

CONSTANTS
    PokemonKey,      \* models.PokemonKey: the pokemon that can spawn
    Nest,            \* ids of the nests
    Global,          \* names the GlobalCounts among the counts of a period
    Total,           \* names the Total field among the counts of a nest
    TicksPerMinute,  \* clock ticks in a minute: Duration() truncates to minutes
    MaxHistories,    \* values of max_history_hours the configuration may hold
    SkipPcts,        \* values of skip_period_min_global_spawn_pct
    KeepDurations,   \* arguments of the purge/keep and purge/all requests
    PurgeDurations,  \* arguments of the purge/oldest and purge/newest requests
    MaxTime,         \* bound on the clock
    MaxPeriods,      \* bound on the number of periods a rotation may reach
    MaxSightings     \* bound on the pokemon counted by Totals

ASSUME StatsAssumption ==
    /\ Global \notin Nest /\ Total \notin PokemonKey
    /\ TicksPerMinute \in Nat \ {0}
    /\ MaxHistories \subseteq Nat /\ SkipPcts \subseteq Nat
    /\ KeepDurations \subseteq Nat /\ PurgeDurations \subseteq Nat
    /\ MaxTime \in Nat /\ MaxPeriods \in Nat /\ MaxSightings \in Nat

VARIABLES
    periods,        \* CountsByTimePeriod, oldest first
    totals,         \* the counts of Totals
    nilMap,         \* Totals.GlobalCounts.ByPokemon is nil
    totalsStart,    \* Totals.StartTime
    duration,       \* Duration: the durations of the closed periods
    now,            \* the wall clock, in ticks
    op,             \* the operation that holds the write lock, and its locals
    panicked,       \* a goroutine panicked: the process is gone
    currentPurged   \* history: purge/newest has removed a current period

vars == <<periods, totals, nilMap, totalsStart, duration, now, op, panicked,
          currentPurged>>

-----------------------------------------------------------------------------
(* Counts.  A CountsByPokemon is a function from the pokemon, and from      *)
(* Total for its Total field, to the count; a pokemon that is not in the    *)
(* ByPokemon map, and a nest that is not in the NestCounts map, count 0.    *)
(* A count that is negative stands for a uint64 that wrapped around, or for *)
(* the dereference of a nest that Totals does not have.                     *)

Bucket == Nest \cup {Global}
Slot == PokemonKey \cup {Total}
Counts == [Bucket -> [Slot -> Nat]]

EmptyCounts == [s \in Slot |-> 0]
NoCounts == [b \in Bucket |-> EmptyCounts]

\* The counts after one more sighting of pokemon in the nests.
Counted(counts, pokemon, nests) ==
    [b \in Bucket |->
        [s \in Slot |->
            IF b \in nests \cup {Global} /\ s \in {pokemon, Total}
            THEN counts[b][s] + 1
            ELSE counts[b][s]]]

\* CountsByPokemon.subtract: everything goes when Total reaches 0.
SubtractBucket(counts, other) ==
    IF counts[Total] = other[Total]
    THEN EmptyCounts
    ELSE [s \in Slot |-> counts[s] - other[s]]

Subtract(counts, other) ==
    [b \in Bucket |-> SubtractBucket(counts[b], other[b])]

-----------------------------------------------------------------------------
(* Time periods.                                                            *)

NoTime == -1    \* the zero time.Time
Period ==
    [start: Nat, end: Nat \cup {NoTime}, frozen: BOOLEAN, counts: Counts]

NewPeriod(t) ==
    [start |-> t, end |-> NoTime, frozen |-> FALSE, counts |-> NoCounts]

Truncate(ticks) == ticks - (ticks % TicksPerMinute)

\* Mutant: Duration() forgets that a period may have ended.
DurationUntil(p, t) == Truncate(t - p.start)

\* CountsForTimePeriod.Duration, at time t: an open period lasts until then.
DurationAt(p, t) == Truncate((IF p.end = NoTime THEN t ELSE p.end) - p.start)

PeriodDuration(p) == DurationAt(p, now)

Current == periods[Len(periods)]

\* Mutant: the period ends without being frozen.
ClosedUnfrozen(p) == [p EXCEPT !.end = now]

\* The period p once Rotate has ended it.
Closed(p) == [p EXCEPT !.end = now, !.frozen = TRUE]

\* Mutant: the comparison is off by one.
EmptiedByOneMore(del) == totals[Global][Total] <= del.counts[Global][Total] + 1

\* Subtracting the period takes the last count from Totals: its pokemon map is
\* set to nil, and never made again.
Emptied(del) == totals[Global][Total] = del.counts[Global][Total]

\* One pokemon makes up more than pct percent of the global spawns of c.
Dominated(c, pct) ==
    /\ pct > 0
    /\ \E p \in PokemonKey : 100 * c[Global][p] > pct * c[Global][Total]

-----------------------------------------------------------------------------
(* The operations that hold the write lock.                                 *)

OpKind == {"idle", "keep", "oldest", "newest"}
Op == [kind: OpKind, arg: Nat, includeCurrent: BOOLEAN, numPurged: Nat,
       durPurged: Nat]

Begin(kind, arg, includeCurrent) ==
    [kind |-> kind, arg |-> arg, includeCurrent |-> includeCurrent,
     numPurged |-> 0, durPurged |-> 0]

Idle == Begin("idle", 0, FALSE)

\* A panic ends the process, whoever holds the lock.
LockIsFree == op = Idle /\ ~panicked

Init ==
    /\ periods = <<NewPeriod(0)>>
    /\ totals = NoCounts
    /\ nilMap = FALSE
    /\ totalsStart = 0
    /\ duration = 0
    /\ now = 0
    /\ op = Idle
    /\ panicked = FALSE
    /\ currentPurged = FALSE

Tick ==
    /\ now < MaxTime
    /\ now' = now + 1
    /\ UNCHANGED <<periods, totals, nilMap, totalsStart, duration, op, panicked,
                   currentPurged>>

\* Mutant: Totals is not told which nests the pokemon is in.
AddPokemonOutsideNests(pokemon, nests) ==
    /\ LockIsFree
    /\ totals[Global][Total] < MaxSightings
    /\ ~nilMap
    /\ periods' = [periods EXCEPT ![Len(periods)].counts =
                                      Counted(@, pokemon, nests)]
    /\ totals' = Counted(totals, pokemon, {})
    /\ UNCHANGED <<nilMap, totalsStart, duration, now, op, panicked, currentPurged>>

(***************************************************************************)
(* AddPokemon counts a sighting in the current period, then in Totals.     *)
(* Incrementing an entry of the nil map that subtract leaves behind in an  *)
(* empty Totals is a panic, which nothing recovers.                        *)
(***************************************************************************)
AddPokemon(pokemon, nests) ==
    /\ LockIsFree
    /\ totals[Global][Total] < MaxSightings
    /\ ~Current.frozen
    /\ periods' = [periods EXCEPT ![Len(periods)].counts =
                                      Counted(@, pokemon, nests)]
    /\ IF nilMap
       THEN /\ panicked' = TRUE
            /\ totals' = [totals EXCEPT ![Global][Total] = @ + 1]
       ELSE /\ totals' = Counted(totals, pokemon, nests)
            /\ UNCHANGED panicked
    /\ UNCHANGED <<nilMap, totalsStart, duration, now, op, currentPurged>>

\* Mutant: every entry of the live slice is given the end time of the clone.
GetSnapshotEndingAll ==
    /\ LockIsFree
    /\ periods' = [i \in 1..Len(periods) |-> [periods[i] EXCEPT !.end = now]]
    /\ UNCHANGED <<totals, nilMap, totalsStart, duration, now, op, panicked,
                   currentPurged>>

\* GetSnapshot ends the clone of the current period now, and puts the clone
\* in the place of the original.
GetSnapshot ==
    /\ LockIsFree
    /\ periods' = [periods EXCEPT ![Len(periods)].end = now]
    /\ UNCHANGED <<totals, nilMap, totalsStart, duration, now, op, panicked,
                   currentPurged>>

\* The purge of the i-th period, as the loops of all purges do it.  They ask for
\* its duration twice more, and the clock moves.
Purge(i) ==
    LET del == periods[i]
    IN  \E first \in now..MaxTime, second \in now..MaxTime :
            /\ first <= second
            /\ periods' = RemoveAt(periods, i)
            /\ op' = [op EXCEPT !.numPurged = @ + 1,
                                !.durPurged = @ + DurationAt(del, first)]
            /\ duration' = duration - DurationAt(del, second)
            /\ now' = second
            /\ totals' = Subtract(totals, del.counts)
            /\ nilMap' = (nilMap \/ Emptied(del))
            /\ currentPurged' = (currentPurged \/ ~del.frozen)
            /\ UNCHANGED <<totalsStart, panicked>>

\* Mutant: Totals.StartTime is not moved.
FinishKeepingStart(counts) ==
    /\ periods' = counts
    /\ op' = Idle
    /\ UNCHANGED <<totals, nilMap, totalsStart, duration, now, panicked,
                   currentPurged>>

\* The loop is over: the slice is stored and the lock released.
Finish(counts) ==
    /\ periods' = counts
    /\ totalsStart' = counts[1].start
    /\ op' = Idle
    /\ UNCHANGED <<totals, nilMap, duration, now, panicked, currentPurged>>

-----------------------------------------------------------------------------
(* Rotate closes the current period, or throws it away when one pokemon     *)
(* dominates it, and goes on to keepRecentStats under the same lock.        *)

RotateClose(maxHistory, skipPct) ==
    LET closed == Closed(Current)
    IN  /\ LockIsFree
        /\ Len(periods) < MaxPeriods
        /\ ~Dominated(Current.counts, skipPct)
        /\ duration' = duration + PeriodDuration(closed)
        /\ periods' = Append([periods EXCEPT ![Len(periods)] = closed],
                             NewPeriod(now))
        /\ op' = Begin("keep", maxHistory, FALSE)
        /\ UNCHANGED <<totals, nilMap, totalsStart, now, panicked, currentPurged>>

\* Mutant: the period is dropped, its counts stay in Totals.
RotateThrowAwayCounts(maxHistory, skipPct) ==
    /\ LockIsFree
    /\ Dominated(Current.counts, skipPct)
    /\ periods' = [periods EXCEPT ![Len(periods)] = NewPeriod(now)]
    /\ totalsStart' = periods'[1].start
    /\ op' = Begin("keep", maxHistory, FALSE)
    /\ UNCHANGED <<totals, nilMap, duration, now, panicked, currentPurged>>

RotateThrowAway(maxHistory, skipPct) ==
    /\ LockIsFree
    /\ Dominated(Current.counts, skipPct)
    /\ totals' = Subtract(totals, Current.counts)
    /\ nilMap' = (nilMap \/ Emptied(Current))
    /\ periods' = [periods EXCEPT ![Len(periods)] = NewPeriod(now)]
    /\ totalsStart' = periods'[1].start
    /\ op' = Begin("keep", maxHistory, FALSE)
    /\ UNCHANGED <<duration, now, panicked, currentPurged>>

KeepRecent(keepDuration) ==
    /\ LockIsFree
    /\ op' = Begin("keep", keepDuration, FALSE)
    /\ UNCHANGED <<periods, totals, nilMap, totalsStart, duration, now, panicked,
                   currentPurged>>

\* Mutant: a history of exactly the duration to keep is purged too.
ExceedsKeepOrEqual == Len(periods) > 0 /\ duration >= op.arg

ExceedsKeep == Len(periods) > 0 /\ duration > op.arg

KeepRecentLoop == op.kind = "keep" /\ ExceedsKeep /\ Purge(1)

KeepRecentEnd ==
    /\ op.kind = "keep"
    /\ ~ExceedsKeep
    /\ Finish(IF periods = <<>> THEN <<NewPeriod(now)>> ELSE periods)

-----------------------------------------------------------------------------
(* purgeOldestStats and purgeNewestStats.  Both compare with the duration   *)
(* of the oldest period, whichever period they then purge.                  *)

OldestFits == op.durPurged + PeriodDuration(periods[1]) < op.arg

PurgeOldest(purgeDuration) ==
    /\ LockIsFree
    /\ op' = Begin("oldest", purgeDuration, FALSE)
    /\ UNCHANGED <<periods, totals, nilMap, totalsStart, duration, now, panicked,
                   currentPurged>>

PurgeOldestContinues == Len(periods) > 1 /\ OldestFits

PurgeOldestLoop == op.kind = "oldest" /\ PurgeOldestContinues /\ Purge(1)

PurgeOldestEnd ==
    op.kind = "oldest" /\ ~PurgeOldestContinues /\ Finish(periods)

PurgeNewest(purgeDuration, includeCurrent) ==
    /\ LockIsFree
    /\ op' = Begin("newest", purgeDuration, includeCurrent)
    /\ UNCHANGED <<periods, totals, nilMap, totalsStart, duration, now, panicked,
                   currentPurged>>

\* The index of the period the loop purges next: the current one is set aside
\* unless it is included.
Newest == IF op.includeCurrent THEN Len(periods) ELSE Len(periods) - 1

PurgeNewestContinues == Newest > 0 /\ OldestFits

PurgeNewestLoop == op.kind = "newest" /\ PurgeNewestContinues /\ Purge(Newest)

\* Mutant: the early return for nothing to purge leaves the lock taken.
PurgeNewestEndIfPurged ==
    /\ op.kind = "newest"
    /\ ~PurgeNewestContinues
    /\ op.numPurged > 0
    /\ Finish(IF op.includeCurrent THEN Append(periods, NewPeriod(now)) ELSE periods)

PurgeNewestEnd ==
    /\ op.kind = "newest"
    /\ ~PurgeNewestContinues
    /\ Finish(IF op.includeCurrent /\ op.numPurged > 0
              THEN Append(periods, NewPeriod(now))
              ELSE periods)

-----------------------------------------------------------------------------

Writer ==
    \/ KeepRecentLoop \/ KeepRecentEnd
    \/ PurgeOldestLoop \/ PurgeOldestEnd
    \/ PurgeNewestLoop \/ PurgeNewestEnd

Request ==
    \/ \E maxHistory \in MaxHistories, skipPct \in SkipPcts :
          \/ RotateClose(maxHistory, skipPct)
          \/ RotateThrowAway(maxHistory, skipPct)
    \/ \E d \in KeepDurations : KeepRecent(d)
    \/ \E d \in PurgeDurations :
          \/ PurgeOldest(d)
          \/ \E includeCurrent \in BOOLEAN : PurgeNewest(d, includeCurrent)
    \/ \E p \in PokemonKey, nests \in SUBSET Nest : AddPokemon(p, nests)
    \/ GetSnapshot

Next == Tick \/ Request \/ Writer

Spec == Init /\ [][Next]_vars

\* The goroutine that holds the write lock never waits for anything.
FairSpec == Spec /\ WF_vars(Writer)

-----------------------------------------------------------------------------
(* Correctness.                                                             *)

\* The type invariant.  That totals stays in Counts is the claim that no
\* subtraction of a purge or of a rotation wraps a uint64 around or finds a
\* nest missing from Totals.
TypeOK ==
    /\ periods \in Seq(Period)
    /\ totals \in Counts
    /\ nilMap \in BOOLEAN
    /\ totalsStart \in Nat
    /\ duration \in Int
    /\ now \in Nat
    /\ op \in Op
    /\ panicked \in BOOLEAN
    /\ currentPurged \in BOOLEAN

\* What the periods of a list count together for one entry of Totals.
HistoryCount(list, b, s) ==
    PrefixSum([i \in 1..Len(list) |-> list[i].counts[b][s]], Len(list))

\* Totals is the sum of the stats of all periods, for every nest, globally and
\* for every pokemon, after any mix of sightings, rotations, thrown away
\* periods and purges, and at every iteration of a purge (the comment on
\* StatsCollection.Totals).
TotalsAreSums ==
    ~panicked => \A b \in Bucket, s \in Slot :
                     totals[b][s] = HistoryCount(periods, b, s)

\* Whenever the lock is free the list has a current period, the last one, and
\* it is the only one that still counts: AddPokemon never meets a frozen
\* period ("only happens if we have a bug!").
OneOpenPeriod ==
    op = Idle =>
        /\ periods # <<>>
        /\ \A i \in 1..Len(periods) : periods[i].frozen <=> i < Len(periods)

\* The periods are in the order of time and do not overlap, and Totals starts
\* where the oldest of them does, whatever was purged in between.
PeriodsAreOrdered ==
    /\ \A i \in 1..Len(periods) :
          /\ periods[i].start <= now
          /\ periods[i].frozen => periods[i].end # NoTime
          /\ periods[i].end # NoTime => /\ periods[i].start <= periods[i].end
                                       /\ periods[i].end <= now
          /\ i > 1 => periods[i - 1].end <= periods[i].start
    /\ op = Idle => totalsStart = periods[1].start

\* The summed durations of the closed periods of a list.
ClosedDuration(list) ==
    PrefixSum([i \in 1..Len(list) |->
                  IF list[i].frozen THEN Truncate(list[i].end - list[i].start)
                                    ELSE 0],
              Len(list))

\* Duration is the sum of the durations of the closed periods until the first
\* purge of a current period, and can only be too small from then on: the
\* history the nest decisions rest on is never shorter than Duration says.
DurationIsCovered ==
    /\ duration <= ClosedDuration(periods)
    /\ ~currentPurged => duration = ClosedDuration(periods)

\* keepRecentStats purges a period only from a history that is really longer
\* than what is to be kept, and leaves one that is not (unless a purge of a
\* current period has made Duration wrong before).
KeepRecentIsExact ==
    [][/\ KeepRecentLoop => ClosedDuration(periods) > op.arg
       /\ KeepRecentEnd /\ ~currentPurged => ClosedDuration(periods') <= op.arg]_vars

\* The counts and the times of a closed period never change again, which is
\* why Rotate hands them to ProcessStatsCollection without a copy: a closed
\* period was there before the step, or is the current one closing now.
ClosedPeriodsAreImmutable ==
    [][\A i \in 1..Len(periods') :
          periods'[i].frozen =>
              \/ \E j \in 1..Len(periods) : periods[j] = periods'[i]
              \/ periods'[i] = Closed(Current)]_vars

\* The nil map is left behind only when nothing is counted at all: a purge
\* never takes the pokemon map away from a Totals that still needs it.
NilMapMeansEmpty ==
    nilMap /\ ~panicked => totals = NoCounts

-----------------------------------------------------------------------------
(* What makes the invariants above inductive.                               *)

\* Inside a period no pokemon and no nest counts more than the total of its
\* nest, or than the global counts.
CountsAreWithin ==
    \A i \in 1..Len(periods), b \in Bucket, s \in Slot :
        /\ periods[i].counts[b][s] <= periods[i].counts[b][Total]
        /\ periods[i].counts[b][s] <= periods[i].counts[Global][s]

\* The last period is the only open one, except while a purge/newest that
\* includes the current period is under way.
CurrentIsOpen ==
    IF op.kind = "newest" /\ op.includeCurrent /\ op.numPurged > 0
    THEN \A i \in 1..Len(periods) : periods[i].frozen
    ELSE /\ Len(periods) > 0
         /\ \A i \in 1..Len(periods) : periods[i].frozen <=> i < Len(periods)

\* A panic does not happen under the write lock.
PanicIsOutsideOfWriters == panicked => op = Idle

IInv ==
    /\ TypeOK
    /\ TotalsAreSums
    /\ PeriodsAreOrdered
    /\ DurationIsCovered
    /\ NilMapMeansEmpty
    /\ CountsAreWithin
    /\ CurrentIsOpen
    /\ PanicIsOutsideOfWriters

-----------------------------------------------------------------------------

\* Every purge and every rotation ends and gives the lock back.
LockIsReleased == op # Idle ~> op = Idle

-----------------------------------------------------------------------------
(* What the documentation says and the code does not do.                    *)

\* docs/API.md: purge/all "starts the stats with a clean slate, but like
\* startup", where counting a pokemon works.
NoPanic == ~panicked

\* The comment in purgeNewestStats: "don't purge periods that overlap
\* purgeDuration only partially".
PurgeNewestStaysWithin == op.kind = "newest" => op.durPurged <= op.arg

\* The comment on StatsCollection.Duration: "the sum of the durations of all
\* time periods except for the current one".
DurationIsClosedDuration == duration = ClosedDuration(periods)

=============================================================================
