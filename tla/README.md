# Fletchling: specifications, model checking and proofs

Fletchling receives the webhooks of Golbat, counts which pokemon spawn inside
which nest, decides from a rolling history which pokemon is *nesting* where,
writes that to a database and tells Poracle about it. This directory holds TLA+
specifications of it, the TLC configurations that check them on small instances,
and TLAPS proofs of what is most worth having for every size.

Paths below are relative to the root of the repository. `PROJECT.json` maps every
definition to the lines it models.

* check a model: `tlc -config Stats.cfg MCStatsCollection`
* check the proofs: `tlapm PrefixSumsTheorems.tla`, `tlapm StatsCollectionProofs.tla`
  (about two minutes), and likewise `StatsSlicesProofs`, `AreaProofs`, `ProcessProofs`,
  `NestProofs`, `NestsIterationProofs` and `KojiImportProofs`

## 1. Inventory

There are no `*_test.go` files in the repository: what the code promises is said
by its comments, `README.md` and `docs/API.md` only.

| component | code | state | operations |
|---|---|---|---|
| Spawn statistics | `src/processor/stats.go` | list of time periods, running `Totals`, `Duration`, a readers-writer lock; a lock per period | AddPokemon, GetSnapshot, Rotate, KeepRecent, PurgeOldest, PurgeNewest |
| Nest processor manager | `src/processor/manager.go`, `reloadFn` in `src/bin/fletchling/fletchling.go` | the current processor, a reload channel of capacity 1, rotation timer, filters configuration | LoadConfig, Run, ProcessPokemon |
| Nest processor | `src/processor/processor.go`, `matcher.go`, `config.go` | matcher of nests, the statistics it shares with its predecessor | AddPokemon, RotateStats, ProcessStatsCollection (a goroutine per rotation) |
| Nests | `src/processor/models/nest.go` | `NestStatsInfo`: nesting pokemon and time of the last database write; shared by the nests of successive processors | SetNestingPokemon, SetUpdatedAt, GetNestingPokemon |
| Webhook sender | `src/webhook_sender/poracle.go`, `src/areas/area.go` | queue of messages (a slice), flushes under way | AddNestWebhook, Flush, Run |
| Nests database | `src/db_store/nests.go`, `sql/` | rows: active, discarded, spawnpoints, pokemon, updated | UpdateNestPartial, InsertOrUpdateNest, StreamNests, IterateNestsConcurrently |
| Refresher | `src/filters/db_refresher.go` | none of its own | RefreshAllNests, refreshNest |
| Program life cycle | `main` in `src/bin/fletchling/fletchling.go` | the context, a wait group, the goroutines and their signal channels | startup, signals, `HTTPServer.Run`, exit |
| HTTP server | `src/httpserver` | none of its own | webhook (`go processMessages`), nest stats, purge/*, reload, refresh, shutdown |
| Importers, exporters | `src/importer*`, `src/exporters`, `src/bin/*` | none (sequential pipelines) | ImportFeatures, Run |
| Clients | `src/overpass`, `src/koji_client` | bearer token and cookies | request with retries |
| Areas, geometry | `src/areas`, `src/geo` | cached feature collection, R-tree | load, match |
| Configuration, logging, metrics | `src/app_config`, `src/logging`, `src/stats_collector`, `src/pyroscope` | - | - |

How they interact. A webhook request starts a goroutine that calls
`ProcessPokemon` for each pokemon; it fetches the current processor, which matches
nests and calls `StatsCollection.AddPokemon`. `NestProcessorManager.Run` is one
goroutine: when its timer fires, or a reload makes it due, it rotates the
statistics and starts `ProcessStatsCollection` on the result in yet another
goroutine, which updates nests and rows and queues webhooks. SIGHUP and
`/api/config/reload` both run `reloadFn`, on goroutines of their own; it builds a
new processor from the database, which takes over the statistics and the
`NestStatsInfo` of the nests that remain. A ticker starts a `Flush` every few
seconds. A shutdown cancels one context.

What is hard, and what it takes to be correct:

* *Statistics.* `Totals` and `Duration` are kept by adding and subtracting, through
  purges from both ends, purges and replacements of the current period, and
  periods that are thrown away. The counts are `uint64`: one subtraction too many
  wraps around. Correct: totals are sums, nothing wraps, exactly one period is
  open, order and start time hold, a closed period never changes, enough history
  is kept.
* *Shared slices.* The list is handed out as a slice of the live array, by
  `GetSnapshot` (under a read lock, and written to) and by `Rotate`. Correct:
  sightings are neither lost nor doubled, the live list never holds a nil or the
  same period twice, and what was handed out does not change.
* *Reloads.* Two at a time, with the file read before the mutex and the filters set
  after it; a signal that may be coalesced, or eaten; a timer stopped and set again
  while it expires. Correct: `Run` ends up with the last processor, configuration
  and filters agree, rotations come, and come neither early nor late.
* *Webhook queue.* Flushes overlap, on one backing array. Correct: each queued
  message is sent once to each destination whose areas match.
* *Nesting state.* Rotations may be processed concurrently, with reloads, refreshes
  and imports that each read the row once and write it later; memory is changed
  before the database, whose failure is only logged. Correct: Poracle has been told
  of the pokemon in memory, the row follows it, and after a refresh the row is what the
  filters say.
* *Worker pool.* `IterateNestsConcurrently` reads in batches while rows come and go, and a
  worker may fail at any time. Correct: every row is seen once or an error is returned, no
  row is passed over, and nobody waits for ever.
* *Life cycle.* Signals come before their handlers, while the configuration is read, in
  a reload, and in the shutdown; requests do not see the context that is cancelled; the
  waits are deferred, and cover the goroutines of a wait group only: those of a webhook's
  messages, of a rotation and of a tick's flush are nobody's. Correct: a shutdown ends, only
  failures are fatal, and when `main` gets to its waits what it accepted has been answered.
* *Importing.* The importers are run again and again, may be interrupted anywhere,
  and depend on services that time out, refuse or lose an answer. Correct: they end,
  what they call done is done, nothing is doubled and nothing else overwritten.

Every place is listed under "hazards" in `PROJECT.json`.

## 2. Plan

| # | module | content | status |
|---|---|---|---|
| 1 | `StatsCollection` | periods and counts, one iteration of a purge per step | modelled, checked, proved |
| 2 | `StatsSlices` | the same operations on pointers, arrays and locks | modelled, checked, proved |
| 3 | `PoracleSender`, `AreaNames` | queue and flushes, and which areas match | modelled, checked, proved |
| 4 | `NestProcessorManager` | reloads, `Run` and its timer | modelled, checked, proved |
| 5 | `NestState` | one nest in memory and in the database, and everyone who changes it | modelled, checked, proved |
| 6 | `NestsIteration`, `Iteration` | StreamNests and the workers, and the atomic iteration they implement | modelled, checked and proved (a refinement) |
| 7 | `NestingDecision` | the sorted selection against its reference definition | modelled, checked, proved |
| 8 | `OsmImport` | fletchling-osm-importer from flags to refresh, with Overpass | modelled, checked, proved |
| 9 | `KojiImport` | the importer into Koji and the requests it makes | modelled, checked, proved |
| 10 | `Fletchling` | `main`, its goroutines, the web server and the shutdown | modelled, checked, proved |

The proofs of a module are in a module named after it, but for three that hold two
each: `ProcessProofs` (`Fletchling` and `NestProcessorManager`), `NestProofs` (`NestState`
and `NestingDecision`) and `AreaProofs` (`PoracleSender` and `OsmImport`). Every invariant
of a run that is expected to pass is a theorem, and so is every action property; liveness is
left to TLC.
Modules to be proved about use no RECURSIVE operator: sums are the recursive function of
`PrefixSums`.

## 3. Modules

A definition whose comment begins with `Mutant:` is not part of a specification:
it is a plausible bug in the definition that follows it, put in its place to see
that the property named for it in `PROJECT.json` notices.

### StatsCollection (with PrefixSums)

`periods` is `CountsByTimePeriod`; a period has its start, end, frozen flag and
counts. Counts are a function of a bucket (a nest, or `Global` for
`GlobalCounts`) and a slot (a pokemon, or `Total`); what is absent from the maps of the code
counts 0. `totals`, `totalsStart` and `nilMap` are `Totals`, its `StartTime` and
whether its `GlobalCounts.ByPokemon` has become nil. A negative count stands for a
`uint64` that wrapped around or for a nest `Totals` does not have. Time is in
ticks, `TicksPerMinute` to the minute, because `Duration()` truncates every period
to minutes.

`AddPokemon` and `GetSnapshot` hold the lock for reading and are one step here.
The writers are modelled one loop iteration per step (`KeepRecentLoop`,
`PurgeOldestLoop`, `PurgeNewestLoop`), with `op` for their locals: the clock may
move between iterations and within one, as it does in the code, which asks for `Duration()`
in the condition, for the log and for the subtraction, and which for an open
period reads the clock every time. `Rotate` is `RotateClose` or `RotateThrowAway`
(`skip_period_min_global_spawn_pct`) followed by the loop of `keepRecentStats`
under the same lock.

### StatsSlices

The same operations as the memory sees them: `heap` holds the periods, `arrays`
the backing arrays, slices are (array, offset, length), `append` works in place
while there is room. `AddPokemon` is three steps (read the pointer, count in the
period, count in Totals), `GetSnapshot` four (read, clone, store the clone,
return); both hold the read lock throughout. A writer announces itself
(`LockForWriting`), which keeps new readers out as `sync.RWMutex` does, and then
is one step. Which periods a purge picks is the matter of `StatsCollection`: here
any number goes. Counts are those of one pokemon.

### PoracleSender

`arrays`, `queue` and `batch` are the slices; a message is its number. `Tick` starts
a flush whether or not others are under way, `PopNestMessagesFromQueue` takes the
queue under the mutex, then each destination reads its slots one at a time
(`ReadMessage`), and posts what its areas accept, by `AreaNameMatches`. Half-read
messages (a torn read of a struct that is overwritten) are left out. After
`Shutdown` the last flush runs in `Run` itself. `Exit` may come at any time, because a
failure of the web server ends the process wherever it is (see `Fletchling`).

### AreaNames

`areas/area.go`: names with and without parents, wildcards, and matching. A string
is the sequence of its parts between slashes. Used by `PoracleSender` (is a nest in
a destination's areas?) and `OsmImport` (has an area been imported?).

### NestProcessorManager

A processor is known by the configuration it was built from. A reload is
`ReadConfig` (before the mutex), `LockReload`, `GetActiveNests` or `LoadFails`,
`SwapProcessor` (which also signals), `SetFiltersConfig` (after the mutex). `Run`
starts (`RunStart`), eats a signal (`EatReloadSignal`), and then selects between
`RunReturns`, `ReceiveReload` followed by `GetNestProcessor` and `AdjustInterval`, and
`RotateByTimer`. `go.mod` says 1.22.1: a timer that has expired leaves a value in its channel, which
`Stop` does not take out, and a stopped timer leaves none: `remaining` and `fired`. The clock is
kept relative to the last rotation and stops at `Long`. The one-minute timer that
only logs is left out.

### NestState

One nest: its `row` in the database, the `NestStatsInfo` objects in memory (`info`,
`current` the one of the current processor), and everyone who changes them.
`ProcessStatsCollection` is `Decide` (which sets the pokemon in memory),
`AddNestWebhook`, `AsStorePartialUpdatePokemon` (which reads the memory again),
`UpdateNestPartial` or its failure, and `SetUpdatedAt`, in the order
`NextAfterDeciding` gives; several may be under way. A reload is `GetActiveNests`
and `SwapProcessor`; a refresh `StreamNest`, `RefreshNest`, `FindOverlaps` and
`DisableOverlappingNests`; an import `GetNestById` and `InsertOrUpdateNest`. Each
reads the row once and writes it later in one statement; no lock is shared.
`Restart` loses the memory. Nests do not touch each other's memory or rows, so one
is enough; which other nest overlaps it is part of `place`. Times are young or old
(`NoNestingPokemonAge` ago). `Run` starts the goroutines on the processor it holds, which
reloads may have replaced: `held` is that one's object, and `GetNestProcessor` is `Run` catching
up. A reload may skip the nest, when its geometry in the database has become of no use.
`told` is history: the pokemon of the last `AddNestWebhook`, and nothing else changes it.

### NestingDecision

From the counts of one history to the pokemon that nests: entries in any order,
an unstable sort by `Less`, a scan of the first `MaxRank`, and the tests of
`logPokemonAndComputeNesting`. Percentages are compared by multiplying crosswise.

### NestsIteration, Iteration

`IterateNestsConcurrently`: `Query` and `Send` in the caller's goroutine, workers
that select between the channel and the context, the first error, the waits before it
returns. The same for the db-exporter, whose only consumer cannot fail. `Iteration` is what callers rely
on: fn at most once per row, success only if it was called for every row there at
the beginning. `NestsIteration` implements it (`Abstract`).

### OsmImport

`main` of the importer from the choice of the areas to the refresh. Areas are
[parent, name] as in the source; elements of OSM carry what decides whether they
become nests. `Start` reads the names already in the database for -new-areas;
`SkipArea` or `VisitArea`; the loop of `GetPossibleNestLocations` (`SendQuery`, and a
step for each kind of answer); `Filter` is the ImportRunner, `ImportFeature` one row
of DBImporter, `Refresh` the end. `Signal` cancels the context, `Kill` ends the
process anywhere. Refreshes of NestState appear as rows that are no longer "unverified".

### KojiImport

`fences` is Koji: a geofence is its name. `ReadGeofences` fills `byName` and `byNest`
once; for each feature `NameFeature` (checkDuplicate), the property of the nest id
(`FindProperty`, `CreateProperty`, with the client's cache), `PostGeofence` and
`ReadBack`. Any request may fail; a POST may also take effect and fail. A name is the sequence
of its words, so that a park called "Nest 7" and one called "7", which becomes "Nest 7"
(`FullName`), have one name. What JSON
makes of an id is modelled: `nestIdFromProperties` refuses the float64 that a
number becomes. No program of the repository uses this importer yet.

### Fletchling

`main` is where `main()` is, from opening the databases to its deferred waits, or how
the process has ended: by returning (`exited`), by `logger.Fatal` (`fatal`), or by a
signal nobody waits for (`killed`). `HandlerNotifies` and `ReloaderNotifies` are
`signal.Notify`, before which `Interrupt` and `Hangup` kill; then they leave a signal in a
channel of capacity 1. `LoadConfig` starts the goroutines. `Run` of the web server is
called by `main` and is part of it: `Listen`, `ListenFails` and `ListenerCloses` are its goroutine,
`ShutdownServer`, `ShutdownReturns` and `ShutdownTimesOut` the branches of its select.
What the manager and the sender do while they run is in their own modules; here they
return when the context is cancelled, the sender after a flush that may hang. `background` says
what work they and the requests have left to goroutines that nobody waits for: a webhook is
answered while its messages are still processed (`RequestEnds`), a rotation and a tick go on
without `Run` (`ManagerRotates`, `SenderTicks`), and `Exit` cuts off what has not ended by then.

## 4. What the runs show

| run | cfg | result |
|---|---|---|
| `stats` | `Stats.cfg` | passes: 9 properties of `StatsCollection` |
| `stats_panic` | `StatsPanic.cfg` | **violated**: a purge that empties `Totals` leaves a nil map, the next pokemon panics in a goroutine that nothing recovers, and the process ends |
| `slices` | `Slices.cfg` | passes: 5 properties of `StatsSlices` |
| `sender` | `Sender.cfg` | passes: 5 properties of `PoracleSender` |
| `manager` | `Manager.cfg` | passes: 6 properties of `NestProcessorManager` |
| `nests` | `Nests.cfg` | passes: 4 properties of `NestState` |
| `nests_unset_age` | `NestsUnsetAge.cfg` | **violated**: the row is unset at the first rotation without a pokemon, not after `no_nesting_pokemon_age_hours` |
| `decision` | `Decision.cfg` | passes: 1 property of `NestingDecision` |
| `iteration` | `Iteration.cfg` | passes: 3 properties of `NestsIteration`, one of them the refinement |
| `osm_import` | `OsmImport.cfg` | passes: 2 properties of `OsmImport` |
| `koji` | `KojiImport.cfg` | passes: 2 properties of `KojiImport` |
| `lifecycle` | `Lifecycle.cfg` | passes: 3 properties of `Fletchling` |

The violated runs each check one sentence of the code's comments or documents, quoted under
"findings". More such sentences are stated at the end of the modules, each with a
configuration that shows TLC's counterexample. They are not among the runs of
`PROJECT.json`, and are run by hand:

| cfg, module | property | what happens |
|---|---|---|
| `StatsPurgeNewest.cfg`, `MCStatsCollection` | `PurgeNewestStaysWithin` | purge/newest measures the *oldest* period and removes the newest (`stats.go:373`; the comment at 371: "don't purge periods that overlap purgeDuration only partially.") |
| `StatsDuration.cfg`, `MCStatsCollection` | `DurationIsClosedDuration` | purging the current period subtracts from `Duration` what was never added (`stats.go:381`; 279: "Duration is the sum of the durations of all time periods except for the current one.") |
| `SlicesLostSighting.cfg`, `MCStatsSlices` | `TotalsAreSumsOfPeriods` | a sighting counted in the original after it was cloned stays in `Totals` and in no period (`stats.go:435`; 270: "Totals are the sums of stats from all time periods.") |
| `SlicesSnapshot.cfg`, `MCStatsSlices` | `SnapshotIsStable` | the clone made for the reader becomes the live period (`stats.go:435`; 432: "we have to clone the last entry, as it will continue to be updated after we're done with our lock.") |
| `SlicesLatestEntry.cfg`, `MCStatsSlices` | `BatchHasLatestEntry` | `Rotate` clears the array it has just handed out (`stats.go:317`; 261: "there's always an entry") |
| `SenderFlush.cfg`, `MCPoracleSender` | `FlushSendsWhatItCollected` | a message that arrives while a flush reads overwrites one that is not sent yet (`poracle.go:134`; 166: "Flush will send the collected webhooks.") |
| `ManagerLostReload.cfg`, `MCNestProcessorManager` | `NoReloadIsLost` | `Run` eats the signal of a reload it has not seen (`manager.go:133`; 252: "Notify the background goroutine that config was reloaded.") |
| `NestsImport.cfg`, `MCNestState` | `ImportKeepsActiveNests` | the error of a read is dropped: a nest whose row cannot be read is imported as a new, inactive one (`src/importers/db.go:45`; `docs/IMPORTING.md:3`: "The importer can be run multiple times without overwriting your existing nests.") |
| `LifecycleDefers.cfg`, `Fletchling` | `DefersWait` | when the web server cannot listen or loses its listener, `main` ends the process without its deferred waits (`src/bin/fletchling/fletchling.go:276`; 279: "http server could have shut down early or not started. The defers above will cancel and wait for things to shutdown cleanly.") |
| `LifecycleBackground.cfg`, `Fletchling` | `NothingIsLeftBehind` | the waits are for a wait group, which the goroutines of `src/httpserver/webhooks.go:154`, `src/processor/manager.go:100` and `src/webhook_sender/poracle.go:196` are not in: they are cut off (the same comment) |

The passing runs say what is true nevertheless:

* *stats.* `TypeOK` (no count ever wraps), `TotalsAreSums` at every iteration of every
  purge, `OneOpenPeriod`, `PeriodsAreOrdered`, `DurationIsCovered` (exact until a
  current period was purged, never too large after), `NilMapMeansEmpty` (the nil map
  is only ever left behind when there is nothing to count), `KeepRecentIsExact`,
  `ClosedPeriodsAreImmutable`, `LockIsReleased`.
* *slices.* `TotalsCoverPeriods`: even with the lost sightings, Totals is never below
  the periods, so no purge can wrap it. `TotalsAreExactWithoutOverlap`: the overlap
  of a snapshot and a pokemon is the only cause. `AddersMeetOpenPeriods`,
  `LiveListIsWellFormed`, `WriterGetsLock`.
* *sender.* `QueueIsPending`: sharing the array damages the batches, never the queue.
  `UnracedFlushIsExact`: a new message during the reads is the only cause, and each
  destination gets the messages of its areas, stated part by part (`Lists`).
  `ShutdownTakesTheQueue`: when `Run` returns, nothing that was queued before the
  shutdown is left.
  `QueueIsTaken`: destinations that hang do not stop the ones after.
* *manager.* `RunIsUpToDate`: the eaten signal at the start is the only way for `Run`
  to work with an old processor. `ConfigsAgree`: nests and filters are of one
  version unless reloads overlap, failed reloads included. `TimerIsOnTime`,
  `RotationIsNotEarly`, `RotationsGoOn`: changes of the interval neither shorten nor
  stretch a period, nor put rotations off for ever. `RunEnds`: the timer's channel
  is never waited for in vain.
* *nests.* `NestingIsAnnounced`: a pokemon in memory is the last one a webhook was queued
  for, over reloads, skipped nests and failed writes. Only processings that overlap, or
  one on an object that has been replaced, can announce in another order than they
  decide; and a restart or a fresh object takes a pokemon from a row that was not
  announced last. `RowFollowsNesting`: a processing that nobody disturbed
  repairs the row, also after a write that failed. It describes what the code does, which unsets a
  row while it is young; `UnsetOnlyWhenOld` is what the configuration's comment says of
  the same step. `RefreshedRowIsRight`,
  `ActiveRowsAreNotDiscarded`: a refresh that others write into can leave an active
  row with a reason to be discarded (`torn`), and that is the only way.
* *decision.* `DecisionIsBest`: but for ties the order of the map and of the unstable
  sort cannot be seen.
* *iteration.* `NoRowIsPassedOver`: wherever it is cut off, what was streamed of the rows there at the
  start is a prefix by id, each with fn or in the channel. `IteratesEveryRowOnce`: success means that fn was
  called for each, and no row comes twice. `IterationReturns`.
* *osm_import.* `SuccessIsComplete`: an area that -new-areas skips because of rows
  from an earlier run is complete, however that run ended, unless its own upserts
  failed or were cut off. `ImporterEnds`: a signal ends the importer everywhere, and
  duplicates are not asked for ever.
* *koji.* `OthersAreNotOverwritten`, `NoSecondGeofence`: the one way to overwrite or
  double a geofence is one whose creation took effect and was not confirmed, or
  whose id Koji does not give back as a string.
* *lifecycle.* `RequestsAreFinished`: when `main` gets to its deferred waits, whichever way, all
  requests it accepted are answered and the listener is closed. `OnlyFailuresAreFatal`: once it serves, no
  interrupt and no reload ends it with an error, whenever they come. `ShutdownEnds`: it
  ends, however long requests take, unless the last flush hangs for ever.

Differences that were met while reading and have no run of their own:

* `docs/API.md:41` says that purge/all "ditches all stats history including the
  current time period"; `src/httpserver/api_stats.go:30` calls `KeepRecentStats(0)`, whose
  loop ends when `Duration` is 0 and keeps the current period and any shorter than a minute.
* `src/processor/stats.go:499` says that nothing writes to the returned arrays anymore; a later
  purge/newest appends the current period in place, over the same array (line 387).
* `src/webhook_sender/poracle.go:166` says that `Flush` comes after the shutdown of the web
  server; `Run` flushes as soon as the context is cancelled, and `main` does not
  wait for flushes the ticker started.
* Poracle is not told that a nest has ended (`src/processor/processor.go:318`): it keeps the last pokemon.
* A process that ends between a webhook and the write of its row starts again with the row's pokemon,
  and does not announce it: Poracle keeps the other one until the nest changes.
* A stream of rows holds a connection while the workers' updates need another
  (`src/db_store/nests.go:255`): with `max_pool = 1`, or as many refreshes at a time as there are
  connections, they wait for each other. The pool is not modelled: fn is taken to return.
* Two concurrent reloads can install the older configuration last, and leave the
  processor and the filters on different versions.
* `NewAreaName` calls an area whose name is its parent's "London" (`src/areas/area.go:25`), which
  reads back as "*/London" and is then not matched by "London/*". The importer's rows
  say "London/London" (`src/exporters/overpass.go:143`), and -new-areas, which looks for
  "London", imports such an area every time.
* `src/exporters/overpass.go:102` stores the name of an unnamed park under a key of its own,
  `Properties[name]`, so that the log says "using" and the park is skipped.
* `SuccessIsComplete` needs the areas to have names that differ under one parent (an area is its parent and name here):
  of areas of one name `GetArea` knows the last, and overlapping areas take each other's
  elements over (`area_name` is overwritten).
* An import that visits no area does not refresh: rows an interrupted run left "unverified" stay so
  until another refresh.
* A failing worker's error can be replaced by "context canceled" of another worker's
  (`src/db_store/nests.go:369`). The db-exporter ends with success, and a part of the rows, after a signal.
* `src/koji_client/admin.go:207` says "login and try again", and tries another path (without
  `/internal/admin`): a request that finds the session expired fails, the next one does not.
  `GetOrCreateProperty` has no category for an `int`.
* A number as nest id comes back from Koji as a float64, which `nestIdFromProperties`
  refuses: each later import adds or updates a second geofence, "name at place".

### Bounds

| run | instance | why it is enough |
|---|---|---|
| `stats*` | 2 pokemon, 1 nest, 2 sightings, 3 periods, 4 ticks (6 in `stats_panic` and the configurations by hand), 2 ticks a minute, history of 2 ticks, skip at 60 % or off | a purge meets zero, one and several closed periods, of no, odd and whole minutes; one pokemon dominates or does not; Totals becomes empty and is counted into again. The proofs remove the bounds |
| `slices` | 2 adders (1 in the configurations by hand), 1 snapshotter, capacity 2, 4 periods ever, 2 sightings | an append in place and one that grows, each after a purge at either end; adders meet at every lock; a snapshot overlaps both. `InitialCap` is 8 in the code |
| `sender` | 1 destination, 3 ticker flushes and the final one, 3 messages of different areas | arrays grow from 0 through 1 and 2 to 4; three flushes hang at once and the queue is refilled in place under them. As many flushes as messages, so that `QueueIsTaken` is not decided by running out of ids |
| `manager` | 2 reloaders, intervals of 1 and 3 ticks, the clock stops at 4 | the interval grows and shrinks, before, at and after the expiry of either; one reload overtakes the other |
| `nests*` | 2 pokemon (symmetric), 2 goroutines (1 in `nests_unset_age` and the configuration by hand), 4 kinds of places, 6 operations started (5) | a pokemon starts, changes and ends, each announced late; a rotation overlaps a rotation, a reload, a refresh and an import, and repairs what an earlier failed write left |
| `decision` | 3 pokemon, 2 of them looked at, counts up to 3 and 0, 1 or 5 elsewhere, 3 configurations | ties at, before and after the cut; each test passes and fails |
| `iteration` | 4 rows, queried by 2, a channel of 1, 2 workers | full, partly full and empty batches, a full channel, a worker that fails while the other waits and the stream sends |
| `osm_import` | 3 areas (two of one name, one named like its parent), 5 elements (one in two areas, one unnamed, one too small), 2 duplicates, 3 runs | an interrupted run, one for new areas after it, and one more; every exit |
| `koji` | 3 batches of 3 features with names, places and ids that collide, a foreign geofence, 3 imports | a name taken in the same import, an earlier one, or by a stranger; unreadable ids come round twice |
| `lifecycle` | 2 requests, signals without bound | a shutdown finds none, one or two requests, which end in time or not; every signal before, in and after every phase |

Deadlock is not checked where a bound or the end of the process really ends the
behaviour (`CHECK_DEADLOCK FALSE` in the `Stats`, `Slices`, `Sender`, `Nests*`, `Decision`, `Iteration`, `OsmImport`, `KojiImport`
and `Lifecycle*` configurations); it is in `manager`.

### Fairness

* `StatsCollection`: weak fairness of the writer's steps. The goroutine that holds the write
  lock waits for nothing. No request has to come.
* `StatsSlices`: weak fairness of every thread inside a call, and of the writer, which
  `sync.RWMutex` lets in before later readers.
* `PoracleSender`: weak fairness of the ticker and of the flushes' own steps; none of
  `Post`: the `http.Client` has no timeout.
* `NestProcessorManager`: time passes, timers fire, `Run` goes on. Strong fairness of the cases of
  its `select`, because Go chooses at random among those that are ready. Nothing is
  assumed of reloads, edits or a shutdown.
* `NestsIteration`: weak fairness of the goroutines' steps; queries and fn end. Nothing
  is assumed of inserts, failures or the caller.
* `OsmImport`: weak fairness of the program's steps; none of Overpass, signals or new runs.
* `Fletchling`: weak fairness of the goroutines' steps; strong fairness of the reloader's
  return, because its `select` chooses at random when signals keep coming. Nothing is
  assumed of signals, of requests, which the timeout is for, or of the destinations of the last flush.

## 5. What is proved

`StatsCollectionProofs` proves for every set of pokemon and nests, every length of
history and every bound that `Spec` implies always `TypeOK`, `TotalsAreSums`,
`OneOpenPeriod`, `PeriodsAreOrdered`, `DurationIsCovered` and `NilMapMeansEmpty`.
The only assumption is `StatsAssumption` on the constants.

None of these is inductive alone. The inductive invariant is

    IInv == TypeOK /\ TotalsAreSums /\ PeriodsAreOrdered /\ DurationIsCovered
            /\ NilMapMeansEmpty /\ CountsAreWithin /\ CurrentIsOpen
            /\ PanicIsOutsideOfWriters

* `CountsAreWithin` (in a period no pokemon counts more than its nest's total, and
  no nest more than the global counts) is needed because `subtract` drops a
  whole bucket when its total reaches 0: then every pokemon of the bucket must be
  at 0 in what is left, and if `GlobalCounts` is empty so is everything.
* `CurrentIsOpen` says which period is open while a writer is at work, when
  `OneOpenPeriod` does not hold: purge/newest with the current period included has
  none until it ends.
* `PanicIsOutsideOfWriters` is what lets `TotalsAreSums` exclude the state after the panic.

`TypeOK` depends on `TotalsAreSums` (a count does not go below 0 because it is a sum
that includes what is subtracted), so they can only be proved together. The steps
are proved one action at a time (`TickIInv`, `AddPokemonIInv`, `GetSnapshotIInv`,
`RotateCloseIInv`, `RotateThrowAwayIInv`, `BeginIInv`, `PurgeIInv` and the loops that
rest on it, `EndsIInv`), put together in `NextIInv`, and `Invariance` is `Spec => []IInv`.

What a step does to a sum is in `PrefixSumsTheorems`: what appending, replacing and
removing a summand do to `PrefixSum`, and its bounds. The recursive function is shown
to exist by induction over sets of numbers (`LeastNatural`, `SetInduction`, `RunningExists`, `RunningUnique`).

From the same invariant follow the action properties `KeepRecentIsExact` and
`ClosedPeriodsAreImmutable` (`OnlyRotateCloses`, one lemma per kind of step).

`StatsSlicesProofs` proves, for any finite set of adders, any snapshotters, any capacity and
any number of periods and sightings (`SlicesAssumption`), all that the `slices` run checks
but liveness: `LiveListIsWellFormed`, `AddersMeetOpenPeriods`, `TotalsCoverPeriods` and
`TotalsAreExactWithoutOverlap`. The inductive invariant `SlicesInv` is

    MemoryTypeOK /\ ListIsWellFormed /\ ThreadsTypeOK
        /\ HeldAreOpen /\ HeldAreCovered /\ HeldAreCurrent

* `ListIsWellFormed` adds to `LiveListIsWellFormed` that the slots of the live slice hold
  periods that exist, of which the last one alone is open.
* `HeldAreOpen` says that what a thread inside of a call holds is open, whether it is the
  current period, one that a clone has replaced, or a clone: the writer waits for the
  readers' lock.
* `HeldAreCovered` is what makes `TotalsCoverPeriods` inductive. A snapshot puts a clone in
  place of the current period while adders hold the original, and a second snapshot may put
  a clone of the original in the place of the first one's; so for each period held, `Totals` and the sightings in flight must
  cover the list with that one in the place of the current one.
* `HeldAreCurrent` says that without an overlap all of these count the same, so that it does
  not matter which one it is: hence equality.

The lemmas say what each operation on slices does to the slots: append, in place and with a
new array (`Appended`), the store of a clone or a nil (`Stored`), and the two ends being cut
(`Dropped`, `Shortened`). `WriterSlicesInv` takes the writer's steps together: the heap grows,
periods leave the list, `Totals` loses what they counted (`HeapGrows`, `ListLeaves`, `TotalsLose`).

`ProcessProofs` proves of `NestProcessorManager`, for any number of reloads and any intervals
below `Long` (`ManagerAssumption`), `ManagerTypeOK`, `RunIsUpToDate`, `ConfigsAgree`,
`TimerIsOnTime` and the action property `RotationIsNotEarly`; the type is not
among the properties of the run, as it is proved for every size. The inductive invariant adds
to the type:

* `Signalled`: the signal of the first load waits until `Run` eats it, and what is
  true in the `select` is already true while `Run` adjusts its timer;
* `TimerIsSet`: a timer that has not fired has exactly the rest of the interval to go, and one that has fired
  did so after the interval (which `TimerIsOnTime` leaves open, and `RotationIsNotEarly` needs);
* `OneReload`: without overlap at most one reload is under way, and the filters
  lag behind the processor only between its last two steps.

`AreaProofs` proves of `PoracleSender`, for any number of messages, flushes and destinations
(`SenderAssumption`), `SenderTypeOK`, `QueueIsPending`, `ShutdownTakesTheQueue` and
`UnracedFlushIsExact`. What the
sequences say is said slot by slot in the invariant: `QueueHoldsPending` (the slots of the
queue are the pending messages), and `Written` (a batch is inside of its array and all its
slots are written, so that no zero message is sent, although the array it lies in may be
written again). `LastFlushComes` says that messages of before the shutdown wait for the last flush only.
`UnracedFlushIsExact` rests on a second invariant (`FlushIsExact` for every flush): a flush
has read the first of the messages it took, in order, and as long as nothing was added since,
the slots it still has to read hold what they held when it took them.

`AreaProofs` proves of `OsmImport`, for any areas and elements and any number of runs
(`OsmAssumption`), the action property `SuccessIsComplete`. `OsmInv` says that an area is
`Covered` (it has a row for each of its nests, or is troubled, or is being imported) if one
of its names is on a row (`RowsAreCovered`), if -new-areas knows it (`ExistingAreCovered`), or
if this run has left it behind (`VisitedAreCovered`). That a row stands for its own area only
needs the names on rows to differ (`NamesDiffer`) and to be spelled alike on both sides
(`ProperNamesAgree`), which is why the property is about `Proper` areas.

`NestsIterationProofs` proves, for any rows, at least one worker, and any size of batches and
channel (`IterationAssumption`), `NoRowIsPassedOver` and the refinement: `Spec => IteratesEveryRowOnce`,
that is `Iteration`'s specification with its `active` mapped to the rows in the workers' hands.
`RowsAreSomewhere` and `BatchIsNext` say where a row of the beginning is: after the last
batch, in it, in the channel or visited. `HandsAreDistinct` is why fn is called once,
`FailuresHaveReasons` and `ExitsHaveReasons` why success means that all rows were visited. Each
action is then a step of `Iteration` or a stutter (`HiddenStepsImplement`,
`StreamErrorsImplement`, `CallsImplement`, `CallerImplements`).

`KojiImportProofs` proves the action properties `OthersAreNotOverwritten` and `NoSecondGeofence` for
any features, batches and number of imports. The invariant relates what the importer
has read to what Koji has (`NamesAreKnown`, `NestsAreKnown`, but for what was not confirmed),
and what it is about to post to both (`DraftIsNew`). The assumption on names, `NamesAssumption`, is
not idle: a park whose own name is "name at place" of another could be overwritten.

`ProcessProofs` proves of `Fletchling` `RequestsAreFinished` and `OnlyFailuresAreFatal` for any requests. No request is under
way once the server is closed (`NoRequestIsLeft`), which needs that only errors of the listener come
through `doneCh` unless `Shutdown` was called (`ChannelIsHonest`).

`NestProofs` proves of `NestState`, for any pokemon, any finite set of goroutines and any number of
operations (`NestStateAssumption`), the four properties of the `nests` run and the type
(`NestsTypeOK`, which that run leaves to the proof). None is inductive; the invariant
`NestsInv` says in addition

* `CleanIsAlone`: a processing that nobody disturbed is the only one;
* `AnnouncementsAreRight`: unless `muddled` there is one processing at most, on the object of the
  current processor, and Poracle was last told of the pokemon in memory, if there is one, or is about to be
  (`AnnouncedIsRight`). A reload may hand that object on or, when the nest had none, put a
  fresh one in its place: `FreshInfoIsFree` shows with the pigeonhole principle that one is
  left, which is why there are two objects more than there are goroutines, for the
  current processor and the one that `Run` holds;
* `WrittenIsRight`: what an undisturbed processing is about to write, or has written, is
  what is in memory, although it reads the memory twice and the row never;
* `RefreshIsRight`: an undisturbed refresh holds the row as it is, and has left it as the
  filters decide (`Filtered`), but for the overlap that it is about to look for.

`NestProofs` proves of `NestingDecision` that `DecisionIsBest`, for any finite set of pokemon,
any counts and thresholds and any number of entries looked at (`DecisionAssumption`). The
invariant says that the summary is every pokemon seen, once, in order (`SummaryIsSorted`), and
that the first of the entries looked at that passes is the one that nests
(`FirstPassingNests`). The rank of a pokemon is a number of others, so a prefix of the summary
has to be counted (`PrefixCardinality`), and a list of n different elements of a set of n to be
shown to have them all (`ListOfAllHasEach`).

Only model-checked: liveness, which is under fairness and out of reach of the prover
(`LockIsReleased`, `WriterGetsLock`, `QueueIsTaken`,
`RotationsGoOn`, `RunEnds`, `IterationReturns`, `ImporterEnds`, `ShutdownEnds`).

## 6. What is not modelled, and why

* The composition of `NestingDecision` with `NestState`: which pokemon is selected is free in
  `NestState`, whose properties hold for any choice.
* Updates of the columns `m2` and `spawnpoints` alone, and queries of the API: no property depends on them.
* The cache file of the areas loader: it is written, and its name is never set.
* Exporters of Koji, of several sources and the db-exporter's formats: conversions.
* The composition of `Fletchling` with the manager and the sender: they meet it in the
  cancelled context and their return only.
* Geometry and R-tree: floating point; the set of matching nests is an input.
* JSON, routing, SQL text, migrations, formats, sorting for display, logging, metrics,
  profiling: input and output without a state the properties could tell apart.
