----------------------------- MODULE NestState -----------------------------
(***************************************************************************)
(* What is known of one nest, and who changes it.  The nesting pokemon is  *)
(* kept in memory (NestStatsInfo, shared by the nests of successive        *)
(* processors) and in a row of the database.                               *)
(*                                                                         *)
(*   ProcessStatsCollection   sets the pokemon in memory, announces it,    *)
(*                            and writes it to the row; one goroutine per  *)
(*                            rotation, which may overlap                  *)
(*   LoadConfig               loads the row if it is active                *)
(*   refreshNest, overlaps    decide from the filters if it is active      *)
(*   DBImporter               reads the row and upserts it                 *)
(*                                                                         *)
(* They share no lock.  Each reads the row once and writes it later, in    *)
(* one statement.  Run starts the goroutines on the processor it holds,    *)
(* which reloads may have replaced.  Nests do not touch each other's       *)
(* memory or rows, so one is enough; which pokemon nests is                *)
(* NestingDecision's matter, and free here.  Times are young or old: old   *)
(* ones are NoNestingPokemonAge ago.                                       *)
(***************************************************************************)
EXTENDS Naturals, FiniteSets

CONSTANTS
    Pokemon,   \* the pokemon that may nest
    Worker,    \* goroutines of ProcessStatsCollection
    Place,     \* what the filters can find: [shape, overlapped]
    MaxStarts  \* bound on the operations ever started

Nothing == "nothing"   \* no pokemon, no reason to be discarded

Nesting == Pokemon \union {Nothing}
Age == {"young", "old"}
Shape == {"fine", "small", "large", "invalid"}
Reason == {Nothing, "invalid", "area", "spawnpoints", "overlap", "unverified"}
Spawnpoints == {"unknown", "few", "enough"}
InfoId == 1..(Cardinality(Worker) + 2)
NoInfo == 0

Row == [active : BOOLEAN, discarded : Reason, pokemon : Nesting,
        updated : Age, spawnpoints : Spawnpoints]
Info == [pokemon : Nesting, updated : Age]
Processing == [pc : {"idle", "decide", "announce", "read", "write", "stamp"},
               info : InfoId \union {NoInfo}, ni : Nesting, partial : Nesting,
               clean : BOOLEAN]
Reloading == [pc : {"idle", "loaded"}, read : Row]
Refreshing == [pc : {"idle", "refreshing", "overlaps", "disabling"},
               read : Row, clean : BOOLEAN]
Importing == [pc : {"idle", "found", "missing"}, read : Row]

ASSUME NestStateAssumption ==
    /\ Nothing \notin Pokemon
    /\ IsFiniteSet(Worker)
    /\ Place \subseteq [shape : Shape, overlapped : BOOLEAN]
    /\ MaxStarts \in Nat

VARIABLES
    place,     \* the geometry, and whether a larger active nest overlaps it
    row,       \* the row of the nest
    info,      \* the NestStatsInfo objects: nestingPokemon, updatedAt
    current,   \* the one of the current processor, if it has the nest
    held,      \* the one of the processor Run holds, if it has the nest
    worker,    \* per goroutine: where it is, and its locals
    reload,    \* LoadConfig: whether it has read the row, and what it read
    refresh,   \* RefreshAllNests: where it is, and the row it read
    import,    \* ImportFeatures: where it is, and the row it read
    starts,    \* operations started
    told,      \* history: the pokemon of the last AddNestWebhook ever
    muddled,   \* history: why memory may hold another, see NestingIsAnnounced
    torn       \* history: a refresh wrote to a row that others had changed

vars == <<place, row, info, current, held, worker, reload, refresh, import, starts,
          told, muddled, torn>>

memory == <<info, current, held>>
history == <<told, muddled, torn>>

-----------------------------------------------------------------------------

\* A row as DBImporter leaves it.
ImportedRow == [active |-> FALSE, discarded |-> "unverified", pokemon |-> Nothing,
                updated |-> "young", spawnpoints |-> "unknown"]

\* clean is history: nobody else has interfered since the operation began.
IdleWorker == [pc |-> "idle", info |-> NoInfo, ni |-> Nothing, partial |-> Nothing,
               clean |-> TRUE]
IdleReader == [pc |-> "idle", read |-> ImportedRow]
IdleRefresh == [pc |-> "idle", read |-> ImportedRow, clean |-> TRUE]

NestsTypeOK ==
    /\ place \in Place
    /\ row \in Row
    /\ info \in [InfoId -> Info]
    /\ current \in InfoId \union {NoInfo}
    /\ held \in InfoId \union {NoInfo}
    /\ worker \in [Worker -> Processing]
    /\ reload \in Reloading
    /\ refresh \in Refreshing
    /\ import \in Importing
    /\ starts \in 0..MaxStarts
    /\ told \in Nesting
    /\ muddled \in BOOLEAN
    /\ torn \in BOOLEAN

Init ==
    /\ place \in Place
    /\ row = ImportedRow
    /\ info = [i \in InfoId |-> [pokemon |-> Nothing, updated |-> "old"]]
    /\ current = NoInfo
    /\ held = NoInfo
    /\ worker = [w \in Worker |-> IdleWorker]
    /\ reload = IdleReader
    /\ refresh = IdleRefresh
    /\ import = IdleReader
    /\ starts = 0
    /\ told = Nothing
    /\ muddled = FALSE
    /\ torn = FALSE

\* The budget of operations, a bound of the model.
Starts == starts < MaxStarts /\ starts' = starts + 1

Running == {w \in Worker : worker[w].pc # "idle"}

-----------------------------------------------------------------------------
(* ProcessStatsCollection, for this nest.                                   *)

\* Run takes the current processor, when it starts and after a reload, which may
\* be late: when it does so is NestProcessorManager's matter.
GetNestProcessor ==
    /\ held # current
    /\ held' = current
    /\ UNCHANGED <<place, row, info, current, worker, reload, refresh, import, starts,
                   history>>

\* Run starts a goroutine on the processor it holds.  If that does not have the
\* nest, or its history is too short, nothing is done for it.
ProcessStatsCollection(w) ==
    /\ Starts
    /\ Running # Worker
    /\ w = CHOOSE v \in Worker \ Running : TRUE    \* the ids mean nothing
    /\ held # NoInfo
    /\ worker' = [v \in Worker |->
            IF v = w
            THEN [IdleWorker EXCEPT !.pc = "decide", !.info = held,
                                    !.clean = (Running = {})]
            ELSE [worker[v] EXCEPT !.clean = FALSE]]
    /\ muddled' = (muddled \/ Running # {} \/ held # current)
    /\ UNCHANGED <<place, row, memory, reload, refresh, import, told, torn>>

\* SetNestingPokemon, under the mutex of the object.
SetNestingPokemon(i, ni) ==
    info' = [info EXCEPT ![i].pokemon = ni,
                         ![i].updated = IF ni # Nothing THEN "young" ELSE @]

\* Mutant: the row is only written when the pokemon changes.
NextAfterDecidingLazily(old, ni, updated) ==
    IF ni = Nothing THEN IF updated = "old" THEN "idle" ELSE "read"
    ELSE IF old = ni THEN "idle" ELSE "announce"

\* What remains to be done.  When no pokemon nests the row is left as it is
\* if it was last written more than NoNestingPokemonAge ago.
NextAfterDeciding(old, ni, updated) ==
    IF ni = Nothing THEN IF updated = "old" THEN "idle" ELSE "read"
    ELSE IF old = ni THEN "read" ELSE "announce"

\* The decision, and SetNestingPokemon with it.  That a pokemon has ended is only
\* logged: Poracle is not told.
Decide(w, ni) ==
    LET i    == worker[w].info
        next == NextAfterDeciding(info[i].pokemon, ni, info[i].updated)
    IN  /\ worker[w].pc = "decide"
        /\ SetNestingPokemon(i, ni)
        /\ worker' = [worker EXCEPT ![w] =
                IF next = "idle" THEN IdleWorker ELSE [@ EXCEPT !.pc = next, !.ni = ni]]
        /\ UNCHANGED <<place, row, current, held, reload, refresh, import, starts,
                       history>>

\* AddNestWebhook, for a pokemon that starts to nest or replaces another.
AddNestWebhook(w) ==
    /\ worker[w].pc = "announce"
    /\ worker' = [worker EXCEPT ![w].pc = "read"]
    /\ told' = worker[w].ni
    /\ muddled' = (muddled /\ ~(worker[w].clean /\ worker[w].info = current))
    /\ UNCHANGED <<place, row, memory, reload, refresh, import, starts, torn>>

\* AsStorePartialUpdatePokemon: the pokemon is read from memory again.
AsStorePartialUpdatePokemon(w) ==
    /\ worker[w].pc = "read"
    /\ worker' = [worker EXCEPT ![w].pc = "write",
                                ![w].partial = info[worker[w].info].pokemon]
    /\ UNCHANGED <<place, row, memory, reload, refresh, import, starts, history>>

\* UpdateNestPartial.  Loaded nests are active, so discarded becomes NULL.
UpdateNestPartial(w) ==
    /\ worker[w].pc = "write"
    /\ row' = [row EXCEPT !.pokemon = worker[w].partial, !.updated = "young",
                          !.discarded = Nothing]
    /\ worker' = [worker EXCEPT ![w].pc = "stamp"]
    /\ refresh' = [refresh EXCEPT !.clean = FALSE]
    /\ UNCHANGED <<place, memory, reload, import, starts, history>>

\* It fails, and that is logged.  A pokemon that ended is stamped all the same.
UpdateNestPartialFails(w) ==
    /\ worker[w].pc = "write"
    /\ worker' = [worker EXCEPT ![w] =
            IF worker[w].ni = Nothing
            THEN [@ EXCEPT !.pc = "stamp", !.clean = FALSE] ELSE IdleWorker]
    /\ UNCHANGED <<place, row, memory, reload, refresh, import, starts, history>>

SetUpdatedAt(w) ==
    /\ worker[w].pc = "stamp"
    /\ info' = [info EXCEPT ![worker[w].info].updated = "young"]
    /\ worker' = [worker EXCEPT ![w] = IdleWorker]
    /\ UNCHANGED <<place, row, current, held, reload, refresh, import, starts, history>>

Process(w) ==
    \/ ProcessStatsCollection(w)
    \/ \E ni \in Nesting : Decide(w, ni)
    \/ AddNestWebhook(w)
    \/ AsStorePartialUpdatePokemon(w)
    \/ UpdateNestPartial(w)
    \/ UpdateNestPartialFails(w)
    \/ SetUpdatedAt(w)

-----------------------------------------------------------------------------
(* LoadConfig, one at a time.                                               *)

GetActiveNests ==
    /\ Starts
    /\ reload.pc = "idle"
    /\ reload' = [IdleReader EXCEPT !.pc = "loaded", !.read = row]
    /\ UNCHANGED <<place, row, memory, worker, refresh, import, history>>

\* An object that nobody refers to.
FreshInfo ==
    CHOOSE i \in InfoId : i \notin {current, held} /\ \A w \in Running : worker[w].info # i

\* Mutant: the object of the old processor is not handed on.
LoadedInfoAnew(read, skipped) == IF read.active /\ ~skipped THEN FreshInfo ELSE NoInfo

\* The object of the new processor: the one of the old processor if it has it.
\* A nest is skipped if its geometry, which anyone may have changed in the
\* database, is of no use.
LoadedInfo(read, skipped) ==
    IF ~read.active \/ skipped THEN NoInfo
    ELSE IF current # NoInfo THEN current ELSE FreshInfo

\* NestingPokemonInfoFromDBStore and SetNestingPokemon: without a pokemon the
\* time stays zero, which is long ago.
NestingPokemonInfoFromDBStore(read) ==
    [pokemon |-> read.pokemon,
     updated |-> IF read.pokemon = Nothing THEN "old" ELSE read.updated]

\* Whether Poracle has been told of the pokemon of the row, if it has one.
RowIsTold == row.pokemon \in {Nothing, told}

\* The new processor takes over.  No lock keeps those on the old one out, and Run
\* still holds it.
SwapProcessor(skipped) ==
    LET id == LoadedInfo(reload.read, skipped)
    IN  /\ reload.pc = "loaded"
        /\ current' = id
        /\ info' = IF id \in {NoInfo, current} THEN info
                   ELSE [info EXCEPT ![id] = NestingPokemonInfoFromDBStore(reload.read)]
        /\ reload' = IdleReader
        /\ muddled' = (muddled \/ (id # current /\ (Running # {} \/ ~RowIsTold)))
        /\ UNCHANGED <<place, row, held, worker, refresh, import, starts, told, torn>>

\* The process ends and starts anew: what is in memory is lost, and what was
\* announced and not written with it.
Restart ==
    /\ Starts
    /\ current' = NoInfo
    /\ held' = NoInfo
    /\ info' = [i \in InfoId |-> [pokemon |-> Nothing, updated |-> "old"]]
    /\ worker' = [w \in Worker |-> IdleWorker]
    /\ reload' = IdleReader
    /\ muddled' = ~RowIsTold
    /\ UNCHANGED <<place, row, refresh, import, told, torn>>

-----------------------------------------------------------------------------
(* RefreshAllNests: refreshNest on the row as it was streamed, and then the *)
(* procedure that disables nests under larger ones.                         *)

StreamNest ==
    /\ Starts
    /\ refresh.pc = "idle"
    /\ refresh' = [IdleRefresh EXCEPT !.pc = "refreshing", !.read = row]
    /\ UNCHANGED <<place, row, memory, worker, reload, import, history>>

\* The counts that can come of a row: of Golbat when it is asked, and it
\* answers; the one of the row otherwise.
RefreshedSpawnpoints(spawnpoints, force) ==
    IF place.shape = "invalid" THEN {"unknown"}
    ELSE {spawnpoints} \union
         (IF place.shape # "large" /\ (spawnpoints = "unknown" \/ force)
          THEN {"few", "enough"} ELSE {})

\* What the filters say.
DiscardReason(spawnpoints) ==
    IF place.shape = "invalid" THEN "invalid"
    ELSE IF place.shape \in {"small", "large"} THEN "area"
    ELSE IF spawnpoints = "few" THEN "spawnpoints" ELSE Nothing

\* Mutant: only the pokemon of a row that was active is unset.
RefreshedRowOfActive(read, spawnpoints) ==
    LET reason == DiscardReason(spawnpoints)
    IN  [active |-> reason = Nothing, discarded |-> reason, spawnpoints |-> spawnpoints,
         pokemon |-> IF reason # Nothing /\ read.active THEN Nothing ELSE read.pokemon,
         updated |-> read.updated]

\* Mutant: discarded is not reset.
RefreshedRowStillDiscarded(read, spawnpoints) ==
    LET reason == DiscardReason(spawnpoints)
    IN  [active |-> reason = Nothing, spawnpoints |-> spawnpoints,
         discarded |-> IF reason = Nothing THEN read.discarded ELSE reason,
         pokemon |-> IF reason # Nothing THEN Nothing ELSE read.pokemon,
         updated |-> read.updated]

\* The row as refreshNest wants it.
RefreshedRow(read, spawnpoints) ==
    LET reason == DiscardReason(spawnpoints)
    IN  [active |-> reason = Nothing, discarded |-> reason, spawnpoints |-> spawnpoints,
         pokemon |-> IF reason # Nothing THEN Nothing ELSE read.pokemon,
         updated |-> read.updated]

\* The columns that differ from the row as it was read are written, in one
\* update, to the row as it is now; resized: among them the area, m2.
RefreshNest ==
    \E force, resized \in BOOLEAN :
    \E spawnpoints \in RefreshedSpawnpoints(refresh.read.spawnpoints, force) :
        LET wanted  == RefreshedRow(refresh.read, spawnpoints)
            differ  == {c \in DOMAIN row : wanted[c] # refresh.read[c]}
        IN  /\ refresh.pc = "refreshing"
            /\ row' = IF differ = {} /\ ~resized THEN row
                      ELSE [c \in DOMAIN row |-> IF c = "updated" THEN "young"
                                ELSE IF c \in differ THEN wanted[c] ELSE row[c]]
            /\ refresh' = [refresh EXCEPT !.pc = "overlaps"]
            /\ worker' = [w \in Worker |->
                            [worker[w] EXCEPT !.clean = @ /\ "pokemon" \notin differ]]
            /\ torn' = ~refresh.clean
            /\ UNCHANGED <<place, memory, reload, import, starts, told, muddled>>

\* An update fails, or the client that asked for the refresh goes away.
RefreshFails ==
    /\ refresh.pc # "idle"
    /\ refresh' = [IdleRefresh EXCEPT !.clean = FALSE]
    /\ UNCHANGED <<place, row, memory, worker, reload, import, starts, history>>

OverlapDisabled == [row EXCEPT !.active = FALSE, !.discarded = "overlap",
                               !.pokemon = Nothing]

\* fl_nest_filter_overlap: first the temporary table of what is to be disabled,
FindOverlaps ==
    /\ refresh.pc = "overlaps"
    /\ refresh' = IF row.active /\ place.overlapped
                  THEN [refresh EXCEPT !.pc = "disabling"] ELSE IdleRefresh
    /\ UNCHANGED <<place, row, memory, worker, reload, import, starts, history>>

\* then the update.
DisableOverlappingNests ==
    /\ refresh.pc = "disabling"
    /\ row' = OverlapDisabled
    /\ refresh' = IdleRefresh
    /\ worker' = [w \in Worker |-> [worker[w] EXCEPT !.clean = FALSE]]
    /\ UNCHANGED <<place, memory, reload, import, starts, history>>

-----------------------------------------------------------------------------
(* DBImporter.ImportFeatures, for the feature of this nest.                 *)

\* GetNestById.  An error is not told from a row that does not exist.
GetNestById(outcome) ==
    /\ Starts
    /\ import.pc = "idle"
    /\ import' = [IdleReader EXCEPT !.pc = outcome, !.read = row]
    /\ UNCHANGED <<place, row, memory, worker, reload, refresh, history>>

\* The row after InsertOrUpdateNest, which leaves the pokemon alone.
Upserted ==
    LET read == import.read
    IN  IF import.pc = "missing" THEN [ImportedRow EXCEPT !.pokemon = row.pokemon]
        ELSE [read EXCEPT
                !.discarded = IF read.active THEN Nothing
                              ELSE IF @ = Nothing THEN "unverified" ELSE @,
                !.pokemon = row.pokemon]

InsertOrUpdateNest ==
    /\ import.pc # "idle"
    /\ row' = Upserted
    /\ import' = IdleReader
    /\ refresh' = [refresh EXCEPT !.clean = FALSE]
    /\ torn' = FALSE
    /\ UNCHANGED <<place, memory, worker, reload, starts, told, muddled>>

\* The upsert fails, and that is logged.
InsertOrUpdateNestFails ==
    /\ import.pc # "idle"
    /\ import' = IdleReader
    /\ UNCHANGED <<place, row, memory, worker, reload, refresh, starts, history>>

-----------------------------------------------------------------------------

\* More than NoNestingPokemonAge goes by.  No operation takes that long.
TimePasses ==
    /\ Running = {} /\ reload.pc = "idle" /\ refresh.pc = "idle" /\ import.pc = "idle"
    /\ row' = [row EXCEPT !.updated = "old"]
    /\ info' = [i \in InfoId |-> [info[i] EXCEPT !.updated = "old"]]
    /\ UNCHANGED <<place, current, held, worker, reload, refresh, import, starts, history>>

Next ==
    \/ \E w \in Worker : Process(w)
    \/ GetNestProcessor
    \/ GetActiveNests
    \/ \E skipped \in BOOLEAN : SwapProcessor(skipped)
    \/ Restart
    \/ StreamNest
    \/ RefreshNest
    \/ RefreshFails
    \/ FindOverlaps
    \/ DisableOverlappingNests
    \/ \E outcome \in {"found", "missing"} : GetNestById(outcome)
    \/ InsertOrUpdateNest
    \/ InsertOrUpdateNestFails
    \/ TimePasses

Spec == Init /\ [][Next]_vars

-----------------------------------------------------------------------------
(* What holds.                                                              *)

\* When no processing is under way, a pokemon in memory is the last one that
\* Poracle was told of: every start and every change is announced, over reloads,
\* restarts and failed writes.  (Poracle keeps that one when nothing nests any
\* more: the end is not announced.)  It may be another only if processings
\* overlapped, or one worked on the object of a processor that was replaced; or if
\* memory was lost while the row held a pokemon, and not the one that was announced.
NestingIsAnnounced ==
    current # NoInfo /\ Running = {} /\ ~muddled
        => info[current].pokemon \in {Nothing, told}

\* A processing that nobody disturbed leaves the pokemon of memory in the row,
\* also when the write of an earlier one had failed.  It leaves the row alone
\* only if nothing nests and it was written NoNestingPokemonAge ago.
RowFollowsNesting ==
    [][\A w \in Worker :
          LET i == worker[w].info
          IN  /\ worker[w].pc \in {"decide", "stamp"} /\ worker'[w].pc = "idle"
              /\ worker[w].clean /\ starts' = starts
              => \/ row'.pokemon = info'[i].pokemon
                 \/ info'[i] = [pokemon |-> Nothing, updated |-> "old"]]_vars

\* After a refresh that ran to its end while nobody else wrote to the row, the
\* row is what the filters say: active or not, and why not; and if not, without
\* a pokemon, which a processing may have written to it when it was inactive.
RefreshedRowIsRight ==
    [][LET reason == DiscardReason(row'.spawnpoints)
       IN  /\ refresh.pc # "idle" /\ refresh'.pc = "idle"
           /\ refresh.clean /\ refresh'.clean
           => /\ row'.active = (reason = Nothing /\ ~place.overlapped)
              /\ row'.discarded = IF reason = Nothing /\ place.overlapped THEN "overlap"
                                  ELSE reason
              /\ row'.active \/ row'.pokemon = Nothing]_vars

\* An active row has no reason to be discarded, unless a refresh wrote what had
\* changed of a row that others had changed since: it writes columns, not rows.
ActiveRowsAreNotDiscarded ==
    row.active /\ row.discarded # Nothing => torn

-----------------------------------------------------------------------------
(* What the comments say and the code does not do.                          *)

\* "How many hours without seeing a nesting pokemon before we unset it in DB."
UnsetOnlyWhenOld ==
    [][(\E w \in Worker : worker[w].pc = "write" /\ worker'[w].pc = "stamp")
       /\ row.pokemon # Nothing /\ row'.pokemon = Nothing
       => row.updated = "old"]_vars

\* "The importer can be run multiple times without overwriting your existing
\* nests."
ImportKeepsActiveNests ==
    [][import.pc # "idle" /\ import'.pc = "idle" /\ import.read.active /\ row.active
       => row'.active]_vars

=============================================================================
