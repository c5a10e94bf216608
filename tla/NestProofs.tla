----------------------------- MODULE NestProofs -----------------------------
(***************************************************************************)
(* What NestState says of a nest, its row and what Poracle knows of it     *)
(* holds for any pokemon, any number of processings that overlap, any      *)
(* geometry and however many operations; and NestingDecision takes a best  *)
(* pokemon for any counts, thresholds and number of entries looked at.     *)
(***************************************************************************)
EXTENDS NestState, NestingDecision, FiniteSetTheorems, TLAPS

-----------------------------------------------------------------------------
(* NestState.                                                               *)

\* A processing works on an object, as long as it runs.
InfosAreThere == \A w \in Running : worker[w].info \in InfoId

\* A processing that nobody has disturbed is the only one.
CleanIsAlone ==
    \A v, w \in Running : worker[w].clean => v = w

\* Unless memory may hold another: there is one processing at most, on the object of
\* the current processor; a pokemon in memory is the last one announced, or is about
\* to be; and without an object, a pokemon in the row, or in what was read of it, is
\* the last one announced.
AnnouncementsAreRight ==
    ~muddled =>
        /\ \A v, w \in Running : v = w
        /\ \A w \in Running : worker[w].info = current
        /\ current # NoInfo =>
              \/ info[current].pokemon \in {Nothing, told}
              \/ \E w \in Running : worker[w].pc = "announce"
        /\ current = NoInfo =>
              /\ RowIsTold
              /\ reload.pc = "loaded" => reload.read.pokemon \in {Nothing, told}

\* What is announced by a processing that is alone is what is in memory.
AnnouncedIsRight ==
    \A w \in Running :
        worker[w].pc = "announce" /\ (worker[w].clean \/ ~muddled) =>
            info[worker[w].info].pokemon = worker[w].ni

\* What a processing that nobody has disturbed writes is what is in memory.
WrittenIsRight ==
    \A w \in Running :
        worker[w].clean =>
            /\ worker[w].pc = "write" => worker[w].partial = info[worker[w].info].pokemon
            /\ worker[w].pc = "stamp" => row.pokemon = info[worker[w].info].pokemon

\* The row is what the filters say, but for larger nests that overlap it.
Filtered(r) ==
    LET reason == DiscardReason(r.spawnpoints)
    IN  /\ r.active = (reason = Nothing)
        /\ r.discarded = reason
        /\ r.active \/ r.pokemon = Nothing

\* A refresh that nobody has disturbed works on the row as it is, and leaves it
\* as it should be.
RefreshIsRight ==
    refresh.clean =>
        /\ refresh.pc = "refreshing" => refresh.read = row
        /\ refresh.pc \in {"overlaps", "disabling"} => Filtered(row)
        /\ refresh.pc = "disabling" => row.active /\ place.overlapped

NestsInv ==
    /\ NestsTypeOK
    /\ InfosAreThere
    /\ CleanIsAlone
    /\ AnnouncementsAreRight
    /\ AnnouncedIsRight
    /\ WrittenIsRight
    /\ RefreshIsRight
    /\ ActiveRowsAreNotDiscarded

-----------------------------------------------------------------------------
(* Objects, rows, and what does not touch them.                             *)

\* Two objects more than there are processings: one is free when the processor
\* has none, besides the one that Run may hold.
LEMMA FreshInfoIsFree ==
    ASSUME NestsTypeOK, current = NoInfo
    PROVE  /\ FreshInfo \in InfoId
           /\ FreshInfo # NoInfo
           /\ \A w \in Running : worker[w].info # FreshInfo
<1> DEFINE nobody == CHOOSE x : x \notin Worker
           Owner == Worker \union {nobody}
           owner == [i \in InfoId |-> IF i = held THEN nobody
                                      ELSE CHOOSE w \in Worker : worker[w].info = i]
           Free(i) == i \notin {current, held} /\ \A w \in Running : worker[w].info # i
<1>1. Cardinality(Worker) \in Nat /\ IsFiniteSet(Worker)
  BY NestStateAssumption, FS_CardinalityType
<1>2. IsFiniteSet(InfoId) /\ Cardinality(InfoId) = Cardinality(Worker) + 2
  BY <1>1, FS_Interval DEF InfoId
<1>3. nobody \notin Worker
  BY NoSetContainsEverything
<1> HIDE DEF nobody
<1>4. IsFiniteSet(Owner) /\ Cardinality(Owner) = Cardinality(Worker) + 1
  BY <1>1, <1>3, FS_AddElement
<1>5. \E i \in InfoId : Free(i)
  <2>1. SUFFICES ASSUME \A i \in InfoId :
                            i # held => \E w \in Worker : worker[w].info = i
                 PROVE  FALSE
    BY <1>1 DEF InfoId, NoInfo, Running
  <2>2. owner \in [InfoId -> Owner]
    BY <2>1
  <2>3. \A i \in InfoId : IF i = held THEN owner[i] = nobody
                          ELSE owner[i] \in Worker /\ worker[owner[i]].info = i
    BY <2>1
  <2> HIDE DEF owner, Owner
  <2>4. \E i, j \in InfoId : i # j /\ owner[i] = owner[j]
    BY <1>1, <1>2, <1>4, <2>2, FS_PigeonHole
  <2> QED
    BY <1>3, <2>3, <2>4
<1>6. FreshInfo \in InfoId /\ Free(FreshInfo)
  BY <1>5 DEF FreshInfo
<1> QED
  BY <1>6 DEF InfoId, NoInfo

LEMMA IdleTypes ==
    /\ IdleWorker \in Processing /\ ImportedRow \in Row
    /\ IdleReader \in Reloading /\ IdleReader \in Importing /\ IdleRefresh \in Refreshing
<1>1. IdleWorker \in Processing /\ ImportedRow \in Row
  BY DEF IdleWorker, Processing, ImportedRow, Row, Nesting, Reason, Age, Spawnpoints
<1> QED
  BY <1>1 DEF IdleReader, IdleRefresh, Reloading, Importing, Refreshing

\* The bound of the model.
LEMMA StartsAreBounded ==
    ASSUME NestsTypeOK, Starts
    PROVE  starts' \in 0..MaxStarts
<1>1. MaxStarts \in Nat /\ starts \in 0..MaxStarts
  BY NestStateAssumption DEF NestsTypeOK
<1> QED
  BY <1>1 DEF Starts

\* What is said of the processings depends on the row by its pokemon only.
ProcessingsAreRight ==
    /\ InfosAreThere /\ CleanIsAlone /\ AnnouncementsAreRight
    /\ AnnouncedIsRight /\ WrittenIsRight

LEMMA ProcessingsKept ==
    ASSUME ProcessingsAreRight, row'.pokemon = row.pokemon,
           UNCHANGED <<memory, worker, reload, told, muddled>>
    PROVE  ProcessingsAreRight'
BY DEF ProcessingsAreRight, memory, Running, RowIsTold, InfosAreThere, CleanIsAlone,
       AnnouncementsAreRight, AnnouncedIsRight, WrittenIsRight

\* What is said of the refresh does not depend on processings.
LEMMA RefreshKept ==
    ASSUME RefreshIsRight, ActiveRowsAreNotDiscarded, UNCHANGED <<place, row, refresh, torn>>
    PROVE  RefreshIsRight' /\ ActiveRowsAreNotDiscarded'
BY DEF RefreshIsRight, ActiveRowsAreNotDiscarded, Filtered, DiscardReason

-----------------------------------------------------------------------------
(* The steps.                                                               *)

LEMMA InitNestsInv == Init => NestsInv
<1> SUFFICES ASSUME Init PROVE NestsInv
  OBVIOUS
<1>1. Running = {}
  BY DEF Init, Running, IdleWorker
<1>2. NestsTypeOK
  <2>1. info \in [InfoId -> Info] /\ told \in Nesting
    BY DEF Init, Info, Nesting, Age
  <2>2. worker \in [Worker -> Processing]
    BY IdleTypes DEF Init
  <2>3. starts \in 0..MaxStarts
    BY NestStateAssumption DEF Init
  <2> QED
    BY <2>1, <2>2, <2>3, IdleTypes DEF Init, NestsTypeOK
<1>3. RefreshIsRight /\ ActiveRowsAreNotDiscarded
  BY DEF Init, RefreshIsRight, IdleRefresh, ActiveRowsAreNotDiscarded, ImportedRow
<1> QED
  BY <1>1, <1>2, <1>3 DEF Init, NestsInv, InfosAreThere, CleanIsAlone,
     AnnouncementsAreRight, AnnouncedIsRight, WrittenIsRight, RowIsTold, ImportedRow,
     IdleReader

LEMMA ProcessStatsCollectionNestsInv ==
    ASSUME NestsInv, NEW w \in Worker, ProcessStatsCollection(w)
    PROVE  NestsInv'
<1> USE DEF NestsInv, memory, history
<1>1. w \notin Running
  BY DEF ProcessStatsCollection, Running
<1>2. /\ \A v \in Worker : v # w => worker'[v] = [worker[v] EXCEPT !.clean = FALSE]
      /\ worker'[w] = [IdleWorker EXCEPT !.pc = "decide", !.info = held,
                                         !.clean = (Running = {})]
      /\ worker' \in [Worker -> Processing]
  BY IdleTypes DEF ProcessStatsCollection, NestsTypeOK, Processing
<1>3. /\ worker'[w].pc = "decide" /\ worker'[w].info = held
      /\ worker'[w].clean => Running = {}
  BY <1>2 DEF IdleWorker
<1>4. \A v \in Worker \ {w} :
          /\ worker'[v].pc = worker[v].pc /\ worker'[v].info = worker[v].info
          /\ ~worker'[v].clean
  BY <1>2 DEF NestsTypeOK, Processing
<1>5. ~muddled' => ~muddled /\ Running = {} /\ held = current
  BY DEF ProcessStatsCollection
<1>6. Running' = Running \union {w}
  BY <1>3, <1>4 DEF Running
<1>7. NestsTypeOK'
  <2>1. starts' \in 0..MaxStarts
    BY StartsAreBounded DEF ProcessStatsCollection
  <2>2. muddled' \in BOOLEAN
    BY Zenon DEF ProcessStatsCollection
  <2> QED
    BY <1>2, <2>1, <2>2 DEF ProcessStatsCollection, NestsTypeOK
<1>8. ProcessingsAreRight'
  <2>1. held \in InfoId
    BY DEF ProcessStatsCollection, NestsTypeOK
  <2>2. InfosAreThere' /\ CleanIsAlone'
    BY <1>3, <1>4, <1>6, <2>1 DEF InfosAreThere, CleanIsAlone, Running
  <2>3. AnnouncementsAreRight'
    BY <1>3, <1>5, <1>6 DEF AnnouncementsAreRight, RowIsTold, ProcessStatsCollection
  <2>4. AnnouncedIsRight' /\ WrittenIsRight'
    BY <1>3, <1>4, <1>5, <1>6 DEF AnnouncedIsRight, WrittenIsRight, Running
  <2> QED
    BY <2>2, <2>3, <2>4 DEF ProcessingsAreRight
<1>9. RefreshIsRight' /\ ActiveRowsAreNotDiscarded'
  BY RefreshKept DEF ProcessStatsCollection
<1> QED
  BY <1>7, <1>8, <1>9 DEF ProcessingsAreRight

LEMMA DecideNestsInv ==
    ASSUME NestsInv, NEW w \in Worker, NEW ni \in Nesting, Decide(w, ni)
    PROVE  NestsInv'
<1> USE DEF NestsInv, memory, history
<1>1. NestsTypeOK'
  <2>1. worker' \in [Worker -> Processing]
    <3>1. PICK next \in {"idle", "read", "announce"} :
            worker' = [worker EXCEPT ![w] =
                IF next = "idle" THEN IdleWorker ELSE [@ EXCEPT !.pc = next, !.ni = ni]]
      BY DEF Decide, NextAfterDeciding
    <3>2. [worker[w] EXCEPT !.pc = next, !.ni = ni] \in Processing
      BY DEF NestsTypeOK, Processing
    <3> QED
      BY <3>1, <3>2, IdleTypes DEF NestsTypeOK
  <2>2. info' \in [InfoId -> Info]
    BY IdleTypes
    DEF Decide, SetNestingPokemon, NextAfterDeciding, NestsTypeOK,
        InfosAreThere, Running, Processing, Info, Nesting, Age
  <2> QED
    BY <2>1, <2>2 DEF Decide, NestsTypeOK
<1>2. ProcessingsAreRight'
  <2> DEFINE i == worker[w].info
  <2>1. w \in Running /\ i \in InfoId /\ worker[w].pc = "decide"
    BY DEF Decide, Running, InfosAreThere
  <2>2. \A v \in Worker \ {w} : worker'[v] = worker[v]
    BY DEF Decide, NestsTypeOK
  <2>3. /\ worker'[w].pc \in {"idle", "read", "announce"}
        /\ worker'[w].pc # "idle" =>
              worker'[w].info = i /\ worker'[w].clean = worker[w].clean /\ worker'[w].ni = ni
        /\ worker'[w].pc # "announce" => ni = Nothing \/ info[i].pokemon = ni
    BY DEF Decide, NextAfterDeciding, IdleWorker, NestsTypeOK, Processing
  <2>4. /\ info'[i].pokemon = ni
        /\ \A j \in InfoId : j # i => info'[j] = info[j]
    BY <2>1 DEF Decide, SetNestingPokemon, NestsTypeOK, Info
  <2>5. UNCHANGED <<current, row, reload, muddled, told>>
    BY DEF Decide
  <2>6. Running' \subseteq Running
    BY <2>1, <2>2 DEF Running
  <2> HIDE DEF i
  <2>7. InfosAreThere' /\ CleanIsAlone'
    BY <2>1, <2>2, <2>3, <2>6 DEF InfosAreThere, CleanIsAlone, Running
  <2>8. AnnouncementsAreRight'
    <3>1. CASE muddled
      BY <2>5, <3>1 DEF AnnouncementsAreRight
    <3>2. CASE ~muddled
      <4>1. Running = {w} /\ i = current
        BY <2>1, <3>2 DEF AnnouncementsAreRight, i
      <4>2. current # NoInfo /\ info[current].pokemon \in {Nothing, told}
        BY <2>1, <3>2, <4>1 DEF AnnouncementsAreRight, InfoId, NoInfo
      <4>3. info'[current'].pokemon \in {Nothing, told'} \/ worker'[w].pc = "announce"
        BY <2>3, <2>4, <2>5, <4>1, <4>2
      <4> QED
        BY <2>1, <2>3, <2>5, <2>6, <4>1, <4>2, <4>3 DEF AnnouncementsAreRight, Running
    <3> QED
      BY <3>1, <3>2
  <2>9. AnnouncedIsRight' /\ WrittenIsRight'
    <3>1. ASSUME NEW v \in Running', v # w, worker[v].clean \/ ~muddled
          PROVE  FALSE
      BY <2>1, <2>6, <3>1 DEF AnnouncementsAreRight, CleanIsAlone
    <3> QED
      BY <2>1, <2>2, <2>3, <2>4, <2>5, <2>6, <3>1
      DEF AnnouncedIsRight, WrittenIsRight, Running
  <2> QED
    BY <2>7, <2>8, <2>9 DEF ProcessingsAreRight
<1>3. RefreshIsRight' /\ ActiveRowsAreNotDiscarded'
  BY RefreshKept DEF Decide
<1> QED
  BY <1>1, <1>2, <1>3 DEF ProcessingsAreRight

LEMMA AddNestWebhookNestsInv ==
    ASSUME NestsInv, NEW w \in Worker, AddNestWebhook(w)
    PROVE  NestsInv'
<1> USE DEF NestsInv, memory, history
<1>1. NestsTypeOK'
  <2>1. worker' \in [Worker -> Processing]
    BY DEF AddNestWebhook, NestsTypeOK, Processing
  <2>2. muddled' \in BOOLEAN
    BY Zenon DEF AddNestWebhook
  <2>3. told' \in Nesting
    BY DEF AddNestWebhook, NestsTypeOK, Processing
  <2> QED
    BY <2>1, <2>2, <2>3 DEF AddNestWebhook, NestsTypeOK
<1>2. ProcessingsAreRight'
  BY DEF RowIsTold, InfoId, NoInfo, AddNestWebhook, ProcessingsAreRight, InfosAreThere,
         CleanIsAlone, AnnouncementsAreRight, AnnouncedIsRight, WrittenIsRight, Running,
         NestsTypeOK, Processing
<1>3. RefreshIsRight' /\ ActiveRowsAreNotDiscarded'
  BY RefreshKept DEF AddNestWebhook
<1> QED
  BY <1>1, <1>2, <1>3 DEF ProcessingsAreRight

LEMMA AsStorePartialUpdatePokemonNestsInv ==
    ASSUME NestsInv, NEW w \in Worker, AsStorePartialUpdatePokemon(w)
    PROVE  NestsInv'
<1> USE DEF NestsInv, memory, history
<1>1. NestsTypeOK'
  <2>1. info[worker[w].info].pokemon \in Nesting
    BY DEF AsStorePartialUpdatePokemon, NestsTypeOK, InfosAreThere, Running, Info
  <2>2. /\ worker[w] \in Processing /\ worker \in [Worker -> Processing]
        /\ worker' = [worker EXCEPT ![w].pc = "write",
                                    ![w].partial = info[worker[w].info].pokemon]
    BY DEF AsStorePartialUpdatePokemon, NestsTypeOK
  <2>3. worker' \in [Worker -> Processing]
    BY ONLY <2>1, <2>2 DEF Processing
  <2> QED
    BY <2>3 DEF AsStorePartialUpdatePokemon, NestsTypeOK
<1>2. ProcessingsAreRight'
  BY DEF RowIsTold, InfoId, NoInfo, AsStorePartialUpdatePokemon, ProcessingsAreRight,
         InfosAreThere, CleanIsAlone, AnnouncementsAreRight, AnnouncedIsRight,
         WrittenIsRight, Running, NestsTypeOK, Processing
<1>3. RefreshIsRight' /\ ActiveRowsAreNotDiscarded'
  BY RefreshKept DEF AsStorePartialUpdatePokemon
<1> QED
  BY <1>1, <1>2, <1>3 DEF ProcessingsAreRight

LEMMA UpdateNestPartialNestsInv ==
    ASSUME NestsInv, NEW w \in Worker, UpdateNestPartial(w)
    PROVE  NestsInv'
<1> USE DEF NestsInv, memory, history
<1>1. NestsTypeOK'
  <2>1. row' \in Row
    BY DEF UpdateNestPartial, NestsTypeOK, Row, Age, Reason, Nesting,
           Spawnpoints, Processing
  <2>2. worker' \in [Worker -> Processing]
    BY DEF UpdateNestPartial, NestsTypeOK, Processing
  <2>3. refresh' \in Refreshing
    BY DEF UpdateNestPartial, NestsTypeOK, Refreshing
  <2> QED
    BY <2>1, <2>2, <2>3 DEF UpdateNestPartial, NestsTypeOK
<1>2. ProcessingsAreRight'
  BY DEF RowIsTold, InfoId, NoInfo, UpdateNestPartial, ProcessingsAreRight,
         InfosAreThere, CleanIsAlone, AnnouncementsAreRight, AnnouncedIsRight,
         WrittenIsRight, Running, NestsTypeOK, Processing
<1>3. RefreshIsRight' /\ ActiveRowsAreNotDiscarded'
  BY DEF UpdateNestPartial, RefreshIsRight, ActiveRowsAreNotDiscarded, Filtered,
         DiscardReason, NestsTypeOK
<1> QED
  BY <1>1, <1>2, <1>3 DEF ProcessingsAreRight

LEMMA UpdateNestPartialFailsNestsInv ==
    ASSUME NestsInv, NEW w \in Worker, UpdateNestPartialFails(w)
    PROVE  NestsInv'
<1> USE DEF NestsInv, memory, history
<1>1. NestsTypeOK'
  <2>1. worker' \in [Worker -> Processing]
    BY IdleTypes DEF UpdateNestPartialFails, NestsTypeOK, Processing
  <2> QED
    BY <2>1 DEF UpdateNestPartialFails, NestsTypeOK
<1>2. ProcessingsAreRight'
  BY DEF RowIsTold, InfoId, NoInfo, UpdateNestPartialFails, IdleWorker,
         ProcessingsAreRight, InfosAreThere, CleanIsAlone, AnnouncementsAreRight,
         AnnouncedIsRight, WrittenIsRight, Running, NestsTypeOK, Processing
<1>3. RefreshIsRight' /\ ActiveRowsAreNotDiscarded'
  BY RefreshKept DEF UpdateNestPartialFails
<1> QED
  BY <1>1, <1>2, <1>3 DEF ProcessingsAreRight

LEMMA SetUpdatedAtNestsInv ==
    ASSUME NestsInv, NEW w \in Worker, SetUpdatedAt(w)
    PROVE  NestsInv'
<1> USE DEF NestsInv, memory, history
<1>1. NestsTypeOK'
  <2>1. info' \in [InfoId -> Info]
    BY IdleTypes
    DEF SetUpdatedAt, NestsTypeOK, InfosAreThere, Running, Processing, Info,
        Nesting, Age
  <2>2. worker' \in [Worker -> Processing]
    BY IdleTypes DEF SetUpdatedAt, NestsTypeOK, Processing
  <2> QED
    BY <2>1, <2>2 DEF SetUpdatedAt, NestsTypeOK
<1>2. ProcessingsAreRight'
  BY DEF RowIsTold, InfoId, NoInfo, SetUpdatedAt, IdleWorker, ProcessingsAreRight,
         InfosAreThere, CleanIsAlone, AnnouncementsAreRight, AnnouncedIsRight,
         WrittenIsRight, Running, NestsTypeOK, Processing
<1>3. RefreshIsRight' /\ ActiveRowsAreNotDiscarded'
  BY RefreshKept DEF SetUpdatedAt
<1> QED
  BY <1>1, <1>2, <1>3 DEF ProcessingsAreRight

LEMMA GetActiveNestsNestsInv ==
    ASSUME NestsInv, GetActiveNests
    PROVE  NestsInv'
<1> USE DEF NestsInv, memory, history
<1>1. NestsTypeOK'
  <2>1. reload' \in Reloading
    BY IdleTypes DEF GetActiveNests, Starts, NestsTypeOK, Reloading
  <2> QED
    BY <2>1, StartsAreBounded DEF GetActiveNests, NestsTypeOK
<1>2. ProcessingsAreRight'
  BY DEF GetActiveNests, IdleReader, ProcessingsAreRight, Running, RowIsTold,
         InfosAreThere, CleanIsAlone, AnnouncementsAreRight, AnnouncedIsRight,
         WrittenIsRight
<1>3. RefreshIsRight' /\ ActiveRowsAreNotDiscarded'
  BY RefreshKept DEF GetActiveNests
<1> QED
  BY <1>1, <1>2, <1>3 DEF ProcessingsAreRight

LEMMA GetNestProcessorNestsInv ==
    ASSUME NestsInv, GetNestProcessor
    PROVE  NestsInv'
<1> USE DEF NestsInv, history
<1>1. NestsTypeOK'
  BY DEF GetNestProcessor, NestsTypeOK
<1>2. ProcessingsAreRight'
  BY DEF GetNestProcessor, ProcessingsAreRight, Running, RowIsTold, InfosAreThere,
         CleanIsAlone, AnnouncementsAreRight, AnnouncedIsRight, WrittenIsRight
<1>3. RefreshIsRight' /\ ActiveRowsAreNotDiscarded'
  BY RefreshKept DEF GetNestProcessor
<1> QED
  BY <1>1, <1>2, <1>3 DEF ProcessingsAreRight

LEMMA SwapProcessorNestsInv ==
    ASSUME NestsInv, NEW skipped \in BOOLEAN, SwapProcessor(skipped)
    PROVE  NestsInv'
<1> DEFINE id == LoadedInfo(reload.read, skipped)
<1> USE DEF NestsInv, memory
<1>1. reload.read \in Row
  BY DEF NestsTypeOK, Reloading
<1>2. /\ id \in InfoId \union {NoInfo}
      /\ id \notin {NoInfo, current} =>
            /\ current = NoInfo
            /\ \A w \in Running : worker[w].info # id
  BY FreshInfoIsFree DEF LoadedInfo, NestsTypeOK, InfoId, NoInfo
<1>3. /\ current' = id
      /\ info' = IF id \in {NoInfo, current} THEN info
                 ELSE [info EXCEPT ![id] = NestingPokemonInfoFromDBStore(reload.read)]
      /\ ~muddled' => ~muddled /\ (id = current \/ (Running = {} /\ RowIsTold))
      /\ reload.pc = "loaded" /\ reload' = IdleReader
      /\ UNCHANGED <<row, worker, told>>
  BY DEF SwapProcessor
<1> HIDE DEF id
<1>4. /\ info' \in [InfoId -> Info]
      /\ \A w \in Running : info'[worker[w].info] = info[worker[w].info]
  BY <1>1, <1>2, <1>3
  DEF NestsTypeOK, InfosAreThere, NestingPokemonInfoFromDBStore, Row, Info, Nesting, Age
<1>5. NestsTypeOK'
  <2>1. muddled' \in BOOLEAN
    BY Zenon DEF SwapProcessor
  <2> QED
    BY <1>2, <1>3, <1>4, <2>1, IdleTypes DEF SwapProcessor, NestsTypeOK
<1>6. ProcessingsAreRight'
  <2>1. Running' = Running /\ (RowIsTold' <=> RowIsTold) /\ reload'.pc = "idle"
    BY <1>3 DEF Running, RowIsTold, IdleReader
  <2>2. InfosAreThere' /\ CleanIsAlone' /\ WrittenIsRight'
    BY <1>3, <1>4, <2>1 DEF InfosAreThere, CleanIsAlone, WrittenIsRight
  <2>3. AnnouncedIsRight'
    BY <1>3, <1>4, <2>1 DEF AnnouncedIsRight
  <2>4. AnnouncementsAreRight'
    <3>1. CASE id = current
      <4>1. current' = current /\ info' = info
        BY <1>3, <3>1
      <4> QED
        BY <1>3, <2>1, <4>1 DEF AnnouncementsAreRight
    <3>2. CASE id # current /\ id = NoInfo
      BY <1>3, <2>1, <3>2 DEF AnnouncementsAreRight
    <3>3. CASE id \notin {current, NoInfo}
      <4>1. info'[id].pokemon = reload.read.pokemon
        BY <1>1, <1>2, <1>3, <3>3 DEF NestsTypeOK, NestingPokemonInfoFromDBStore
      <4>2. ~muddled => reload.read.pokemon \in {Nothing, told}
        BY <1>2, <1>3, <3>3 DEF AnnouncementsAreRight
      <4> QED
        BY <1>3, <2>1, <3>3, <4>1, <4>2 DEF AnnouncementsAreRight
    <3> QED
      BY <3>1, <3>2, <3>3
  <2> QED
    BY <2>2, <2>3, <2>4 DEF ProcessingsAreRight
<1>7. RefreshIsRight' /\ ActiveRowsAreNotDiscarded'
  BY RefreshKept DEF SwapProcessor
<1> QED
  BY <1>5, <1>6, <1>7 DEF ProcessingsAreRight

LEMMA RestartNestsInv ==
    ASSUME NestsInv, Restart
    PROVE  NestsInv'
<1> USE DEF NestsInv, memory, history
<1>1. NestsTypeOK'
  <2>1. info' \in [InfoId -> Info]
    BY DEF Restart, Info, Nesting, Age
  <2>2. worker' \in [Worker -> Processing]
    BY IdleTypes DEF Restart
  <2>3. reload' \in Reloading
    BY IdleTypes DEF Restart
  <2>4. starts' \in 0..MaxStarts
    BY StartsAreBounded DEF Restart
  <2>5. muddled' \in BOOLEAN
    BY Zenon DEF Restart, RowIsTold
  <2> QED
    BY <2>1, <2>2, <2>3, <2>4, <2>5 DEF Restart, NestsTypeOK
<1>2. ProcessingsAreRight'
  BY DEF Restart, Starts, IdleWorker, IdleReader, ImportedRow, RowIsTold,
         ProcessingsAreRight, InfosAreThere, CleanIsAlone, AnnouncementsAreRight,
         AnnouncedIsRight, WrittenIsRight, Running, NestsTypeOK, Processing
<1>3. RefreshIsRight' /\ ActiveRowsAreNotDiscarded'
  BY RefreshKept DEF Restart
<1> QED
  BY <1>1, <1>2, <1>3 DEF ProcessingsAreRight

LEMMA StreamNestNestsInv ==
    ASSUME NestsInv, StreamNest
    PROVE  NestsInv'
<1> USE DEF NestsInv, memory, history
<1>1. NestsTypeOK'
  <2>1. refresh' \in Refreshing
    BY IdleTypes DEF StreamNest, Starts, NestsTypeOK, Refreshing
  <2> QED
    BY <2>1, StartsAreBounded DEF StreamNest, NestsTypeOK
<1>2. ProcessingsAreRight'
  BY ProcessingsKept DEF StreamNest, ProcessingsAreRight
<1>3. RefreshIsRight' /\ ActiveRowsAreNotDiscarded'
  BY DEF StreamNest, IdleRefresh, RefreshIsRight, ActiveRowsAreNotDiscarded,
         Filtered, DiscardReason, NestsTypeOK
<1> QED
  BY <1>1, <1>2, <1>3 DEF ProcessingsAreRight

LEMMA RefreshNestNestsInv ==
    ASSUME NestsInv, RefreshNest
    PROVE  NestsInv'
<1> DEFINE wanted(s) == RefreshedRow(refresh.read, s)
           differ(s) == {c \in DOMAIN row : wanted(s)[c] # refresh.read[c]}
<1> USE DEF NestsInv, memory
<1>1. PICK s \in Spawnpoints, resized \in BOOLEAN :
        /\ row' = IF differ(s) = {} /\ ~resized THEN row
                  ELSE [c \in DOMAIN row |-> IF c = "updated" THEN "young"
                          ELSE IF c \in differ(s) THEN wanted(s)[c] ELSE row[c]]
        /\ worker' = [w \in Worker |->
                        [worker[w] EXCEPT !.clean = @ /\ "pokemon" \notin differ(s)]]
  <2>1. refresh.read \in Row
    BY DEF NestsTypeOK, Refreshing
  <2>2. \A force \in BOOLEAN :
            RefreshedSpawnpoints(refresh.read.spawnpoints, force) \subseteq Spawnpoints
    BY <2>1 DEF RefreshedSpawnpoints, Row, Spawnpoints
  <2>3. \E force, resized \in BOOLEAN :
        \E t \in RefreshedSpawnpoints(refresh.read.spawnpoints, force) :
          /\ row' = IF differ(t) = {} /\ ~resized THEN row
                    ELSE [c \in DOMAIN row |-> IF c = "updated" THEN "young"
                            ELSE IF c \in differ(t) THEN wanted(t)[c] ELSE row[c]]
          /\ worker' = [w \in Worker |->
                          [worker[w] EXCEPT !.clean = @ /\ "pokemon" \notin differ(t)]]
    <3>1. RefreshNest
      OBVIOUS
    <3> QED
      BY ONLY <3>1, Zenon DEF RefreshNest
  <2> HIDE DEF wanted, differ
  <2>4. PICK force, resized \in BOOLEAN :
        \E t \in RefreshedSpawnpoints(refresh.read.spawnpoints, force) :
          /\ row' = IF differ(t) = {} /\ ~resized THEN row
                    ELSE [c \in DOMAIN row |-> IF c = "updated" THEN "young"
                            ELSE IF c \in differ(t) THEN wanted(t)[c] ELSE row[c]]
          /\ worker' = [w \in Worker |->
                          [worker[w] EXCEPT !.clean = @ /\ "pokemon" \notin differ(t)]]
    BY ONLY <2>3, Zenon
  <2>5. PICK t \in Spawnpoints :
          /\ row' = IF differ(t) = {} /\ ~resized THEN row
                    ELSE [c \in DOMAIN row |-> IF c = "updated" THEN "young"
                            ELSE IF c \in differ(t) THEN wanted(t)[c] ELSE row[c]]
          /\ worker' = [w \in Worker |->
                          [worker[w] EXCEPT !.clean = @ /\ "pokemon" \notin differ(t)]]
    BY ONLY <2>2, <2>4, Zenon
  <2> QED
    BY ONLY <2>5, Zenon
<1>2. /\ refresh.pc = "refreshing"
      /\ refresh' = [refresh EXCEPT !.pc = "overlaps"]
      /\ torn' = ~refresh.clean
      /\ UNCHANGED <<place, info, current, held, reload, import, starts, told, muddled>>
  BY DEF RefreshNest
<1>3. /\ row \in Row /\ refresh.read \in Row /\ wanted(s) \in Row
      /\ DOMAIN row = {"active", "discarded", "pokemon", "updated", "spawnpoints"}
  BY DEF NestsTypeOK, Refreshing, RefreshedRow, DiscardReason, Row, Reason, Nesting
<1>4. /\ Filtered(wanted(s))
      /\ wanted(s).updated = refresh.read.updated
      /\ wanted(s).pokemon \in {refresh.read.pokemon, Nothing}
  BY DEF RefreshedRow, Filtered
<1> HIDE DEF wanted
<1>5. row' \in Row
  <2>1. CASE differ(s) = {} /\ ~resized
    BY <1>1, <1>3, <2>1
  <2>2. CASE ~(differ(s) = {} /\ ~resized)
    <3>1. row' = [active |-> row'.active, discarded |-> row'.discarded,
                  pokemon |-> row'.pokemon, updated |-> row'.updated,
                  spawnpoints |-> row'.spawnpoints]
      BY <1>1, <1>3, <2>2
    <3>2. /\ row'.active \in {row.active, wanted(s).active}
          /\ row'.discarded \in {row.discarded, wanted(s).discarded}
          /\ row'.pokemon \in {row.pokemon, wanted(s).pokemon}
          /\ row'.updated = "young"
          /\ row'.spawnpoints \in {row.spawnpoints, wanted(s).spawnpoints}
      BY <1>1, <1>3, <2>2
    <3> QED
      BY <1>3, <3>1, <3>2 DEF Row, Age
  <2> QED
    BY <2>1, <2>2
<1>6. \A w \in Worker :
          /\ worker'[w] \in Processing
          /\ worker'[w].pc = worker[w].pc /\ worker'[w].info = worker[w].info
          /\ worker'[w].ni = worker[w].ni /\ worker'[w].partial = worker[w].partial
          /\ worker'[w].clean => worker[w].clean /\ row'.pokemon = row.pokemon
  <2> SUFFICES ASSUME NEW w \in Worker
               PROVE  /\ worker'[w] \in Processing
                      /\ worker'[w].pc = worker[w].pc /\ worker'[w].info = worker[w].info
                      /\ worker'[w].ni = worker[w].ni
                      /\ worker'[w].partial = worker[w].partial
                      /\ worker'[w].clean => worker[w].clean /\ row'.pokemon = row.pokemon
    OBVIOUS
  <2>1. worker[w] \in Processing
    BY DEF NestsTypeOK
  <2>2. CASE "pokemon" \in differ(s)
    <3>1. worker'[w] = [worker[w] EXCEPT !.clean = FALSE]
      BY <1>1, <2>1, <2>2 DEF Processing
    <3> QED
      BY <2>1, <3>1 DEF Processing
  <2>3. CASE "pokemon" \notin differ(s)
    <3>1. worker'[w] = worker[w]
      BY <1>1, <2>1, <2>3 DEF Processing
    <3>2. row'.pokemon = row.pokemon
      BY <1>1, <1>3, <2>3
    <3> QED
      BY <2>1, <3>1, <3>2
  <2> QED
    BY <2>2, <2>3
<1>7. NestsTypeOK'
  BY <1>1, <1>2, <1>5, <1>6 DEF NestsTypeOK, Refreshing
<1>8. ProcessingsAreRight'
  <2>1. row'.pokemon \in {row.pokemon, Nothing}
    <3>1. "pokemon" \in differ(s) => wanted(s).pokemon = Nothing
      BY <1>4
    <3> QED
      BY <1>1, <1>3, <3>1
  <2>2. RowIsTold => RowIsTold'
    BY <1>2, <2>1 DEF RowIsTold
  <2> QED
    BY <1>2, <1>6, <2>2
    DEF ProcessingsAreRight, Running, InfosAreThere, CleanIsAlone, AnnouncementsAreRight,
        AnnouncedIsRight, WrittenIsRight
<1>9. refresh.clean => Filtered(row')
  <2> SUFFICES ASSUME refresh.clean PROVE Filtered(row')
    OBVIOUS
  <2>1. refresh.read = row
    BY <1>2 DEF RefreshIsRight
  <2>2. /\ row'.active = wanted(s).active /\ row'.discarded = wanted(s).discarded
        /\ row'.pokemon = wanted(s).pokemon /\ row'.spawnpoints = wanted(s).spawnpoints
    BY <1>1, <1>3, <2>1
  <2> QED
    BY <1>4, <2>2 DEF Filtered
<1>10. RefreshIsRight' /\ ActiveRowsAreNotDiscarded'
  BY <1>2, <1>9
  DEF NestsTypeOK, Refreshing, RefreshIsRight, ActiveRowsAreNotDiscarded, Filtered,
      DiscardReason
<1> QED
  BY <1>7, <1>8, <1>10 DEF ProcessingsAreRight

LEMMA RefreshFailsNestsInv ==
    ASSUME NestsInv, RefreshFails
    PROVE  NestsInv'
<1> USE DEF NestsInv, memory, history
<1>1. NestsTypeOK'
  <2>1. refresh' \in Refreshing
    BY IdleTypes DEF RefreshFails, NestsTypeOK, Refreshing
  <2> QED
    BY <2>1 DEF RefreshFails, NestsTypeOK
<1>2. ProcessingsAreRight'
  BY ProcessingsKept DEF RefreshFails, ProcessingsAreRight
<1>3. RefreshIsRight' /\ ActiveRowsAreNotDiscarded'
  BY DEF RefreshFails, IdleRefresh, ImportedRow, RefreshIsRight,
         ActiveRowsAreNotDiscarded, Filtered, DiscardReason, NestsTypeOK
<1> QED
  BY <1>1, <1>2, <1>3 DEF ProcessingsAreRight

LEMMA FindOverlapsNestsInv ==
    ASSUME NestsInv, FindOverlaps
    PROVE  NestsInv'
<1> USE DEF NestsInv, memory, history
<1>1. NestsTypeOK'
  <2>1. refresh' \in Refreshing
    BY IdleTypes DEF FindOverlaps, NestsTypeOK, Refreshing
  <2> QED
    BY <2>1 DEF FindOverlaps, NestsTypeOK
<1>2. ProcessingsAreRight'
  BY ProcessingsKept DEF FindOverlaps, ProcessingsAreRight
<1>3. RefreshIsRight' /\ ActiveRowsAreNotDiscarded'
  BY DEF FindOverlaps, IdleRefresh, ImportedRow, RefreshIsRight,
         ActiveRowsAreNotDiscarded, Filtered, DiscardReason, NestsTypeOK
<1> QED
  BY <1>1, <1>2, <1>3 DEF ProcessingsAreRight

LEMMA DisableOverlappingNestsNestsInv ==
    ASSUME NestsInv, DisableOverlappingNests
    PROVE  NestsInv'
<1> USE DEF NestsInv, memory, history
<1>1. NestsTypeOK'
  <2>1. row' \in Row
    BY IdleTypes
    DEF DisableOverlappingNests, OverlapDisabled, NestsTypeOK, Row, Age, Reason,
        Nesting, Spawnpoints, Processing
  <2>2. refresh' \in Refreshing
    BY IdleTypes
    DEF DisableOverlappingNests, OverlapDisabled, NestsTypeOK, Refreshing
  <2>3. worker' \in [Worker -> Processing]
    BY IdleTypes
    DEF DisableOverlappingNests, OverlapDisabled, NestsTypeOK, Processing
  <2> QED
    BY <2>1, <2>2, <2>3 DEF DisableOverlappingNests, NestsTypeOK
<1>2. ProcessingsAreRight'
  BY DEF RowIsTold, InfoId, NoInfo, DisableOverlappingNests, OverlapDisabled,
         IdleRefresh, ImportedRow, ProcessingsAreRight, InfosAreThere, CleanIsAlone,
         AnnouncementsAreRight, AnnouncedIsRight, WrittenIsRight, Running, NestsTypeOK,
         Processing
<1>3. RefreshIsRight' /\ ActiveRowsAreNotDiscarded'
  BY DEF DisableOverlappingNests, OverlapDisabled, IdleRefresh, ImportedRow,
         RefreshIsRight, ActiveRowsAreNotDiscarded, Filtered, DiscardReason,
         NestsTypeOK
<1> QED
  BY <1>1, <1>2, <1>3 DEF ProcessingsAreRight

LEMMA GetNestByIdNestsInv ==
    ASSUME NestsInv, NEW outcome \in {"found", "missing"}, GetNestById(outcome)
    PROVE  NestsInv'
<1> USE DEF NestsInv, memory, history
<1>1. NestsTypeOK'
  <2>1. import' \in Importing
    BY IdleTypes DEF GetNestById, Starts, NestsTypeOK, Importing
  <2> QED
    BY <2>1, StartsAreBounded DEF GetNestById, NestsTypeOK
<1>2. ProcessingsAreRight'
  BY ProcessingsKept DEF GetNestById, ProcessingsAreRight
<1>3. RefreshIsRight' /\ ActiveRowsAreNotDiscarded'
  BY RefreshKept DEF GetNestById
<1> QED
  BY <1>1, <1>2, <1>3 DEF ProcessingsAreRight

LEMMA InsertOrUpdateNestNestsInv ==
    ASSUME NestsInv, InsertOrUpdateNest
    PROVE  NestsInv'
<1> USE DEF NestsInv, memory, history
<1>1. NestsTypeOK'
  <2>1. row \in Row /\ import.read \in Row
    BY DEF NestsTypeOK, Importing
  <2>2. row' \in Row
    BY <2>1, IdleTypes DEF InsertOrUpdateNest, Upserted, Row, Reason
  <2>3. import' \in Importing
    BY IdleTypes DEF InsertOrUpdateNest
  <2>4. refresh' \in Refreshing
    BY IdleTypes DEF InsertOrUpdateNest, NestsTypeOK, Refreshing
  <2> QED
    BY <2>2, <2>3, <2>4 DEF InsertOrUpdateNest, NestsTypeOK
<1>2. ProcessingsAreRight'
  BY ProcessingsKept
  DEF InsertOrUpdateNest, Upserted, ImportedRow, NestsTypeOK, Row,
      ProcessingsAreRight
<1>3. RefreshIsRight' /\ ActiveRowsAreNotDiscarded'
  BY DEF InsertOrUpdateNest, Upserted, IdleReader, ImportedRow, RefreshIsRight,
         ActiveRowsAreNotDiscarded, Filtered, DiscardReason, NestsTypeOK
<1> QED
  BY <1>1, <1>2, <1>3 DEF ProcessingsAreRight

LEMMA InsertOrUpdateNestFailsNestsInv ==
    ASSUME NestsInv, InsertOrUpdateNestFails
    PROVE  NestsInv'
<1> USE DEF NestsInv, memory, history
<1>1. NestsTypeOK'
  <2>1. import' \in Importing
    BY IdleTypes DEF InsertOrUpdateNestFails, NestsTypeOK, Importing
  <2> QED
    BY <2>1 DEF InsertOrUpdateNestFails, NestsTypeOK
<1>2. ProcessingsAreRight'
  BY ProcessingsKept DEF InsertOrUpdateNestFails, ProcessingsAreRight
<1>3. RefreshIsRight' /\ ActiveRowsAreNotDiscarded'
  BY RefreshKept DEF InsertOrUpdateNestFails
<1> QED
  BY <1>1, <1>2, <1>3 DEF ProcessingsAreRight

LEMMA TimePassesNestsInv ==
    ASSUME NestsInv, TimePasses
    PROVE  NestsInv'
<1> USE DEF NestsInv, memory, history
<1>1. NestsTypeOK'
  <2>1. row' \in Row
    BY DEF TimePasses, NestsTypeOK, Row, Age, Reason, Nesting, Spawnpoints,
           Processing
  <2>2. /\ info \in [InfoId -> Info]
        /\ info' = [i \in InfoId |-> [info[i] EXCEPT !.updated = "old"]]
    BY DEF TimePasses, NestsTypeOK
  <2>3. info' \in [InfoId -> Info]
    BY ONLY <2>2 DEF Info, Age
  <2> QED
    BY <2>1, <2>3 DEF TimePasses, NestsTypeOK
<1>2. ProcessingsAreRight'
  BY DEF RowIsTold, InfoId, NoInfo, TimePasses, ProcessingsAreRight, InfosAreThere,
         CleanIsAlone, AnnouncementsAreRight, AnnouncedIsRight, WrittenIsRight, Running,
         NestsTypeOK, Processing
<1>3. RefreshIsRight' /\ ActiveRowsAreNotDiscarded'
  BY DEF TimePasses, RefreshIsRight, ActiveRowsAreNotDiscarded, Filtered,
         DiscardReason, NestsTypeOK
<1> QED
  BY <1>1, <1>2, <1>3 DEF ProcessingsAreRight

LEMMA NextNestsInv == NestsInv /\ [Next]_vars => NestsInv'
<1> SUFFICES ASSUME NestsInv, [Next]_vars PROVE NestsInv'
  OBVIOUS
<1>1. CASE UNCHANGED vars
  BY <1>1
  DEF vars, NestsInv, NestsTypeOK, RowIsTold, InfosAreThere, CleanIsAlone,
      AnnouncementsAreRight, AnnouncedIsRight, WrittenIsRight, Running, RefreshIsRight,
      Filtered, DiscardReason, ActiveRowsAreNotDiscarded
<1>2. CASE \E w \in Worker : Process(w)
  BY <1>2, ProcessStatsCollectionNestsInv, DecideNestsInv, AddNestWebhookNestsInv,
     AsStorePartialUpdatePokemonNestsInv, UpdateNestPartialNestsInv,
     UpdateNestPartialFailsNestsInv, SetUpdatedAtNestsInv
  DEF Process
<1>3. CASE \E outcome \in {"found", "missing"} : GetNestById(outcome)
  BY <1>3, GetNestByIdNestsInv
<1>4. CASE \E skipped \in BOOLEAN : SwapProcessor(skipped)
  BY <1>4, SwapProcessorNestsInv
<1> QED
  BY <1>1, <1>2, <1>3, <1>4, GetNestProcessorNestsInv, GetActiveNestsNestsInv,
     RestartNestsInv, StreamNestNestsInv, RefreshNestNestsInv, RefreshFailsNestsInv,
     FindOverlapsNestsInv,
     DisableOverlappingNestsNestsInv, InsertOrUpdateNestNestsInv,
     InsertOrUpdateNestFailsNestsInv, TimePassesNestsInv
  DEF Next

LEMMA Invariance == Spec => []NestsInv
BY InitNestsInv, NextNestsInv, PTL DEF Spec

-----------------------------------------------------------------------------
(* What follows.                                                            *)

\* Objects and rows keep their types; no processing ever works without an object.
THEOREM NestsTypeCorrect == Spec => []NestsTypeOK
<1>1. NestsInv => NestsTypeOK
  BY DEF NestsInv
<1> QED
  BY <1>1, Invariance, PTL

\* A pokemon in memory is the last one that Poracle was told of, over any number of
\* rotations, reloads, restarts and failed writes; unless processings overlapped or
\* worked on a processor that was replaced, or memory was lost while the row did not
\* hold the pokemon that was announced last.
THEOREM NestingsAreAnnounced == Spec => []NestingIsAnnounced
<1>1. NestsInv => NestingIsAnnounced
  BY DEF NestsInv, AnnouncementsAreRight, NestingIsAnnounced
<1> QED
  BY <1>1, Invariance, PTL

\* A row is only ever active with a reason to be discarded after a refresh that
\* others have written into.
THEOREM ActiveIsNotDiscarded == Spec => []ActiveRowsAreNotDiscarded
<1>1. NestsInv => ActiveRowsAreNotDiscarded
  BY DEF NestsInv
<1> QED
  BY <1>1, Invariance, PTL

\* A processing that nobody has disturbed leaves in the row what is in memory, or
\* has nothing to write.
THEOREM RowsFollow == Spec => RowFollowsNesting
<1>1. ASSUME NestsInv, Next, NEW w \in Worker,
             worker[w].pc \in {"decide", "stamp"}, worker'[w].pc = "idle",
             worker[w].clean, starts' = starts
      PROVE  LET i == worker[w].info
             IN  \/ row'.pokemon = info'[i].pokemon
                 \/ info'[i] = [pokemon |-> Nothing, updated |-> "old"]
  <2> USE DEF NestsInv, memory, history
  <2>1. starts \in Nat /\ starts # starts + 1
    <3>1. MaxStarts \in Nat /\ starts \in 0..MaxStarts
      BY NestStateAssumption, <1>1 DEF NestsTypeOK
    <3> QED
      BY <3>1
  <2>2. w \in Running
    BY <1>1 DEF Running
  <2>3. CASE \E ni \in Nesting : Decide(w, ni)
    <3>1. PICK ni \in Nesting : Decide(w, ni)
      BY <2>3
    <3>2. ni = Nothing /\ info[worker[w].info].updated = "old"
      BY <1>1, <3>1 DEF Decide, NextAfterDeciding, NestsTypeOK, Processing
    <3>3. worker[w].info \in InfoId
      BY <1>1, <2>2 DEF InfosAreThere
    <3>4. info'[worker[w].info] = [info[worker[w].info] EXCEPT !.pokemon = Nothing]
      BY <3>1, <3>2, <3>3, <1>1 DEF Decide, SetNestingPokemon, NestsTypeOK, Info
    <3> QED
      BY <3>2, <3>3, <3>4, <1>1 DEF NestsTypeOK, Info
  <2>4. CASE SetUpdatedAt(w)
    BY <1>1, <2>2, <2>4
    DEF SetUpdatedAt, WrittenIsRight, NestsTypeOK, InfosAreThere, Info
  <2>5. CASE ~(SetUpdatedAt(w) \/ \E ni \in Nesting : Decide(w, ni))
    <3>1. CASE \E v \in Worker : Process(v)
      <4>1. PICK v \in Worker : Process(v)
        BY <3>1
      <4>2. ~ProcessStatsCollection(v)
        BY <1>1, <2>1 DEF ProcessStatsCollection, Starts
      <4>3. CASE v = w
        BY <1>1, <2>5, <4>1, <4>2, <4>3
        DEF Process, AddNestWebhook, AsStorePartialUpdatePokemon, UpdateNestPartial,
            UpdateNestPartialFails
      <4>4. CASE v # w
        <5>1. worker'[w] = worker[w]
          BY <1>1, <4>1, <4>2, <4>4
          DEF Process, Decide, AddNestWebhook, AsStorePartialUpdatePokemon,
              UpdateNestPartial, UpdateNestPartialFails, SetUpdatedAt, NestsTypeOK
        <5> QED
          BY <1>1, <5>1
      <4> QED
        BY <4>3, <4>4
    <3>2. CASE RefreshNest \/ DisableOverlappingNests
      <4>1. worker'[w].pc = worker[w].pc
        BY <1>1, <3>2
        DEF RefreshNest, DisableOverlappingNests, NestsTypeOK, Processing
      <4> QED
        BY <1>1, <4>1
    <3>3. CASE GetActiveNests \/ StreamNest \/ Restart
               \/ \E outcome \in {"found", "missing"} : GetNestById(outcome)
      BY <1>1, <2>1, <3>3 DEF GetActiveNests, StreamNest, Restart, GetNestById, Starts
    <3>4. CASE \/ GetNestProcessor \/ \E skipped \in BOOLEAN : SwapProcessor(skipped)
               \/ RefreshFails \/ FindOverlaps
               \/ InsertOrUpdateNest \/ InsertOrUpdateNestFails \/ TimePasses
      <4>1. worker' = worker
        BY <3>4
        DEF GetNestProcessor, SwapProcessor, RefreshFails, FindOverlaps,
            InsertOrUpdateNest, InsertOrUpdateNestFails, TimePasses
      <4> QED
        BY <1>1, <4>1
    <3> QED
      BY <1>1, <3>1, <3>2, <3>3, <3>4 DEF Next
  <2> QED
    BY <2>3, <2>4, <2>5
<1>2. NestsInv /\ [Next]_vars =>
        [\A w \in Worker :
          LET i == worker[w].info
          IN  /\ worker[w].pc \in {"decide", "stamp"} /\ worker'[w].pc = "idle"
              /\ worker[w].clean /\ starts' = starts
              => \/ row'.pokemon = info'[i].pokemon
                 \/ info'[i] = [pokemon |-> Nothing, updated |-> "old"]]_vars
  BY <1>1
<1> QED
  BY <1>2, Invariance, PTL DEF Spec, RowFollowsNesting

\* A refresh that nobody has disturbed leaves the row as the filters and the
\* larger nests decide.
THEOREM RefreshedRows == Spec => RefreshedRowIsRight
<1>1. ASSUME NestsInv, Next, refresh.pc # "idle", refresh'.pc = "idle", refresh.clean,
             refresh'.clean
      PROVE  LET reason == DiscardReason(row'.spawnpoints)
             IN  /\ row'.active = (reason = Nothing /\ ~place.overlapped)
                 /\ row'.discarded = IF reason = Nothing /\ place.overlapped THEN "overlap"
                                     ELSE reason
                 /\ row'.active \/ row'.pokemon = Nothing
  <2> USE DEF NestsInv, memory, history
  <2>1. CASE FindOverlaps
    <3>1. row.active \in BOOLEAN /\ place.overlapped \in BOOLEAN
      BY <1>1, NestStateAssumption DEF NestsTypeOK, Row
    <3>2. Filtered(row) /\ row' = row
      BY <1>1, <2>1 DEF FindOverlaps, RefreshIsRight
    <3>3. ~(row.active /\ place.overlapped)
      BY <1>1, <2>1 DEF FindOverlaps, NestsTypeOK, Refreshing
    <3> QED
      BY <3>1, <3>2, <3>3 DEF Filtered
  <2>2. CASE DisableOverlappingNests
    BY <1>1, <2>2
    DEF DisableOverlappingNests, OverlapDisabled, RefreshIsRight, Filtered, DiscardReason,
        NestsTypeOK, Row
  <2>3. CASE ~(FindOverlaps \/ DisableOverlappingNests)
    <3>1. CASE \/ GetNestProcessor \/ \E skipped \in BOOLEAN : SwapProcessor(skipped)
               \/ GetActiveNests \/ Restart \/ InsertOrUpdateNestFails
               \/ TimePasses \/ \E outcome \in {"found", "missing"} : GetNestById(outcome)
               \/ \E v \in Worker : Process(v) /\ ~UpdateNestPartial(v)
      <4>1. refresh' = refresh
        BY <3>1
        DEF GetNestProcessor, GetActiveNests, SwapProcessor, Restart,
            InsertOrUpdateNestFails, TimePasses, GetNestById, Process,
            ProcessStatsCollection, Decide, AddNestWebhook, AsStorePartialUpdatePokemon,
            UpdateNestPartialFails, SetUpdatedAt
      <4> QED
        BY <1>1, <4>1
    <3>2. CASE InsertOrUpdateNest \/ \E v \in Worker : UpdateNestPartial(v)
      BY <1>1, <3>2 DEF InsertOrUpdateNest, UpdateNestPartial, NestsTypeOK, Refreshing
    <3>3. CASE StreamNest \/ RefreshNest \/ RefreshFails
      BY <1>1, <3>3
      DEF StreamNest, RefreshNest, RefreshFails, IdleRefresh, NestsTypeOK, Refreshing
    <3> QED
      BY <1>1, <2>3, <3>1, <3>2, <3>3 DEF Next
  <2> QED
    BY <2>1, <2>2, <2>3
<1>2. NestsInv /\ [Next]_vars =>
        [LET reason == DiscardReason(row'.spawnpoints)
         IN  /\ refresh.pc # "idle" /\ refresh'.pc = "idle"
             /\ refresh.clean /\ refresh'.clean
             => /\ row'.active = (reason = Nothing /\ ~place.overlapped)
                /\ row'.discarded = IF reason = Nothing /\ place.overlapped THEN "overlap"
                                    ELSE reason
                /\ row'.active \/ row'.pokemon = Nothing]_vars
  BY <1>1
<1> QED
  BY <1>2, Invariance, PTL DEF Spec, RefreshedRowIsRight

-----------------------------------------------------------------------------
(* NestingDecision.                                                         *)

\* The summary is every pokemon seen, once, none after one it comes before.
SummaryIsSorted ==
    /\ summary \in SetToSeqs(Seen)
    /\ \A i, j \in DOMAIN summary : i < j => ~Less(summary[j], summary[i])

\* Of the entries looked at, the first that passes is the one that nests.
FirstPassingNests ==
    /\ nesting = NoPokemon => \A i \in 1..idx : ~IsNesting(summary[i])
    /\ nesting # NoPokemon =>
          \E k \in 1..idx : /\ nesting = summary[k]
                            /\ IsNesting(nesting)
                            /\ \A i \in 1..(k - 1) : ~IsNesting(summary[i])

\* The inductive invariant of the decision.
DecisionInv ==
    /\ count \in [PokemonKey -> Nat]
    /\ global \in [PokemonKey -> Nat]
    /\ idx = Unsorted => nesting = NoPokemon
    /\ idx # Unsorted => /\ idx \in Nat /\ idx <= MaxRank /\ idx <= Cardinality(Seen)
                         /\ SummaryIsSorted
                         /\ FirstPassingNests

-----------------------------------------------------------------------------

FirstEntries(list, k) == {list[i] : i \in 1..k}

\* The first k entries of a list without duplicates are k.
LEMMA PrefixCardinality ==
    ASSUME NEW n \in Nat, NEW S, NEW f \in [1..n -> S],
           \A i, j \in 1..n : i # j => f[i] # f[j],
           NEW k \in Nat, k <= n
    PROVE  IsFiniteSet(FirstEntries(f, k)) /\ Cardinality(FirstEntries(f, k)) = k
<1> DEFINE T == {f[i] : i \in 1..k}
           g == [i \in 1..k |-> f[i]]
<1>1. g \in Bijection(1..k, T)
    <2>1. g \in [1..k -> T]
        OBVIOUS
    <2>2. \A i, j \in 1..k : g[i] = g[j] => i = j
        OBVIOUS
    <2>3. \A t \in T : \E i \in 1..k : g[i] = t
        OBVIOUS
    <2> HIDE DEF g, T
    <2> QED
        BY <2>1, <2>2, <2>3 DEF Bijection, Injection, Surjection, IsInjective
<1>2. ExistsBijection(1..k, T)
    BY <1>1 DEF ExistsBijection
<1>3. IsFiniteSet(1..k) /\ Cardinality(1..k) = k
    BY FS_Interval
<1> HIDE DEF T, g
<1>4. IsFiniteSet(T) /\ Cardinality(T) = k
    BY <1>2, <1>3, FS_Bijection
<1> QED
    BY <1>4 DEF T, FirstEntries

\* Such a list of all the elements of a set has every one of them.
LEMMA ListOfAllHasEach ==
    ASSUME NEW S, IsFiniteSet(S), NEW f \in SetToSeqs(S)
    PROVE  /\ Cardinality(S) \in Nat
           /\ f \in [1..Cardinality(S) -> S]
           /\ \A i, j \in 1..Cardinality(S) : i # j => f[i] # f[j]
           /\ \A x \in S : \E i \in 1..Cardinality(S) : f[i] = x
<1> DEFINE n == Cardinality(S)
<1>1. n \in Nat
    BY FS_CardinalityType
<1>2. f \in [1..n -> S] /\ \A i, j \in 1..n : i # j => f[i] # f[j]
    BY DEF SetToSeqs
<1>3. \A x \in S : \E i \in 1..n : f[i] = x
    <2> DEFINE T == FirstEntries(f, n)
    <2> HIDE DEF n
    <2>1. T \in SUBSET S
        BY <1>2 DEF FirstEntries
    <2>2. Cardinality(T) = n
        <3>1. n \in Nat /\ n <= n
            BY <1>1
        <3> QED
            BY <1>2, <3>1, PrefixCardinality
    <2> HIDE DEF T
    <2>3. S = T
        BY <2>1, <2>2, FS_Subset DEF n
    <2> QED
        BY <2>3 DEF T, FirstEntries
<1> QED
    BY <1>1, <1>2, <1>3

\* A nest has seen finitely many pokemon.
LEMMA SeenIsFinite ==
    IsFiniteSet(Seen) /\ Cardinality(Seen) \in Nat
<1>1. IsFiniteSet(Seen)
    BY DecisionAssumption, FS_Subset DEF Seen
<1> QED
    BY <1>1, FS_CardinalityType

\* What the sorted summary says of the order of any two pokemon seen: who comes
\* before whom has the lower index, and the first k entries are k.
LEMMA SummaryRanks ==
    ASSUME count \in [PokemonKey -> Nat], global \in [PokemonKey -> Nat], SummaryIsSorted
    PROVE  /\ summary \in [1..Cardinality(Seen) -> Seen]
           /\ DOMAIN summary = 1..Cardinality(Seen)
           /\ Len(summary) = Cardinality(Seen)
           /\ \A i, j \in 1..Cardinality(Seen) : i # j => summary[i] # summary[j]
           /\ \A p \in Seen : \E i \in 1..Cardinality(Seen) : summary[i] = p
           /\ \A i, j \in 1..Cardinality(Seen) :
                 Less(summary[i], summary[j]) => i < j
<1> DEFINE n == Cardinality(Seen)
<1>1. IsFiniteSet(Seen) /\ n \in Nat
    BY SeenIsFinite
<1>2. summary \in SetToSeqs(Seen)
    BY DEF SummaryIsSorted
<1>3. /\ summary \in [1..n -> Seen]
      /\ \A i, j \in 1..n : i # j => summary[i] # summary[j]
      /\ \A p \in Seen : \E i \in 1..n : summary[i] = p
    BY <1>1, <1>2, ListOfAllHasEach
<1> HIDE DEF n
<1>4. DOMAIN summary = 1..n
    BY <1>3
<1>5. Len(summary) = n
    BY <1>1, <1>3, <1>4
<1>6. ASSUME NEW i \in 1..n, NEW j \in 1..n, Less(summary[i], summary[j])
      PROVE  i < j
    <2>1. ~(j < i)
        BY <1>4, <1>6 DEF SummaryIsSorted
    <2>2. summary[i] \in PokemonKey
        BY <1>3 DEF Seen
    <2>3. count[summary[i]] \in Nat /\ global[summary[i]] \in Nat
        BY <2>2
    <2>4. i # j
        <3>1. SUFFICES ASSUME i = j PROVE FALSE
            OBVIOUS
        <3>2. Less(summary[i], summary[i])
            BY <3>1, <1>6
        <3> QED
            BY <3>2, <2>3 DEF Less
    <2> QED
        BY <1>1, <2>1, <2>4
<1> QED
    BY <1>3, <1>4, <1>5, <1>6 DEF n

-----------------------------------------------------------------------------

\* The invariant holds before the summary is sorted.
LEMMA DecisionInitInv ==
    DecisionInit => DecisionInv
<1> SUFFICES ASSUME DecisionInit PROVE DecisionInv
    OBVIOUS
<1>1. count \in [PokemonKey -> Nat]
    BY DecisionAssumption DEF DecisionInit
<1>2. global \in [PokemonKey -> Nat]
    <2>1. PICK elsewhere \in [PokemonKey -> Elsewhere] :
              global = [p \in PokemonKey |-> count[p] + elsewhere[p]]
        BY DEF DecisionInit
    <2>2. \A p \in PokemonKey : elsewhere[p] \in Nat /\ count[p] \in Nat
        BY <1>1, DecisionAssumption
    <2> QED
        BY <2>1, <2>2
<1> QED
    BY <1>1, <1>2 DEF DecisionInit, DecisionInv

\* While the counts stay, so do the tests, the order and the pokemon seen.
LEMMA TestsStay ==
    ASSUME UNCHANGED input
    PROVE  /\ count' = count /\ global' = global
           /\ Seen' = Seen
           /\ \A p : IsNesting(p)' <=> IsNesting(p)
           /\ \A p, q : Less(p, q)' <=> Less(p, q)
<1>1. config' = config /\ duration' = duration /\ count' = count /\ global' = global
    BY DEF input
<1>2. Total' = Total /\ GlobalTotal' = GlobalTotal
    BY <1>1 DEF Total, GlobalTotal
<1>3. ASSUME NEW p PROVE IsNesting(p)' <=> IsNesting(p)
    BY <1>1, <1>2 DEF IsNesting
<1>4. ASSUME NEW p, NEW q PROVE Less(p, q)' <=> Less(p, q)
    BY <1>1 DEF Less
<1> QED
    BY <1>1, <1>3, <1>4 DEF Seen

\* Sorting the summary: nothing has been looked at yet.
LEMMA SortingKeepsInv ==
    ASSUME DecisionInv, GetSummaryForNest
    PROVE  DecisionInv'
<1>1. /\ count' = count /\ global' = global
      /\ Seen' = Seen
      /\ \A p, q : Less(p, q)' <=> Less(p, q)
    BY TestsStay DEF GetSummaryForNest
<1>2. nesting' = NoPokemon /\ idx' = 0
    BY DEF DecisionInv, GetSummaryForNest
<1>3. SummaryIsSorted'
    BY <1>1 DEF GetSummaryForNest, SummaryIsSorted, Less
<1>4. FirstPassingNests'
    BY <1>2 DEF FirstPassingNests
<1>5. idx' \in Nat /\ idx' <= MaxRank /\ idx' <= Cardinality(Seen')
    BY <1>1, <1>2, SeenIsFinite, DecisionAssumption
<1> QED
    BY <1>1, <1>2, <1>3, <1>4, <1>5 DEF DecisionInv

\* Looking at one more entry: it is taken if it passes and none did before.
LEMMA LookingKeepsInv ==
    ASSUME DecisionInv, NextPokemon
    PROVE  DecisionInv'
<1>1. /\ count' = count /\ global' = global
      /\ Seen' = Seen
      /\ \A p : IsNesting(p)' <=> IsNesting(p)
      /\ \A p, q : Less(p, q)' <=> Less(p, q)
    BY TestsStay DEF NextPokemon
<1>2. summary' = summary /\ idx' = idx + 1 /\ idx < Len(summary) /\ idx < MaxRank
    BY DEF NextPokemon
<1>3. idx # Unsorted
    BY <1>2, DecisionAssumption DEF Unsorted
<1>4. /\ SummaryIsSorted /\ FirstPassingNests /\ idx \in Nat
      /\ count \in [PokemonKey -> Nat] /\ global \in [PokemonKey -> Nat]
    BY <1>3 DEF DecisionInv
<1>5. SummaryIsSorted'
    BY <1>1, <1>2, <1>4 DEF SummaryIsSorted, Less
<1>6. idx' \in Nat /\ idx' <= MaxRank /\ idx' <= Cardinality(Seen') /\ idx' # Unsorted
    <2>1. Len(summary) = Cardinality(Seen)
        BY <1>4, SummaryRanks
    <2> QED
        BY <1>1, <1>2, <1>4, <2>1, SeenIsFinite, DecisionAssumption DEF Unsorted
<1>7. FirstPassingNests'
    <2>1. CASE nesting = NoPokemon /\ IsNesting(summary[idx + 1])
        <3>1. nesting' = summary[idx + 1]
            BY <2>1 DEF NextPokemon
        <3>2. \A i \in 1..idx : ~IsNesting(summary[i])
            BY <2>1, <1>4 DEF FirstPassingNests
        <3>3. nesting' # NoPokemon
            <4>1. summary[idx + 1] \in Seen
                <5>1. /\ summary \in [1..Cardinality(Seen) -> Seen]
                      /\ Len(summary) = Cardinality(Seen)
                    BY <1>4, SummaryRanks
                <5> QED
                    BY <5>1, <1>2, <1>4, SeenIsFinite
            <4> QED
                BY <3>1, <4>1, DecisionAssumption DEF Seen
        <3>4. IsNesting(nesting)'
            BY <1>1, <2>1, <3>1 DEF IsNesting
        <3>5. idx' \in 1..idx' /\ idx' - 1 = idx
            BY <1>2, <1>4
        <3>6. ASSUME NEW i \in 1..(idx' - 1) PROVE ~IsNesting(summary[i])'
            <4>1. ~IsNesting(summary[i])
                BY <3>2, <3>5
            <4> QED
                BY <4>1, <1>1, <1>2 DEF IsNesting
        <3> QED
            BY <1>2, <3>1, <3>3, <3>4, <3>5, <3>6 DEF FirstPassingNests
    <2>2. CASE nesting = NoPokemon /\ ~IsNesting(summary[idx + 1])
        <3>1. nesting' = NoPokemon
            BY <2>2 DEF NextPokemon
        <3>2. \A i \in 1..idx' : ~IsNesting(summary[i])
            BY <2>2, <1>2, <1>4 DEF FirstPassingNests
        <3>3. \A i \in 1..idx' : ~IsNesting(summary[i])'
            BY <1>1, <1>2, <3>2 DEF IsNesting
        <3> QED
            BY <3>1, <3>3 DEF FirstPassingNests
    <2>3. CASE nesting # NoPokemon
        <3>1. nesting' = nesting
            BY <2>3 DEF NextPokemon
        <3>2. PICK k \in 1..idx : /\ nesting = summary[k]
                                  /\ IsNesting(nesting)
                                  /\ \A i \in 1..(k - 1) : ~IsNesting(summary[i])
            BY <2>3, <1>4 DEF FirstPassingNests
        <3>3. k \in 1..idx' /\ nesting' = summary'[k]
            BY <3>1, <3>2, <1>2, <1>4
        <3>4. IsNesting(nesting)'
            BY <1>1, <3>1, <3>2 DEF IsNesting
        <3>5. \A i \in 1..(k - 1) : ~IsNesting(summary[i])'
            BY <1>1, <1>2, <3>2 DEF IsNesting
        <3> QED
            BY <2>3, <3>1, <3>3, <3>4, <3>5 DEF FirstPassingNests
    <2> QED
        BY <2>1, <2>2, <2>3
<1> QED
    BY <1>1, <1>4, <1>5, <1>6, <1>7 DEF DecisionInv

\* Every state reached satisfies the invariant.
LEMMA DecisionInvHolds ==
    DecisionSpec => []DecisionInv
<1>1. DecisionInv /\ [DecisionNext]_decisionVars => DecisionInv'
    <2> SUFFICES ASSUME DecisionInv, [DecisionNext]_decisionVars PROVE DecisionInv'
        OBVIOUS
    <2>1. CASE GetSummaryForNest
        BY <2>1, SortingKeepsInv
    <2>2. CASE NextPokemon
        BY <2>2, LookingKeepsInv
    <2>3. CASE UNCHANGED decisionVars
        BY <2>3 DEF decisionVars, DecisionInv, SummaryIsSorted, FirstPassingNests, Seen,
                    Less, IsNesting, Total, GlobalTotal, Unsorted
    <2> QED
        BY <2>1, <2>2, <2>3 DEF DecisionNext
<1> QED
    BY <1>1, DecisionInitInv, PTL DEF DecisionSpec

-----------------------------------------------------------------------------

\* At most as many pokemon come before an entry as stand before it.
LEMMA BeforeAreFew ==
    ASSUME count \in [PokemonKey -> Nat], global \in [PokemonKey -> Nat], SummaryIsSorted,
           NEW k \in 1..Cardinality(Seen), k <= MaxRank
    PROVE  MayRank(summary[k])
<1> DEFINE n == Cardinality(Seen)
           Prefix == FirstEntries(summary, k - 1)
           Before == {q \in Seen : Less(q, summary[k])}
<1>1. IsFiniteSet(Seen) /\ n \in Nat
    BY SeenIsFinite
<1>2. /\ summary \in [1..n -> Seen]
      /\ \A i, j \in 1..n : i # j => summary[i] # summary[j]
      /\ \A p \in Seen : \E i \in 1..n : summary[i] = p
      /\ \A i, j \in 1..n : Less(summary[i], summary[j]) => i < j
    BY SummaryRanks
<1> HIDE DEF n
<1>3. k \in 1..n /\ k - 1 \in Nat /\ k - 1 <= n
    BY <1>1 DEF n
<1>4. IsFiniteSet(Prefix) /\ Cardinality(Prefix) = k - 1
    BY <1>1, <1>2, <1>3, PrefixCardinality
<1>5. Before \in SUBSET Prefix
    BY <1>1, <1>2, <1>3 DEF FirstEntries
<1> HIDE DEF Prefix, Before
<1>6. Cardinality(Before) <= k - 1 /\ Cardinality(Before) \in Nat
    BY <1>4, <1>5, FS_Subset, FS_CardinalityType
<1>7. Cardinality(Before) < MaxRank
    BY <1>3, <1>6, DecisionAssumption
<1> QED
    BY <1>7 DEF Before, MayRank

\* An entry that must be looked at is among the first MaxRank.
LEMMA MustRankIsEarly ==
    ASSUME count \in [PokemonKey -> Nat], global \in [PokemonKey -> Nat], SummaryIsSorted,
           NEW k \in 1..Cardinality(Seen), MustRank(summary[k])
    PROVE  k <= MaxRank
<1> DEFINE n == Cardinality(Seen)
           Prefix == FirstEntries(summary, k - 1)
           Ahead == {q \in Seen \ {summary[k]} : ~Less(summary[k], q)}
<1>1. IsFiniteSet(Seen) /\ n \in Nat
    BY SeenIsFinite
<1>2. /\ summary \in [1..n -> Seen]
      /\ \A i, j \in 1..n : i # j => summary[i] # summary[j]
      /\ \A i, j \in 1..n : Less(summary[i], summary[j]) => i < j
    BY SummaryRanks
<1> HIDE DEF n
<1>3. k \in 1..n /\ k - 1 \in Nat /\ k - 1 <= n
    BY <1>1 DEF n
<1>4. IsFiniteSet(Prefix) /\ Cardinality(Prefix) = k - 1
    BY <1>1, <1>2, <1>3, PrefixCardinality
<1>5. Prefix \in SUBSET Ahead
    BY <1>1, <1>2, <1>3 DEF FirstEntries
<1>6. IsFiniteSet(Ahead)
    BY <1>1, FS_Subset
<1>7. Cardinality(Ahead) < MaxRank
    BY DEF MustRank
<1> HIDE DEF Prefix, Ahead
<1>8. Cardinality(Prefix) <= Cardinality(Ahead) /\ Cardinality(Ahead) \in Nat
    BY <1>5, <1>6, FS_Subset, FS_CardinalityType
<1> QED
    BY <1>3, <1>4, <1>7, <1>8, DecisionAssumption

\* The invariant says that a decision made is a best one.
LEMMA InvMeansBest ==
    DecisionInv => DecisionIsBest
<1> SUFFICES ASSUME DecisionInv, Decided PROVE DecisionIsBest
    BY DEF DecisionIsBest
<1> DEFINE n == Cardinality(Seen)
<1>1. /\ idx \in Nat /\ idx <= MaxRank /\ idx <= n
      /\ SummaryIsSorted /\ FirstPassingNests
      /\ count \in [PokemonKey -> Nat] /\ global \in [PokemonKey -> Nat]
    BY DEF DecisionInv, Decided
<1>2. /\ summary \in [1..n -> Seen] /\ Len(summary) = n
      /\ \A p \in Seen : \E i \in 1..n : summary[i] = p
      /\ \A i, j \in 1..n : Less(summary[i], summary[j]) => i < j
    BY <1>1, SummaryRanks
<1>3. n \in Nat
    BY SeenIsFinite
<1>4. idx = n \/ idx = MaxRank
    BY <1>2 DEF Decided
<1>5. CASE nesting = NoPokemon
    <2>1. SUFFICES ASSUME NEW p \in Seen, IsNesting(p), MustRank(p) PROVE FALSE
        BY <1>5 DEF DecisionIsBest
    <2>2. PICK k \in 1..n : summary[k] = p
        BY <1>2
    <2>3. k <= MaxRank
        BY <1>1, <2>1, <2>2, MustRankIsEarly
    <2>4. k \in 1..idx
        BY <1>1, <1>3, <1>4, <2>3, DecisionAssumption
    <2> QED
        BY <1>1, <1>5, <2>1, <2>2, <2>4 DEF FirstPassingNests
<1>6. CASE nesting # NoPokemon
    <2>1. PICK k \in 1..idx : /\ nesting = summary[k]
                              /\ IsNesting(nesting)
                              /\ \A i \in 1..(k - 1) : ~IsNesting(summary[i])
        BY <1>1, <1>6 DEF FirstPassingNests
    <2>2. k \in 1..n /\ k <= MaxRank
        BY <1>1, <1>3, DecisionAssumption
    <2>3. MayRank(nesting)
        BY <1>1, <2>1, <2>2, BeforeAreFew
    <2>4. ASSUME NEW p \in Seen, IsNesting(p), Less(p, nesting) PROVE FALSE
        <3>1. PICK i \in 1..n : summary[i] = p
            BY <1>2
        <3>2. i < k
            BY <1>2, <2>1, <2>2, <2>4, <3>1
        <3> QED
            BY <1>3, <2>1, <2>4, <3>1, <3>2
    <2> QED
        BY <1>6, <2>1, <2>3, <2>4 DEF DecisionIsBest
<1> QED
    BY <1>5, <1>6

\* The pokemon that processTimePeriodSummary takes is one that passes every test
\* and that no other such pokemon, ranked high enough, comes before; it takes none
\* only if there is none: for any counts, thresholds and number of entries looked at.
THEOREM DecisionIsAlwaysBest ==
    DecisionSpec => []DecisionIsBest
<1>1. DecisionInv => DecisionIsBest
    BY InvMeansBest
<1> QED
    BY <1>1, DecisionInvHolds, PTL

=============================================================================
