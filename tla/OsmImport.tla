----------------------------- MODULE OsmImport -----------------------------
(***************************************************************************)
(* fletchling-osm-importer: for one area after the other it asks Overpass  *)
(* for the elements in the area's bounding box, drops those that are no    *)
(* nests, upserts the rest, and refreshes all nests in the end.  It is run *)
(* again and again: for all areas, for one of them, or (-new-areas) for    *)
(* those that no row belongs to; it can be interrupted or killed anywhere. *)
(*                                                                         *)
(* An element has an id always: Overpass sends one.  Its only tag that     *)
(* matters here is its name.                                               *)
(***************************************************************************)
EXTENDS Naturals, Sequences, FiniteSets, AreaNames

CONSTANTS
    AreaList,     \* the areas of the source: [parent, name], in order
    Element,      \* the elements of OSM: [way, tags, shape, size, inside]
    DefaultName,  \* whether default_name is configured
    MaxTries,     \* duplicates answered before giving up: 5 in the code
    MaxRuns       \* bound on the times the importer is run

Area == {AreaList[i] : i \in DOMAIN AreaList}

ASSUME OsmAssumption ==
    /\ AreaList \in Seq(Area) /\ Area \subseteq [parent : STRING, name : STRING]
    /\ \A e \in Element : e.inside \subseteq Area /\ e.tags \subseteq {"name", "leisure"}
    /\ DefaultName \in BOOLEAN
    /\ MaxTries \in Nat /\ MaxRuns \in Nat

VARIABLES
    rows,       \* per element: the area of its row, and whether it was verified
    pc,         \* where the importer is; off when it does not run
    flags,      \* -new-areas, -skip-activation
    todo,       \* overpassAreas: the areas still to be visited
    existing,   \* existingAreas
    tries,      \* max_tries
    features,   \* what ExportFeatures returned, then what is to be upserted
    processed,  \* areasProcessed
    result,     \* how the last run ended: ok or fatal
    cancelled,  \* a signal has cancelled the context
    runs,       \* how often it was run
    selected,   \* history: the areas this run was to visit
    troubled    \* history: areas whose last import lost an upsert, or was cut off

osmVars == <<rows, pc, flags, todo, existing, tries, features, processed, result,
          cancelled, runs, selected, troubled>>

visit == <<flags, todo, existing, processed, selected>>
world == <<runs, cancelled>>

NoRow == [area |-> <<>>, state |-> "none"]

OsmInit ==
    /\ rows = [e \in Element |-> NoRow]
    /\ pc = "off"
    /\ flags = [new |-> FALSE, skip |-> FALSE]
    /\ todo = <<>> /\ selected = <<>>
    /\ existing = {}
    /\ tries = 0
    /\ features = {}
    /\ processed = 0
    /\ result = "ok"
    /\ cancelled = FALSE
    /\ runs = 0
    /\ troubled = {}

-----------------------------------------------------------------------------
(* Areas and elements.                                                      *)

\* GetArea: of areas of the same name the last one is in the map.
GetArea(name) ==
    LET last == CHOOSE i \in DOMAIN AreaList :
                    /\ AreaList[i].name = name
                    /\ \A j \in DOMAIN AreaList : AreaList[j].name = name => j <= i
    IN  AreaList[last]

\* GetNestAreas.
GetNestAreas == {rows[e].area : e \in {f \in Element : rows[f].state # "none"}}

\* NewOverpassExporter: parentName, which becomes area_name.
ParentName(area) ==
    IF area.parent # "" /\ area.name # "" THEN <<area.parent, area.name>> ELSE <<area.name>>

\* AdjustFeatureProperties: tags become properties.  ExportFeatures leaves an
\* element without a name as it is: "Unknown Park" is put under its own key.
Named(e) == "name" \in e.tags

\* ExportFeatures: of the elements in the box those with their center in the area.
ExportFeatures(area) == {e \in Element : area \in e.inside}

\* ImportRunner.Import: what is passed on to the importer.
Importable(e) ==
    /\ Named(e) \/ DefaultName
    /\ e.shape \in {"Polygon", "MultiPolygon"}
    /\ e.size = "fine"

-----------------------------------------------------------------------------
(* main.                                                                    *)

Ends(how) ==
    /\ pc' = "off"
    /\ result' = how
    /\ features' = {}

\* The flags, ReloadAreas, GetNestAreas and the choice of the areas.  When one
\* of them fails nothing has happened.
Start(areas, new, skip) ==
    /\ pc = "off" /\ runs < MaxRuns
    /\ pc' = "areas"
    /\ flags' = [new |-> new, skip |-> skip]
    /\ todo' = areas /\ selected' = areas
    /\ existing' = IF new THEN GetNestAreas ELSE {}
    /\ processed' = 0
    /\ cancelled' = FALSE
    /\ runs' = runs + 1
    /\ UNCHANGED <<rows, tries, features, result, troubled>>

\* Mutant: areas are told apart by their names alone.
ExistsByName(area) == area.name \in {name[Len(name)] : name \in existing}

Exists(area) == NewAreaName(area.parent, area.name).FullName \in existing

SkipArea ==
    /\ pc = "areas" /\ todo # <<>>
    /\ Head(todo).name = "" \/ Exists(Head(todo))
    /\ todo' = Tail(todo)
    /\ UNCHANGED <<rows, pc, flags, existing, processed, selected, tries, features, result,
                   world, troubled>>

\* The next area: GetPossibleNestLocations begins.
VisitArea ==
    /\ pc = "areas" /\ todo # <<>>
    /\ Head(todo).name # "" /\ ~Exists(Head(todo))
    /\ pc' = "asking"
    /\ tries' = MaxTries
    /\ UNCHANGED <<rows, visit, features, result, world, troubled>>

\* No area is left: the refresh of all nests, if there is to be one,
Refresh ==
    /\ pc = "areas" /\ todo = <<>>
    /\ processed > 0 /\ ~flags.skip /\ ~cancelled
    /\ rows' = [e \in Element |-> IF rows[e].state = "none" THEN NoRow
                                  ELSE [rows[e] EXCEPT !.state = "verified"]]
    /\ Ends("ok")
    /\ UNCHANGED <<visit, tries, world, troubled>>

\* which may fail half way,
RefreshFails ==
    /\ pc = "areas" /\ todo = <<>>
    /\ processed > 0 /\ ~flags.skip
    /\ \E done \in SUBSET {e \in Element : rows[e].state # "none"} :
          rows' = [e \in Element |-> IF e \in done THEN [rows[e] EXCEPT !.state = "verified"]
                                     ELSE rows[e]]
    /\ Ends("fatal")
    /\ UNCHANGED <<visit, tries, world, troubled>>

\* and nothing otherwise.
Done ==
    /\ pc = "areas" /\ todo = <<>>
    /\ processed = 0 \/ flags.skip
    /\ Ends("ok")
    /\ UNCHANGED <<rows, visit, tries, world, troubled>>

-----------------------------------------------------------------------------
(* GetPossibleNestLocations.                                                *)

\* doSingleQuery sends the request.
SendQuery ==
    /\ pc = "asking"
    /\ pc' = "asked"
    /\ UNCHANGED <<rows, visit, tries, features, result, world, troubled>>

\* Overpass answers with elements.
QueryAnswered ==
    /\ pc = "asked" /\ ~cancelled
    /\ pc' = "exported"
    /\ features' = ExportFeatures(Head(todo))
    /\ UNCHANGED <<rows, visit, tries, result, world, troubled>>

QueryTimesOut ==
    /\ pc = "asked" /\ ~cancelled
    /\ pc' = "sleeping"
    /\ UNCHANGED <<rows, visit, tries, features, result, world, troubled>>

\* Mutant: it is asked again without end.
QueryDuplicateForEver ==
    /\ pc = "asked" /\ ~cancelled
    /\ pc' = "asking"
    /\ UNCHANGED <<rows, visit, tries, features, result, world, troubled>>

\* A duplicate query is asked again at once, for a box somewhat larger.
QueryDuplicate ==
    /\ pc = "asked" /\ ~cancelled
    /\ IF tries = 0
       THEN Ends("fatal") /\ UNCHANGED tries
       ELSE /\ pc' = "asking"
            /\ tries' = tries - 1
            /\ UNCHANGED <<features, result>>
    /\ UNCHANGED <<rows, visit, world, troubled>>

\* Any other answer ends the program.
QueryFails ==
    /\ pc = "asked"
    /\ Ends("fatal")
    /\ UNCHANGED <<rows, visit, tries, world, troubled>>

\* The request is bound to the context.
QueryCancelled ==
    /\ pc = "asked" /\ cancelled
    /\ Ends("fatal")
    /\ UNCHANGED <<rows, visit, tries, world, troubled>>

\* SleepContext: one second, or a signal.
Sleep ==
    /\ pc = "sleeping"
    /\ \/ pc' = "asking" /\ UNCHANGED <<features, result>>
       \/ cancelled /\ Ends("fatal")
    /\ UNCHANGED <<rows, visit, tries, world, troubled>>

-----------------------------------------------------------------------------
(* ImportRunner.Import and DBImporter.ImportFeatures.                       *)

\* The context is looked at before each feature.
Filter ==
    /\ pc = "exported"
    /\ IF cancelled /\ features # {}
       THEN Ends("fatal")
       ELSE /\ pc' = "importing"
            /\ features' = {e \in features : Importable(e)}
            /\ UNCHANGED result
    /\ troubled' = IF pc' = "importing" THEN troubled \ {Head(todo)} ELSE troubled
    /\ UNCHANGED <<rows, visit, tries, world>>

\* A row that could not be read is taken for a new one.
Upserted(row, area, unread) ==
    [area  |-> ParentName(area),
     state |-> IF row.state = "none" \/ unread THEN "unverified" ELSE row.state]

ImportFeature(e, unread) ==
    /\ pc = "importing" /\ ~cancelled
    /\ e \in features
    /\ rows' = [rows EXCEPT ![e] = Upserted(@, Head(todo), unread)]
    /\ features' = features \ {e}
    /\ UNCHANGED <<pc, visit, tries, result, world, troubled>>

\* A failed upsert is logged, also when the context is cancelled.
ImportFeatureFails(e) ==
    /\ pc = "importing"
    /\ e \in features
    /\ features' = features \ {e}
    /\ troubled' = troubled \union {Head(todo)}
    /\ UNCHANGED <<rows, pc, visit, tries, result, world>>

\* ImportFeatures never returns an error.
AreaDone ==
    /\ pc = "importing" /\ features = {}
    /\ pc' = "areas"
    /\ processed' = processed + 1
    /\ todo' = Tail(todo)
    /\ UNCHANGED <<rows, flags, existing, selected, tries, features, result, world, troubled>>

-----------------------------------------------------------------------------

Signal ==
    /\ pc # "off" /\ ~cancelled
    /\ cancelled' = TRUE
    /\ UNCHANGED <<rows, pc, visit, tries, features, result, runs, troubled>>

\* The process is killed.
Kill ==
    /\ pc # "off"
    /\ Ends("fatal")
    /\ troubled' = IF pc = "importing" /\ features # {} THEN troubled \union {Head(todo)}
                   ELSE troubled
    /\ UNCHANGED <<rows, visit, tries, world>>

Import ==
    \E e \in Element : ImportFeatureFails(e) \/ \E unread \in BOOLEAN : ImportFeature(e, unread)

Program ==
    \/ SkipArea \/ VisitArea \/ Refresh \/ RefreshFails \/ Done
    \/ SendQuery \/ QueryCancelled \/ Sleep
    \/ Filter \/ Import \/ AreaDone

Overpass == QueryAnswered \/ QueryTimesOut \/ QueryDuplicate \/ QueryFails

OsmNext ==
    \/ \E new, skip \in BOOLEAN : Start(AreaList, new, skip)
    \/ \E area \in Area, skip \in BOOLEAN : Start(<<GetArea(area.name)>>, FALSE, skip)
    \/ Program
    \/ Overpass
    \/ Signal
    \/ Kill

OsmSpec == OsmInit /\ [][OsmNext]_osmVars

\* The program goes on, and the database answers.  Nothing is assumed of
\* Overpass: the http.Client has no timeout.
FairOsmSpec == OsmSpec /\ WF_osmVars(Program)

-----------------------------------------------------------------------------
(* Correctness.                                                             *)

\* A signal ends the importer wherever it is, also while Overpass is silent or
\* times out for ever.  Without a signal it ends if Overpass answers and stops
\* to time out, however often it finds the query a duplicate.
ImporterEnds ==
    /\ cancelled ~> pc = "off"
    /\ []<>(pc # "asked") /\ <>[](pc # "sleeping") => []<>(pc = "off")

\* An area under its parent, as NewAreaName and NewOverpassExporter both spell it.
Proper(area) == area.name # "" /\ area.parent \notin {Any, area.name}

\* When a run says it is done, each of the areas it was to visit has all its
\* nests in the database, also those it skipped because of rows of an earlier
\* run that was interrupted elsewhere, unless the last import of the area lost
\* an upsert or was cut off; and nothing is left unverified if it visited an area and
\* was not told to skip the activation.
SuccessIsComplete ==
    [][pc # "off" /\ pc' = "off" /\ result' = "ok" =>
        /\ \A i \in DOMAIN selected :
              LET area == selected[i]
              IN  Proper(area) /\ area \notin troubled =>
                    \A e \in ExportFeatures(area) :
                        Importable(e) => rows[e].state # "none"
        /\ processed > 0 /\ ~flags.skip =>
              \A e \in Element : rows'[e].state # "unverified"]_osmVars

=============================================================================
