----------------------------- MODULE KojiImport -----------------------------
(***************************************************************************)
(* KojiImporter and the requests of the koji_client AdminClient it makes:  *)
(* nests become geofences of a Koji project.  To Koji a geofence is its    *)
(* name, and a request to create one of a name that exists overwrites it,  *)
(* so the importer keeps what it knows of the geofences in two maps.       *)
(*                                                                         *)
(* Every request can fail.  One that finds the session expired does:       *)
(* makeInternalRequest logs in, and then asks again without the prefix     *)
(* /internal/admin.  A request that changes something can also take effect *)
(* and be answered by an error.  Of a geofence's properties only its nest  *)
(* id is kept, and of the values of that what JSON makes of them: a string *)
(* or a number.  Projects, parents and shapes are left out.                *)
(***************************************************************************)
EXTENDS Naturals, Sequences

CONSTANTS
    Word,      \* what names are made of: words, and places
    Batches,   \* what may be imported: sequences of features
    Foreign,   \* names of geofences that are there and are no nests
    MaxRuns    \* bound on the number of imports

Features == UNION {{batch[i] : i \in DOMAIN batch} : batch \in Batches}

\* A feature has been looked at by the ImportRunner: it has a name and an id.
ASSUME KojiAssumption ==
    /\ "Nest" \in Word
    /\ \A batch \in Batches : batch \in Seq(Features)
    /\ \A feature \in Features :
          /\ DOMAIN feature = {"nest", "name", "numeric", "center", "id"}
          /\ feature.name \in Seq(Word) /\ feature.center \in Word
          /\ feature.numeric \in BOOLEAN
          /\ feature.id \in {"string", "int", "int64"}
    /\ MaxRuns \in Nat

\* The name of a feature, unless Koji would take it for a number.
FullName(feature) == IF feature.numeric THEN <<"Nest">> \o feature.name ELSE feature.name

\* The name with the place.
AltName(feature) == Append(FullName(feature), feature.center)

\* Nobody has called anything what the importer calls a nest with its place.
ASSUME NamesAssumption ==
    \A feature \in Features :
        /\ AltName(feature) \notin Foreign
        /\ \A other \in Features : AltName(feature) # FullName(other)

VARIABLES
    fences,   \* Koji: what each name stands for
    hasId,    \* Koji: there is a property called id
    props,    \* cli.props: nil, or whether it has the property called id
    pc,       \* the next request; off when there is no import
    create,   \* createProperties
    todo,     \* the features still to be imported
    byName,   \* geofencesByName
    byNest,   \* geofencesByNestId
    draft,    \* the geofence about to be created
    runs,     \* how many imports there were
    unread    \* history: names this import has created a geofence under, unknown to it

vars == <<fences, hasId, props, pc, create, todo, byName, byNest, draft, runs, unread>>

koji == <<fences, hasId>>
maps == <<byName, byNest>>
import == <<create, runs>>

NoDraft == [name |-> <<>>]

Init ==
    /\ fences = [name \in Foreign |-> [nest |-> "none", center |-> "none", id |-> "none"]]
    /\ hasId \in BOOLEAN
    /\ props = "nil"
    /\ pc = "off"
    /\ create = FALSE
    /\ todo = <<>>
    /\ byName = {} /\ byNest = {}
    /\ draft = NoDraft
    /\ runs = 0
    /\ unread = {}

-----------------------------------------------------------------------------
(* ImportFeatures.                                                          *)

\* RefreshProperties, the error of which is dropped.
Start(batch, createProperties) ==
    /\ pc = "off" /\ runs < MaxRuns
    /\ pc' = "project"
    /\ create' = createProperties
    /\ todo' = batch
    /\ byName' = {} /\ byNest' = {}
    /\ unread' = {}
    /\ runs' = runs + 1
    /\ props' \in {props, IF hasId THEN "with" ELSE "without"}
    /\ UNCHANGED <<koji, draft>>

\* nestIdFromProperties: a number of JSON has become a float64, which it refuses.
nestIdFromProperties(fence) == IF fence.id = "string" THEN {fence.nest} ELSE {}

\* GetProjectByName.
ReadProject ==
    /\ pc = "project"
    /\ pc' = "geofences"
    /\ UNCHANGED <<koji, props, todo, maps, draft, import, unread>>

\* A request for the list, and one for each of its geofences.
GetAllGeofencesFull == DOMAIN fences

\* The maps.  Only nests have an id, and those that do are in the project.
ReadGeofences ==
    /\ pc = "geofences"
    /\ byName' = GetAllGeofencesFull
    /\ byNest' = UNION {nestIdFromProperties(fences[name]) : name \in GetAllGeofencesFull}
    /\ pc' = "next"
    /\ UNCHANGED <<koji, props, todo, draft, import, unread>>

\* One of these requests fails, or all features are done.
End ==
    /\ pc \in {"project", "geofences"} \/ (pc = "next" /\ todo = <<>>)
    /\ pc' = "off"
    /\ UNCHANGED <<koji, props, todo, maps, draft, import, unread>>

-----------------------------------------------------------------------------
(* importFeature.                                                           *)

SkipFeature ==
    /\ pc = "next" /\ todo # <<>>
    /\ Head(todo).nest \in byNest
    /\ todo' = Tail(todo)
    /\ UNCHANGED <<koji, props, pc, maps, draft, import, unread>>

\* checkDuplicate: with its place, if there is a geofence of that name; whether
\* there is one of the name with the place makes no difference.
NameFor(feature) ==
    IF FullName(feature) \in byName THEN AltName(feature) ELSE FullName(feature)

NameFeature ==
    /\ pc = "next" /\ todo # <<>>
    /\ Head(todo).nest \notin byNest
    /\ draft' = [name |-> NameFor(Head(todo)), nest |-> Head(todo).nest,
                 center |-> Head(todo).center, id |-> "none"]
    /\ pc' = "property"
    /\ UNCHANGED <<koji, props, todo, maps, import, unread>>

\* The id as Koji gives it back.
WithId == [draft EXCEPT !.id = IF Head(todo).id = "string" THEN "string" ELSE "number"]

\* GetPropertyByName needs the properties, which are read if they never were.
ReadProperties ==
    /\ pc = "property" /\ props = "nil"
    /\ \/ props' = (IF hasId THEN "with" ELSE "without") /\ UNCHANGED pc
       \/ pc' = "post" /\ UNCHANGED props
    /\ UNCHANGED <<koji, todo, maps, draft, import, unread>>

\* A property that does not exist is left out if it is not to be created, and
\* if its value is an int, for which GetOrCreateProperty knows no category.
FindProperty ==
    /\ pc = "property"
    /\ \/ props = "with" /\ draft' = WithId
       \/ props = "without" /\ (~create \/ Head(todo).id = "int") /\ UNCHANGED draft
    /\ pc' = "post"
    /\ UNCHANGED <<koji, props, todo, maps, import, unread>>

\* CreateProperty, after which the properties are read again, or are not.
CreateProperty ==
    /\ pc = "property" /\ props = "without" /\ create /\ Head(todo).id # "int"
    /\ \/ hasId' = TRUE /\ draft' = WithId /\ props' \in {"with", "without"}
       \/ hasId' \in {hasId, TRUE} /\ UNCHANGED <<draft, props>>
    /\ pc' = "post"
    /\ UNCHANGED <<fences, todo, maps, import, unread>>

NextFeature ==
    /\ pc' = "next"
    /\ todo' = Tail(todo)
    /\ draft' = NoDraft

Posted ==
    [name \in DOMAIN fences \union {draft.name} |->
        IF name = draft.name
        THEN [nest |-> draft.nest, center |-> draft.center, id |-> draft.id]
        ELSE fences[name]]

\* CreateGeofence: the POST,
PostGeofence ==
    /\ pc = "post"
    /\ fences' = Posted
    /\ pc' = "read back"
    /\ UNCHANGED <<hasId, props, todo, maps, draft, import, unread>>

PostFails ==
    /\ pc = "post"
    /\ \/ UNCHANGED <<fences, unread>>
       \/ fences' = Posted /\ unread' = unread \union {draft.name}
    /\ NextFeature
    /\ UNCHANGED <<hasId, props, maps, import>>

\* Mutant: the geofence is remembered by its nest only.
ReadBackForgettingName ==
    /\ pc = "read back"
    /\ byNest' = byNest \union {draft.nest}
    /\ NextFeature
    /\ UNCHANGED <<koji, props, byName, import, unread>>

\* Mutant: the geofence is remembered by its name only.
ReadBackForgettingNest ==
    /\ pc = "read back"
    /\ byName' = byName \union {draft.name}
    /\ NextFeature
    /\ UNCHANGED <<koji, props, byNest, import, unread>>

\* and GetGeofenceById, for what the POST does not give back.
ReadBack ==
    /\ pc = "read back"
    /\ byName' = byName \union {draft.name}
    /\ byNest' = byNest \union {draft.nest}
    /\ NextFeature
    /\ UNCHANGED <<koji, props, import, unread>>

\* When that fails a geofence exists that the maps do not have.
ReadBackFails ==
    /\ pc = "read back"
    /\ unread' = unread \union {draft.name}
    /\ NextFeature
    /\ UNCHANGED <<koji, props, maps, import>>

\* The process ends.
Kill ==
    /\ pc # "off"
    /\ pc' = "off"
    /\ props' = "nil"
    /\ UNCHANGED <<koji, todo, maps, draft, import, unread>>

Next ==
    \/ \E batch \in Batches, createProperties \in BOOLEAN : Start(batch, createProperties)
    \/ ReadProject \/ ReadGeofences \/ End
    \/ SkipFeature \/ NameFeature
    \/ ReadProperties \/ FindProperty \/ CreateProperty
    \/ PostGeofence \/ PostFails \/ ReadBack \/ ReadBackFails
    \/ Kill

Spec == Init /\ [][Next]_vars

-----------------------------------------------------------------------------
(* Correctness.                                                             *)

\* checkDuplicate: the geofence of another place is never overwritten, one that
\* is no nest included.  The exception is a geofence that this very import has
\* created and has not got back from Koji: the next nest of the same name
\* takes it over, and the first nest is gone.
OthersAreNotOverwritten ==
    [][\A name \in DOMAIN fences :
          \/ fences'[name].nest = fences[name].nest
          \/ fences'[name].center = fences[name].center
          \/ name \in unread]_vars

\* "id from properties exists": a nest does not get a second geofence, in one
\* import or in many, if it has one the id of which Koji stores as a string.
\* The exception is again a geofence that was created and not got back.
NoSecondGeofence ==
    [][\A name \in DOMAIN fences' \ DOMAIN fences, other \in DOMAIN fences :
          fences[other].nest = fences'[name].nest =>
              fences[other].id # "string" \/ other \in unread]_vars

=============================================================================
