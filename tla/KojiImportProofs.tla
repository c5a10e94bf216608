-------------------------- MODULE KojiImportProofs --------------------------
(***************************************************************************)
(* What KojiImport promises holds for any batches and any geofences that   *)
(* are there already, and however many imports there are.                  *)
(***************************************************************************)
EXTENDS KojiImport, SequenceTheorems, TLAPS

Drafting == pc \in {"property", "post", "read back"}

\* A geofence that is no stranger's has the place of a feature, and its name,
\* with or without the place.
NamesTellPlaces ==
    \A name \in DOMAIN fences \ Foreign :
        \E feature \in Features :
            /\ fences[name].center = feature.center
            /\ name \in {FullName(feature), AltName(feature)}

\* What is being created comes from the next feature.
DraftIsOfFeature ==
    /\ todo \in Seq(Features)
    /\ Drafting =>
        /\ todo # <<>>
        /\ draft = [name |-> draft.name, nest |-> draft.nest,
                    center |-> draft.center, id |-> draft.id]
        /\ draft.center = Head(todo).center
        /\ draft.name \in {FullName(Head(todo)), AltName(Head(todo))}

\* After it has read them, the importer knows all geofences but those whose
\* creation was not confirmed, and the one that is being confirmed.
Unconfirmed == unread \union IF pc = "read back" THEN {draft.name} ELSE {}

NamesAreKnown ==
    pc = "next" \/ Drafting => DOMAIN fences \subseteq byName \union Unconfirmed

NestsAreKnown ==
    pc = "next" \/ Drafting =>
        \A name \in DOMAIN fences \ Unconfirmed :
            fences[name].id = "string" => fences[name].nest \in byNest

\* What is about to be posted is of a nest that is not known, under a name that
\* is not known or has the place.
DraftIsNew ==
    /\ pc \in {"property", "post"} =>
        /\ draft.nest \notin byNest
        /\ draft.name \in byName => draft.name = AltName(Head(todo))
    /\ pc = "read back" =>
        /\ draft.name \in DOMAIN fences
        /\ fences[draft.name].nest = draft.nest

KojiInv ==
    /\ pc \in {"off", "project", "geofences", "next", "property", "post", "read back"}
    /\ NamesTellPlaces
    /\ DraftIsOfFeature
    /\ NamesAreKnown
    /\ NestsAreKnown
    /\ DraftIsNew

-----------------------------------------------------------------------------

\* The place can be read off a name that has it.
LEMMA AltNameTellsPlace ==
    ASSUME NEW f \in Features, NEW g \in Features, AltName(f) = AltName(g)
    PROVE  f.center = g.center
<1>1. ASSUME NEW h \in {f, g}
      PROVE  FullName(h) \in Seq(Word) /\ h.center \in Word
  <2>1. h.name \in Seq(Word) /\ h.center \in Word /\ "Nest" \in Word
    BY KojiAssumption
  <2>2. <<"Nest">> \in Seq(Word)
    BY <2>1
  <2>3. <<"Nest">> \o h.name \in Seq(Word)
    BY <2>1, <2>2, ConcatProperties
  <2> QED
    BY <2>1, <2>3 DEF FullName
<1> QED
  BY <1>1, AppendInjective DEF AltName

LEMMA HeadOfTodo ==
    ASSUME todo \in Seq(Features), todo # <<>>
    PROVE  Head(todo) \in Features /\ Tail(todo) \in Seq(Features)
BY HeadTailProperties

LEMMA InitKojiInv == Init => KojiInv
BY EmptySeq DEF Init, KojiInv, NamesTellPlaces, DraftIsOfFeature, NamesAreKnown,
                NestsAreKnown, DraftIsNew, Drafting

\* Posting touches one name only, and leaves it with the place of its feature.
LEMMA PostedKojiInv ==
    ASSUME KojiInv, pc = "post", fences' = Posted
    PROVE  /\ DOMAIN fences' = DOMAIN fences \union {draft.name}
           /\ \A name \in DOMAIN fences : name # draft.name => fences'[name] = fences[name]
           /\ fences'[draft.name].nest = draft.nest
           /\ fences'[draft.name].center = draft.center
           /\ NamesTellPlaces'
<1>1. DOMAIN fences' = DOMAIN fences \union {draft.name}
  BY DEF Posted
<1>2. \A name \in DOMAIN fences : name # draft.name => fences'[name] = fences[name]
  BY DEF Posted
<1>3. fences'[draft.name] = [nest |-> draft.nest, center |-> draft.center, id |-> draft.id]
  BY DEF Posted
<1>4. PICK feature \in Features :
          draft.center = feature.center /\ draft.name \in {FullName(feature), AltName(feature)}
  <2>1. Head(todo) \in Features
    BY HeadOfTodo DEF KojiInv, DraftIsOfFeature, Drafting
  <2> QED
    BY <2>1 DEF KojiInv, DraftIsOfFeature, Drafting
<1>5. NamesTellPlaces'
  <2> SUFFICES ASSUME NEW name \in DOMAIN fences' \ Foreign
               PROVE  \E f \in Features : /\ fences'[name].center = f.center
                                          /\ name \in {FullName(f), AltName(f)}
    BY DEF NamesTellPlaces, FullName, AltName
  <2>1. CASE name = draft.name
    BY <2>1, <1>3, <1>4
  <2>2. CASE name # draft.name
    BY <2>2, <1>1, <1>2 DEF KojiInv, NamesTellPlaces
  <2> QED
    BY <2>1, <2>2
<1> QED
  BY <1>1, <1>2, <1>3, <1>5

LEMMA StepKojiInv == KojiInv /\ [Next]_vars => KojiInv'
<1> SUFFICES ASSUME KojiInv, [Next]_vars PROVE KojiInv'
  OBVIOUS
<1> USE DEF NextFeature
<1>0. CASE UNCHANGED vars
  BY <1>0 DEF vars, KojiInv, NamesTellPlaces, DraftIsOfFeature, NamesAreKnown,
              NestsAreKnown, DraftIsNew, Drafting, Unconfirmed
<1>1. ASSUME NEW batch \in Batches, NEW createProperties \in BOOLEAN,
             Start(batch, createProperties)
      PROVE  KojiInv'
  <2>1. batch \in Seq(Features)
    BY KojiAssumption
  <2> QED
    BY <1>1, <2>1 DEF Start, koji, KojiInv, NamesTellPlaces, DraftIsOfFeature,
         NamesAreKnown, NestsAreKnown, DraftIsNew, Drafting
<1>2. CASE ReadProject \/ End \/ Kill
  BY <1>2 DEF ReadProject, End, Kill, koji, maps, KojiInv, NamesTellPlaces,
       DraftIsOfFeature, NamesAreKnown, NestsAreKnown, DraftIsNew, Drafting, Unconfirmed
<1>3. CASE ReadGeofences
  <2>1. NestsAreKnown'
    <3> SUFFICES ASSUME NEW name \in DOMAIN fences, fences[name].id = "string"
                 PROVE  fences[name].nest \in byNest'
      BY <1>3 DEF ReadGeofences, koji, NestsAreKnown
    <3>1. fences[name].nest \in nestIdFromProperties(fences[name])
      BY DEF nestIdFromProperties
    <3> QED
      BY <1>3, <3>1 DEF ReadGeofences, GetAllGeofencesFull
  <2> QED
    BY <1>3, <2>1 DEF ReadGeofences, GetAllGeofencesFull, koji, KojiInv, NamesTellPlaces,
         DraftIsOfFeature, NamesAreKnown, DraftIsNew, Drafting
<1>4. CASE SkipFeature
  BY <1>4, HeadOfTodo DEF SkipFeature, koji, maps, KojiInv, NamesTellPlaces,
       DraftIsOfFeature, NamesAreKnown, NestsAreKnown, DraftIsNew, Drafting, Unconfirmed
<1>5. CASE NameFeature
  BY <1>5 DEF NameFeature, NameFor, koji, maps, KojiInv, NamesTellPlaces,
       DraftIsOfFeature, NamesAreKnown, NestsAreKnown, DraftIsNew, Drafting, Unconfirmed
<1>6. CASE ReadProperties \/ FindProperty \/ CreateProperty
  <2>1. /\ pc = "property" /\ pc' \in {"property", "post"}
        /\ UNCHANGED <<fences, todo, maps, unread>>
        /\ draft' = draft \/ draft' = WithId
    BY <1>6 DEF ReadProperties, FindProperty, CreateProperty, koji, maps
  <2>2. /\ draft'.name = draft.name /\ draft'.nest = draft.nest
        /\ draft'.center = draft.center
        /\ draft' = [name |-> draft'.name, nest |-> draft'.nest,
                     center |-> draft'.center, id |-> draft'.id]
    BY <2>1 DEF WithId, KojiInv, DraftIsOfFeature, Drafting
  <2> QED
    BY <2>1, <2>2 DEF maps, KojiInv, NamesTellPlaces, DraftIsOfFeature, NamesAreKnown,
         NestsAreKnown, DraftIsNew, Drafting, Unconfirmed, FullName, AltName
<1>7. CASE PostGeofence
  <2>1. pc = "post" /\ pc' = "read back" /\ fences' = Posted
        /\ UNCHANGED <<todo, maps, draft, unread>>
    BY <1>7 DEF PostGeofence
  <2> QED
    BY <2>1, PostedKojiInv DEF maps, KojiInv, DraftIsOfFeature, NamesAreKnown,
         NestsAreKnown, DraftIsNew, Drafting, Unconfirmed
<1>8. CASE PostFails
  <2>1. pc = "post" /\ pc' = "next" /\ todo' = Tail(todo) /\ UNCHANGED maps
    BY <1>8 DEF PostFails
  <2>2. todo' \in Seq(Features)
    BY <2>1, HeadOfTodo DEF KojiInv, DraftIsOfFeature, Drafting
  <2>3. CASE UNCHANGED <<fences, unread>>
    BY <2>1, <2>2, <2>3 DEF maps, KojiInv, NamesTellPlaces, DraftIsOfFeature,
         NamesAreKnown, NestsAreKnown, DraftIsNew, Drafting, Unconfirmed
  <2>4. CASE fences' = Posted /\ unread' = unread \union {draft.name}
    BY <2>1, <2>2, <2>4, PostedKojiInv DEF maps, KojiInv, DraftIsOfFeature,
         NamesAreKnown, NestsAreKnown, DraftIsNew, Drafting, Unconfirmed
  <2> QED
    BY <1>8, <2>3, <2>4 DEF PostFails
<1>9. CASE ReadBack
  <2>1. todo' \in Seq(Features)
    BY <1>9, HeadOfTodo DEF ReadBack, KojiInv, DraftIsOfFeature, Drafting
  <2> QED
    BY <1>9, <2>1 DEF ReadBack, koji, KojiInv, NamesTellPlaces, DraftIsOfFeature,
         NamesAreKnown, NestsAreKnown, DraftIsNew, Drafting, Unconfirmed
<1>10. CASE ReadBackFails
  <2>1. todo' \in Seq(Features)
    BY <1>10, HeadOfTodo DEF ReadBackFails, KojiInv, DraftIsOfFeature, Drafting
  <2> QED
    BY <1>10, <2>1 DEF ReadBackFails, koji, maps, KojiInv, NamesTellPlaces,
         DraftIsOfFeature, NamesAreKnown, NestsAreKnown, DraftIsNew, Drafting, Unconfirmed
<1> QED
  BY <1>0, <1>1, <1>2, <1>3, <1>4, <1>5, <1>6, <1>7, <1>8, <1>9, <1>10 DEF Next

-----------------------------------------------------------------------------

\* Only two actions write to Koji, and they write what was drafted.
LEMMA OnlyPostsWrite ==
    ASSUME [Next]_vars
    PROVE  UNCHANGED fences \/ (pc = "post" /\ fences' = Posted)
BY DEF Next, vars, koji, Start, ReadProject, ReadGeofences, End, SkipFeature, NameFeature,
       ReadProperties, FindProperty, CreateProperty, PostGeofence, PostFails, ReadBack,
       ReadBackFails, Kill

\* checkDuplicate does its work for every batch: a geofence of another place is
\* only overwritten if this import has created it without knowing.
THEOREM OverwritesNoOthers == Spec => OthersAreNotOverwritten
<1>1. ASSUME KojiInv, [Next]_vars, NEW name \in DOMAIN fences
      PROVE  \/ fences'[name].nest = fences[name].nest
             \/ fences'[name].center = fences[name].center
             \/ name \in unread
  <2>1. CASE UNCHANGED fences
    BY <2>1
  <2>2. CASE pc = "post" /\ fences' = Posted /\ name # draft.name
    BY <1>1, <2>2, PostedKojiInv
  <2>3. CASE pc = "post" /\ fences' = Posted /\ name = draft.name
    <3>1. Head(todo) \in Features /\ draft.center = Head(todo).center
      BY <1>1, <2>3, HeadOfTodo DEF KojiInv, DraftIsOfFeature, Drafting
    <3>2. name \in unread \/ name = AltName(Head(todo))
      BY <1>1, <2>3 DEF KojiInv, NamesAreKnown, DraftIsNew, Drafting, Unconfirmed
    <3>3. CASE name = AltName(Head(todo))
      <4>1. PICK feature \in Features :
                /\ fences[name].center = feature.center
                /\ name \in {FullName(feature), AltName(feature)}
        BY <1>1, <3>1, <3>3, NamesAssumption DEF KojiInv, NamesTellPlaces
      <4>2. name = AltName(feature)
        BY <3>1, <3>3, <4>1, NamesAssumption
      <4>3. feature.center = Head(todo).center
        BY <3>1, <3>3, <4>2, AltNameTellsPlace
      <4> QED
        BY <1>1, <2>3, <3>1, <4>1, <4>3, PostedKojiInv
    <3> QED
      BY <3>2, <3>3
  <2> QED
    BY <1>1, <2>1, <2>2, <2>3, OnlyPostsWrite
<1>2. KojiInv /\ [Next]_vars =>
        [\A name \in DOMAIN fences :
            \/ fences'[name].nest = fences[name].nest
            \/ fences'[name].center = fences[name].center
            \/ name \in unread]_vars
  BY <1>1
<1> QED
  BY <1>2, InitKojiInv, StepKojiInv, PTL DEF Spec, OthersAreNotOverwritten

\* A nest whose geofence has a readable id is found again, in this import and in
\* every later one.
THEOREM AddsNoSecondGeofence == Spec => NoSecondGeofence
<1>1. ASSUME KojiInv, [Next]_vars,
             NEW name \in DOMAIN fences' \ DOMAIN fences, NEW other \in DOMAIN fences,
             fences[other].nest = fences'[name].nest
      PROVE  fences[other].id # "string" \/ other \in unread
  <2>1. pc = "post" /\ fences' = Posted
    BY <1>1, OnlyPostsWrite
  <2>2. name = draft.name /\ fences'[name].nest = draft.nest
    BY <1>1, <2>1, PostedKojiInv
  <2>3. draft.nest \notin byNest
    BY <1>1, <2>1 DEF KojiInv, DraftIsNew
  <2> QED
    BY <1>1, <2>1, <2>2, <2>3 DEF KojiInv, NestsAreKnown, Drafting, Unconfirmed
<1>2. KojiInv /\ [Next]_vars =>
        [\A name \in DOMAIN fences' \ DOMAIN fences, other \in DOMAIN fences :
            fences[other].nest = fences'[name].nest =>
                fences[other].id # "string" \/ other \in unread]_vars
  BY <1>1
<1> QED
  BY <1>2, InitKojiInv, StepKojiInv, PTL DEF Spec, NoSecondGeofence

=============================================================================
