----------------------------- MODULE AreaNames -----------------------------
(***************************************************************************)
(* The names of areas of areas/area.go.  A string with one slash is the    *)
(* pair of what is before and after it: "London/Chelsea" is                *)
(* <<"London", "Chelsea">>.  Any other string is one part, the name.       *)
(***************************************************************************)
EXTENDS Naturals, Sequences

Any == "*"

\* What strings.Split makes of a string, as far as AreaStringToAreaName looks.
AreaString == {area \in Seq(STRING) : Len(area) \in {1, 2}}

\* FullName of NewAreaName: what ends up in the database.
FullName(parent, name) ==
    IF parent \notin {"", Any}
    THEN IF name \in {"", parent} THEN <<parent>> ELSE <<parent, name>>
    ELSE IF name # "" THEN <<name>> ELSE <<"world">>

NewAreaName(parent, name) ==
    [Parent |-> parent, Name |-> name, FullName |-> FullName(parent, name)]

AreaStringToAreaName(area) ==
    IF Len(area) = 2 THEN NewAreaName(area[1], area[2]) ELSE NewAreaName(Any, area[1])

\* Mutant: any parent will do for a name without a wildcard.
AreaNameMatchesName(area, wildcardedAreas) ==
    \E wild \in wildcardedAreas :
        \/ wild.Name = Any /\ wild.Parent \in {Any, area.Parent}
        \/ wild.Name = area.Name

AreaNameMatches(area, wildcardedAreas) ==
    \E wild \in wildcardedAreas :
        \/ wild.Name = Any /\ wild.Parent \in {Any, area.Parent}
        \/ wild.Name = area.Name /\ wild.Parent \in {Any, area.Parent}

=============================================================================
