--------------------------- MODULE MCKojiImport ---------------------------
(***************************************************************************)
(* KojiImport for parks of one name in two places, two of one name in one  *)
(* place, one whose name is a number and one that is called what that one  *)
(* becomes, one whose id is no string, and a geofence that is no nest and  *)
(* has a park's name.                                                      *)
(***************************************************************************)
EXTENDS KojiImport

F(nest, name, numeric, center, id) ==
    [nest |-> nest, name |-> name, numeric |-> numeric, center |-> center, id |-> id]

North == F("north", <<"Park">>, FALSE, "n", "string")
South == F("south", <<"Park">>, FALSE, "s", "string")
Inner == F("inner", <<"Park">>, FALSE, "s", "int64")
Seven == F("seven", <<"7">>, TRUE, "e", "int")
NestSeven == F("nest seven", <<"Nest", "7">>, FALSE, "w", "string")
Green == F("green", <<"Green">>, FALSE, "w", "string")

Imports == {<<North, South, Inner>>, <<South, North, South>>, <<Seven, NestSeven, Seven>>,
            <<NestSeven, Green, Seven>>}

Words == {"Park", "Nest", "7", "Green", "n", "s", "e", "w"}

Areas == {<<"Green">>}

=============================================================================
