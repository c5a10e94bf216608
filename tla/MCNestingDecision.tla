------------------------- MODULE MCNestingDecision -------------------------
(***************************************************************************)
(* NestingDecision for three pokemon, of which two are looked at.  The     *)
(* configurations: lenient, one that wants a high ratio, and one that      *)
(* wants many sightings of what is rare elsewhere.                         *)
(***************************************************************************)
EXTENDS NestingDecision

Thresholds(pct, ratio, maxGlobal, total, nest) ==
    [t \in Threshold |->
        CASE t = "MinNestPokemonPct" -> pct
          [] t = "MinNestPctToGlobalPctRatio" -> ratio
          [] t = "MaxGlobalSpawnPct" -> maxGlobal
          [] t = "MinTotalPokemon" -> total
          [] t = "MinNestPokemon" -> nest
          [] t = "MinHistoryDuration" -> 1]

SomeConfigs == {Thresholds(0, 0, 0, 0, 0),
                Thresholds(20, 2, 0, 2, 1),
                Thresholds(50, 1, 40, 3, 2)}

=============================================================================
