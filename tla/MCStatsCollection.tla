------------------------- MODULE MCStatsCollection -------------------------
(***************************************************************************)
(* StatsCollection on small instances.                                     *)
(***************************************************************************)
EXTENDS StatsCollection

CONSTANTS p1, p2, n1

MCPokemon == {p1, p2}
MCNest == {n1}

=============================================================================
