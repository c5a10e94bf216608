--------------------------- MODULE MCStatsSlices ---------------------------
(***************************************************************************)
(* StatsSlices on small instances.                                         *)
(***************************************************************************)
EXTENDS StatsSlices

CONSTANTS a1, a2, s1, s2

OneAdder == {a1}
TwoAdders == {a1, a2}
OneSnapshotter == {s1}
TwoSnapshotters == {s1, s2}

=============================================================================
