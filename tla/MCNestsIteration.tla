-------------------------- MODULE MCNestsIteration --------------------------
(***************************************************************************)
(* NestsIteration with four rows at most, queried two at a time, through  *)
(* a channel that holds one.                                               *)
(***************************************************************************)
EXTENDS NestsIteration

Rows == 1..4

=============================================================================
