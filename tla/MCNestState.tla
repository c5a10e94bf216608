---------------------------- MODULE MCNestState ----------------------------
(***************************************************************************)
(* An instance of NestState: two processings that may overlap, a nest that *)
(* is fine, one under a larger nest, and one whose geometry is bad.        *)
(***************************************************************************)
EXTENDS NestState, TLC

Places == {[shape |-> "fine", overlapped |-> FALSE],
           [shape |-> "fine", overlapped |-> TRUE],
           [shape |-> "small", overlapped |-> FALSE],
           [shape |-> "invalid", overlapped |-> FALSE]}

\* Pokemon are only told apart.
Symmetry == Permutations(Pokemon)

=============================================================================
