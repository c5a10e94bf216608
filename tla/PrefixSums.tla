----------------------------- MODULE PrefixSums -----------------------------
(***************************************************************************)
(* The sum of the first n values of a function on 1..n.  The folds of the  *)
(* community modules take the projection as an operator; this one is a     *)
(* recursive function, so that facts about it can be proved (see           *)
(* PrefixSumsTheorems).                                                    *)
(***************************************************************************)
EXTENDS Integers

PrefixSum(f, n) ==
    LET sum[i \in 0..n] == IF i = 0 THEN 0 ELSE sum[i - 1] + f[i]
    IN  sum[n]

=============================================================================
