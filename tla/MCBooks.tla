-------------------------------- MODULE MCBooks --------------------------------
(* The instance of PeriodControl that TLC checks.                             *)
EXTENDS PeriodControl, TLC

CONSTANTS w1, w2, k1, k2, i1

(* Requests are interchangeable.                                              *)
RequestSymmetry == Permutations(Workers) \cup Permutations(Clerks)
=============================================================================
