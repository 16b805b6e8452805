----------------------------- MODULE MCOperations ----------------------------
(* The instances of PendingOperations that TLC checks.                        *)
EXTENDS PendingOperations, TLC

CONSTANTS r1, r2, s1, s2, a, b

(* Processes are interchangeable, and so are sweeps.                          *)
ProcessSymmetry == Permutations(Runners) \cup Permutations(Sweepers)
=============================================================================
