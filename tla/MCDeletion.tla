------------------------------ MODULE MCDeletion -----------------------------
(* The instances of JournalDeletion that TLC checks.                         *)
EXTENDS JournalDeletion, TLC

CONSTANTS w1, w2, p1, p2

(* Processes that connect alike are interchangeable.                         *)
WorkerSymmetry == Permutations(Workers)
=============================================================================
