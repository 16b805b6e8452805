------------------------------ MODULE MCJournal ------------------------------
(* The instances of Journal that TLC checks.                                 *)
EXTENDS JournalLedger, TLC

CONSTANTS w1, w2, p1, p2

(* Processes that connect alike are interchangeable.                         *)
WorkerSymmetry == Permutations(Workers)
=============================================================================
