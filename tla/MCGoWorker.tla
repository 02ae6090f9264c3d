----------------------------- MODULE MCGoWorker -----------------------------
(* Instances of GoWorker for TLC. *)
EXTENDS GoWorker, TLC

CONSTANTS t1, t2

TaskSymmetry == Permutations(Tasks)
=============================================================================
