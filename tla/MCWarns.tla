------------------------------- MODULE MCWarns -------------------------------
(* Small instance of Warns for TLC. *)
EXTENDS Warns, TLC

CONSTANTS t1, t2

MCTasks == {t1, t2}

TaskSymmetry == Permutations(MCTasks)
=============================================================================
