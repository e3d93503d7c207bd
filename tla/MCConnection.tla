----------------------------- MODULE MCConnection -----------------------------
(* Small instance of Connection for TLC. *)
EXTENDS Connection, TLC

CONSTANTS t1, t2

MCTasks == {t1, t2}

TaskSymmetry == Permutations(MCTasks)
=============================================================================
