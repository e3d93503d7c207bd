------------------------------- MODULE MCRoles -------------------------------
(* Small instance of Roles for TLC. *)
EXTENDS Roles, TLC

CONSTANTS t1, t2

MCTasks == {t1, t2}

TaskSymmetry == Permutations(MCTasks)
=============================================================================
