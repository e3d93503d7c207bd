----------------------------- MODULE MCModAction -----------------------------
(* Small instance of ModAction for TLC. *)
EXTENDS ModAction, TLC

CONSTANTS c1, c2, t1, t2, t3

MCChats == {c1, c2}
MCTasks == {t1, t2, t3}

Symmetry == Permutations(MCChats) \cup Permutations(MCTasks)
=============================================================================
