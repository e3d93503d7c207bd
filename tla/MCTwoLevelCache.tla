--------------------------- MODULE MCTwoLevelCache ---------------------------
(* Small instance of TwoLevelCache for TLC. *)
EXTENDS TwoLevelCache
=============================================================================
