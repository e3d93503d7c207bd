---------------------------- MODULE MCSyncSweep ----------------------------
(* Small instance of SyncSweep for TLC. *)
EXTENDS SyncSweep

CONSTANTS g1, g2

MCGroups == <<g1, g2>>
=============================================================================
