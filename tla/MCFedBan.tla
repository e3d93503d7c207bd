------------------------------ MODULE MCFedBan ------------------------------
(* Small instance of FedBan for TLC. *)
EXTENDS FedBan
=============================================================================
