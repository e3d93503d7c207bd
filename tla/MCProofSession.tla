--------------------------- MODULE MCProofSession ---------------------------
(* Small instance of ProofSession for TLC. *)
EXTENDS ProofSession
=============================================================================
