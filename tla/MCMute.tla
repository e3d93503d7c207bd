------------------------------- MODULE MCMute -------------------------------
(* Small instance of Mute for TLC. *)
EXTENDS Mute, TLC

CONSTANTS main, g1, m1, m2, u1

MCPrimary == {main}
MCGroups == {g1}
MCMutes == {m1, m2}
MCUnmutes == {u1}

Symmetry == Permutations(MCMutes)
=============================================================================
