------------------------------ MODULE MCAppeal ------------------------------
(* An appeal with two deep links, two messages and two taps.               *)
EXTENDS Appeal
=============================================================================
