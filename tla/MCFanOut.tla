------------------------------ MODULE MCFanOut ------------------------------
(* Small instance of FanOut for TLC: two batches over two groups, fewer    *)
(* semaphore permits than groups, and a circuit two failures trip.         *)
EXTENDS FanOut
=============================================================================
