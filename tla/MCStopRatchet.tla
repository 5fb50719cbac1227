---------------------------- MODULE MCStopRatchet ----------------------------
(* A model-checking instance of StopRatchet. *)
EXTENDS StopRatchet

MCBids == {8, 10, 11, 12}
MCProposals == {9, 11}
=============================================================================
