-------------------------- MODULE MulticastTreeMC --------------------------
(* Values of the constants of MulticastTree for TLC. *)
EXTENDS MulticastTree

MCDestIP == <<10, 0, 0, 2>>

=============================================================================
