-------------------------- MODULE MulticastWireMC --------------------------
(* Values of the constants of MulticastWire for TLC. *)
EXTENDS MulticastWire

MCDestIPs == { <<10, 0, 0, 2>> }

=============================================================================
