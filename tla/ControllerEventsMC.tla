------------------------- MODULE ControllerEventsMC -------------------------
(* Values of the constants of ControllerEvents for TLC. *)
EXTENDS ControllerEvents

CONSTANTS w1, w2, c1, c2

MCWorkerOf == (c1 :> w1) @@ (c2 :> w2)

\* l2 of msg and raw, the cbench of each, the multicast agent, the Android app
MCPrograms ==
  { [registers |-> EventTypes, learns |-> TRUE, blocks |-> FALSE],
    [registers |-> {"PACKET_IN"}, learns |-> FALSE, blocks |-> FALSE],
    [registers |-> EventTypes, learns |-> FALSE, blocks |-> FALSE],
    [registers |-> EventTypes, learns |-> TRUE, blocks |-> TRUE] }

=============================================================================
