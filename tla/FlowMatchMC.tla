---------------------------- MODULE FlowMatchMC ----------------------------
(* Values of the constants of FlowMatchCheck for TLC. *)
EXTENDS FlowMatchCheck

MCValues == {0, 1}
MCBits == {0}
MCPriorities == {1}

\* every mask, as the functions are written for
MCAllMasks == SUBSET MCBits

=============================================================================
