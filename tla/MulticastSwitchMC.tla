------------------------- MODULE MulticastSwitchMC -------------------------
(* Values of the constants of MulticastSwitch for TLC. *)
EXTENDS MulticastSwitch

\* two unicast destinations, one of which create_group takes for class D
MCDestIPs == { <<10, 0, 0, 2>>, <<10, 0, 0, 225>> }

\* the connections, the sources, the receivers and the UDP ports are each
\* only ever compared for equality
MCSymmetry == Permutations(Conns) \cup Permutations(GroupIPs)
              \cup Permutations(Hosts) \cup Permutations(UdpPorts)

=============================================================================
