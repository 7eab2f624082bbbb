--------------------------- MODULE AgentThreadsMC ---------------------------
(* Values of the constants of AgentThreads for TLC. *)
EXTENDS AgentThreads

CONSTANTS c1, c2, g1, g2, g3, gs, p1, p2, h1

MCDestIPs == { <<10, 0, 0, 2>>, <<10, 0, 0, 225>> }

MCRecord(sip, octet, is_root) ==
  [sip |-> sip, dip |-> <<10, 0, 0, octet>>, sport |-> p1, dport |-> p2,
   is_root |-> is_root]

MCUDP(ip, us, ud, port) ==
  [protocol |-> "UDP", ip |-> ip, us |-> us, ud |-> ud, intf |-> InIntf(port),
   host |-> h1, hooked |-> FALSE]

MCJoin(ip) == MCUDP(ip, p1, p2, 1)
MCJoinToo(ip) == MCUDP(ip, p1, p2, 2)
MCLeave(ip) == MCUDP(ip, p2, p1, 1)
MCOther(ip) == MCUDP(ip, p1, p1, 1)
MCIGMP(ip) == [protocol |-> "IGMP", ip |-> ip]

\* a group told of twice, and another; one that is taken for class D, and then a
\* root's and an edge's; three groups, of which a packet's late increment of the
\* id counter makes two the same; packets for a root's and an edge's; one group
\* alone, an edge's and a root's; and a root's with two switches
MCScenarios ==
  { [stream |-> <<MCRecord(g1, 2, TRUE), MCRecord(g1, 2, TRUE),
                  MCRecord(g2, 2, TRUE)>>,
     switches |-> {c1}, packets |-> {MCJoin(g1)}],
    [stream |-> <<MCRecord(g1, 225, TRUE), MCRecord(g1, 2, TRUE),
                  MCRecord(g2, 2, FALSE)>>,
     switches |-> {c1}, packets |-> {MCJoin(g1)}],
    [stream |-> <<MCRecord(g1, 2, TRUE), MCRecord(g2, 2, TRUE),
                  MCRecord(g3, 2, TRUE)>>,
     switches |-> {c1}, packets |-> {MCOther(g1)}],
    [stream |-> <<MCRecord(g1, 2, TRUE), MCRecord(g2, 2, FALSE)>>,
     switches |-> {c1}, packets |-> {MCJoin(g1), MCJoin(g2)}],
    [stream |-> <<MCRecord(g1, 2, FALSE)>>,
     switches |-> {c1},
     packets |-> {MCJoin(g1), MCJoinToo(g1), MCLeave(g1), MCIGMP(g1)}],
    [stream |-> <<MCRecord(g1, 2, TRUE)>>,
     switches |-> {c1}, packets |-> {MCJoin(g1), MCLeave(g1), MCOther(g1)}],
    [stream |-> <<MCRecord(g1, 2, TRUE)>>,
     switches |-> {c1, c2}, packets |-> {MCJoin(gs)}] }

MCStray == MCRecord(gs, 2, TRUE)

=============================================================================
