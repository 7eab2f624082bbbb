-------------------------- MODULE SwitchDatapathMC --------------------------
(* Values of the constants of SwitchDatapath for TLC: matches on the ingress *)
(* port and one more field, without addresses.                               *)
EXTENDS SwitchDatapath

MCFields == {"in_port", "tp_dst"}
MCValues == {0, 1, 2}
MCPorts == {1, 2}

MCMatch(in_port, tp_dst) ==
  [val |-> [f \in MCFields |-> IF f = "in_port" THEN in_port ELSE tp_dst],
   wild |-> (IF in_port = 0 THEN {"in_port"} ELSE {})
              \cup (IF tp_dst = 0 THEN {"tp_dst"} ELSE {}),
   nw_src |-> {}, nw_dst |-> {}]

MCRule(match, priority, actions) == FlowOf(match, priority) @@ [actions |-> actions]

MCFrames == { [val |-> [f \in {"tp_dst"} |-> v], nw_src |-> {}, nw_dst |-> {}] : v \in {1, 2} }

MCAnswerRules == { MCRule(MCMatch(0, 1), 1, <<OFPP_IN_PORT>>) }

\* a rule that sends to the controller, and to a port there is not
MCRules ==
  MCAnswerRules \cup { MCRule(MCMatch(0, 2), 1, <<OFPP_CONTROLLER, 3>>) }

\* and rules that wildcard the field, with anything in it
MCAllRules ==
  MCRules \cup
  { MCRule([val |-> [f \in MCFields |-> IF f = "in_port" THEN 0 ELSE v], wild |-> MCFields,
            nw_src |-> {}, nw_dst |-> {}], priority, <<>>) :
    <<v, priority>> \in {<<1, 1>>, <<2, 1>>, <<0, 2>>} }

MCDeletes == { MCMatch(0, 0) }

\* BOUND: tables of several flows, or of other rules than MCRules, are followed
\* as long as there are neither packets nor ids the controller has made up; and
\* the captures are closed only where no two threads have given out ids at once
MCFocus ==
  \/ packets = <<>> /\ named = {}
  \/ /\ zeroed
     /\ Len(flow_table) <= 1
     /\ \A k \in DOMAIN flow_table : flow_table[k] \in MCRules
     /\ overlapped => closed = {}

MCActionLists == { <<>>, <<OFPP_FLOOD>> }

=============================================================================
