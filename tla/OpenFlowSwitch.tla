--------------------------- MODULE OpenFlowSwitch ---------------------------
(***************************************************************************)
(* The switch the multicast agent programs, as far as the agent uses it:   *)
(* the groups, the flows that point at them, the flows that punt joins and *)
(* leaves, and what it last sent to the upstream switch for each group.    *)
(* The switch is not part of the repository (the agent is deployed next to *)
(* an OpenFlow 1.3 datapath): this is what OpenFlow 1.3 says of the        *)
(* messages the agent sends.                                               *)
(***************************************************************************)
EXTENDS Integers, Sequences

CONSTANTS
  GroupIPs,       \* addresses of the sources of groups
  NULL,           \* no group under an id
  MaxGroupId,     \* group ids are 0..MaxGroupId
  HonoursOutPort  \* BOOLEAN: the switch filters flow deletions by out_port

EmptyDatapath ==
  [groups   |-> [id \in 0..MaxGroupId |-> NULL],
   flows    |-> {},
   hooks    |-> {},
   upstream |-> [g \in GroupIPs |-> "none"],
   refused  |-> FALSE]

SameMatch(f, e) == f.ip = e.ip /\ f.sport = e.sport /\ f.dport = e.dport

Refuse(d) == [d EXCEPT !.refused = TRUE]

\* OFPGC_ADD of a group that exists is an error
AddGroup(d, id, bs) ==
  IF d.groups[id] # NULL THEN Refuse(d) ELSE [d EXCEPT !.groups[id] = bs]

\* OFPGC_MODIFY of a group that does not exist is an error
ModifyGroup(d, id, bs) ==
  IF d.groups[id] = NULL THEN Refuse(d) ELSE [d EXCEPT !.groups[id] = bs]

\* OFPGC_DELETE removes the group, if any, and the flows that refer to it
DeleteGroup(d, id) ==
  [d EXCEPT !.groups[id] = NULL,
            !.flows = { f \in @ : f.group # id }]

\* a flow that refers to a group that does not exist is an error
AddFlow(d, flow) ==
  IF d.groups[flow.group] = NULL THEN Refuse(d)
  ELSE [d EXCEPT !.flows = { f \in @ : ~SameMatch(f, flow) } \cup {flow}]

\* The agent asks to delete the flow with out_port 0, which no flow outputs
\* to: a switch that applies the filter deletes nothing.
DeleteFlow(d, flow) ==
  IF HonoursOutPort THEN d
  ELSE [d EXCEPT !.flows = { f \in @ : ~(SameMatch(f, flow)
                                         /\ f.group = flow.group) }]

\* the datapath after it has processed one message
Apply(d, m) ==
  CASE m.type = "role" -> d
    [] m.type = "hook" -> [d EXCEPT !.hooks = @ \cup {m.ip}]
    [] m.type = "packet_out" -> [d EXCEPT !.upstream[m.ip] = m.request]
    [] m.type = "flow" /\ m.command = "ADD" -> AddFlow(d, m.flow)
    [] m.type = "flow" /\ m.command = "DELETE" -> DeleteFlow(d, m.flow)
    [] m.type = "group" /\ m.command = "ADD" -> AddGroup(d, m.group, m.buckets)
    [] m.type = "group" /\ m.command = "MODIFY" ->
         ModifyGroup(d, m.group, m.buckets)
    [] m.type = "group" /\ m.command = "DELETE" -> DeleteGroup(d, m.group)

=============================================================================
