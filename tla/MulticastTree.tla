---------------------------- MODULE MulticastTree ----------------------------
(***************************************************************************)
(* Two agents in a distribution tree: the edge's switch hangs on a port of *)
(* the switch next to the source, the root.  The edge re-emits a join or   *)
(* leave packet on its upstream interface when its first receiver comes or *)
(* its last one goes; the packet crosses a link, the root's switch punts   *)
(* it if it already has the group's hook, and the root's agent takes the   *)
(* link for one more receiver.  Nothing is acknowledged or repeated.       *)
(*                                                                         *)
(* Both agents are bound and stay so (MulticastSwitch has the others).     *)
(***************************************************************************)
EXTENDS Integers, Sequences

CONSTANTS
  Agent,          \* the id of each agent's OpenFlow connection
  GroupIPs, Host, IdSpace, NULL, Garbage, HonoursOutPort,  \* see MulticastSwitch
  DestIP,         \* the destination address the network controller names
  SPort, DPort,   \* the source's and the receivers' UDP port
  EdgePorts,      \* ports of the edge that have receivers
  RootPorts,      \* ports of the root that have receivers
  LinkPort,       \* port of the root that the edge hangs on
  MaxEdgeId,      \* BOUND: no MCGroup is constructed at the edge beyond this id
  MaxRootId       \* BOUND: nor at the root

VARIABLES
  conn, ofconn,  \* of either agent alike: its connection is up and bound
  \* the root: MulticastSwitch's variables, OFMsgGroupIdGen abbreviated
  rstore, rmembers, rbuckets, rgroupmod, rgen, rout, rcrashed, rdp,
  \* the edge
  estore, emembers, ebuckets, egroupmod, egen, eout, ecrashed, edp,
  link,    \* packets on their way from the edge to the root
  missed   \* history: missed[g], the last packet for g reached no handler

root == <<rstore, rmembers, rbuckets, rgroupmod, rgen, rout, rcrashed, rdp>>
edge == <<estore, emembers, ebuckets, egroupmod, egen, eout, ecrashed, edp>>
tvars == <<conn, ofconn, root, edge, link, missed>>

Root == INSTANCE MulticastSwitch WITH
  Conns <- {Agent}, Hosts <- {Host}, DestIPs <- {DestIP},
  InPorts <- RootPorts \cup {LinkPort}, UdpPorts <- {SPort, DPort},
  MaxGroupId <- MaxRootId,
  store <- rstore, members <- rmembers, buckets <- rbuckets,
  groupmod <- rgroupmod, OFMsgGroupIdGen <- rgen, out <- rout,
  crashed <- rcrashed, dp <- rdp

Edge == INSTANCE MulticastSwitch WITH
  Conns <- {Agent}, Hosts <- {Host}, DestIPs <- {DestIP},
  InPorts <- EdgePorts, UdpPorts <- {SPort, DPort}, MaxGroupId <- MaxEdgeId,
  store <- estore, members <- emembers, buckets <- ebuckets,
  groupmod <- egroupmod, OFMsgGroupIdGen <- egen, out <- eout,
  crashed <- ecrashed, dp <- edp

\* what MulticastApp assumes of either agent, and that the link has a port and
\* the two directions a port number of their own
ASSUME TreeAssumption ==
  /\ Root!PortsAssumption /\ Root!BoundAssumption /\ Root!NullAssumption
  /\ Edge!PortsAssumption /\ Edge!BoundAssumption /\ Edge!NullAssumption
  /\ SPort # DPort /\ LinkPort \notin RootPorts

\* as MulticastSwitch's SwInit, once the connections are bound
TInit ==
  /\ conn = [c \in {Agent} |-> "up"] /\ ofconn = Agent
  /\ rstore = [g \in GroupIPs |-> NULL] /\ estore = rstore
  /\ rmembers = [g \in GroupIPs |-> Root!NoMembersYet]
  /\ emembers = [g \in GroupIPs |-> Edge!NoMembersYet]
  /\ rbuckets = [g \in GroupIPs |-> <<>>] /\ ebuckets = rbuckets
  /\ rgroupmod = [g \in GroupIPs |-> [group_id |-> 0, buckets |-> <<>>]]
  /\ egroupmod = rgroupmod
  /\ rgen = 0 /\ egen = 0
  /\ rout = <<>> /\ eout = <<>>
  /\ rcrashed = FALSE /\ ecrashed = FALSE
  /\ rdp = Root!Switch!EmptyDatapath
  /\ edp = Edge!Switch!EmptyDatapath
  /\ link = <<>>
  /\ missed = [g \in GroupIPs |-> FALSE]

-----------------------------------------------------------------------------
\* the UDP ports of a join or leave packet, as handle_UDP_packet tells them
Us(request) == IF request = "join" THEN SPort ELSE DPort
Ud(request) == IF request = "join" THEN DPort ELSE SPort

\* BOUND: the root keeps an id for every packet the edge can still send it
RoomForEdge == rgen + Len(link) + (MaxEdgeId - egen) < MaxRootId

\* leaves are not passed on
MutantUpstream(msgs) ==
  IF msgs # <<>> /\ Head(msgs).type = "packet_out" /\ Head(msgs).request = "join"
  THEN <<Head(msgs)>> ELSE <<>>

\* the packet that a handler's packet-out puts on the upstream interface: no
\* handler sends more than one, and what sends one sends it first
Upstream(msgs) ==
  IF msgs # <<>> /\ Head(msgs).type = "packet_out" THEN <<Head(msgs)>> ELSE <<>>

\* The network controller tells each switch once of a group.
EdgeCreates(g) ==
  /\ estore[g] = NULL
  /\ Edge!CreateGroup(g, DestIP, SPort, DPort, FALSE)
  /\ edp' = Edge!AfterBatch(edp, eout')
  /\ UNCHANGED <<root, link, missed>>

RootCreates(g) ==
  /\ rstore[g] = NULL
  /\ RoomForEdge
  /\ Root!CreateGroup(g, DestIP, SPort, DPort, TRUE)
  /\ rdp' = Root!AfterBatch(rdp, rout')
  /\ UNCHANGED <<edge, link, missed>>

\* a receiver below the edge sends a packet, which the hook punts
EdgeReceives(g, request, port) ==
  /\ g \in edp.hooks
  /\ Edge!UDPPacketIn(Agent, g, Us(request), Ud(request), port, Host)
  /\ edp' = Edge!AfterBatch(edp, eout')
  /\ link' = link \o Upstream(eout')
  /\ UNCHANGED <<root, missed>>

RootReceives(g, request, port) ==
  /\ RoomForEdge
  /\ g \in rdp.hooks
  /\ Root!UDPPacketIn(Agent, g, Us(request), Ud(request), port, Host)
  /\ rdp' = Root!AfterBatch(rdp, rout')
  /\ UNCHANGED <<edge, link, missed>>

\* the oldest packet reaches the root: its agent, if the hook is there
LinkDelivers ==
  LET p == Head(link)
  IN  /\ link # <<>>
      /\ ~rcrashed
      /\ link' = Tail(link)
      /\ UNCHANGED edge
      /\ \/ /\ p.ip \in rdp.hooks
            /\ Root!UDPPacketIn(Agent, p.ip, Us(p.request), Ud(p.request),
                                LinkPort, Host)
            /\ rdp' = Root!AfterBatch(rdp, rout')
            /\ missed' = [missed EXCEPT ![p.ip] = FALSE]
         \/ /\ p.ip \notin rdp.hooks
            /\ missed' = [missed EXCEPT ![p.ip] = TRUE]
            /\ UNCHANGED <<conn, ofconn, root>>

\* the link loses the oldest packet
LinkLoses ==
  /\ link # <<>>
  /\ link' = Tail(link)
  /\ missed' = [missed EXCEPT ![Head(link).ip] = TRUE]
  /\ UNCHANGED <<conn, ofconn, root, edge>>

TNext ==
  \/ \E g \in GroupIPs :
       \/ EdgeCreates(g) \/ RootCreates(g)
       \/ \E request \in {"join", "leave"} :
            \/ \E port \in EdgePorts : EdgeReceives(g, request, port)
            \/ \E port \in RootPorts : RootReceives(g, request, port)
  \/ LinkDelivers
  \/ LinkLoses

\* The link forwards what it does not lose, while the root's agent lives.
TSpec == TInit /\ [][TNext]_tvars /\ WF_tvars(LinkDelivers)

-----------------------------------------------------------------------------
(* Properties *)

HasMembers(g) == ~Edge!NoMembers(g)

\* the root's switch sends copies of g's traffic down to the edge
Branch(g) ==
  \E b \in Root!CopiesMade(rdp, g) :
    b.out = Root!MemberIntf(Root!InIntf(LinkPort))

\* places on the link of the packets of g's receivers
InFlight(g) == { k \in 1..Len(link) : link[k].ip = g }

\* the last of them is at place k
LastInFlight(g, k) == k \in InFlight(g) /\ \A n \in InFlight(g) : n <= k

\* What the root does for the branch, or is about to be asked to do, is what
\* the edge needs: the last packet on the link is a join exactly if the edge
\* has members, and when none is left the root sends down the branch exactly if
\* the edge's switch has receivers to copy to, unless that last packet was
\* missed.  The edge asks on the first join and the last leave only
\* (MCApps.hh:345, 384) and never repeats itself (a member's second join
\* returns, 336), so one request too many or too few would put the branch out
\* of step for good; a missed one is made up for by the next.
BranchInStep ==
  \A g \in GroupIPs :
    /\ \A k \in 1..Len(link) : LastInFlight(g, k) =>
         (link[k].request = "join" <=> HasMembers(g))
    /\ InFlight(g) = {} /\ ~missed[g] =>
         (Branch(g) <=> Edge!CopiesMade(edp, g) # {})

\* A join below the edge reaches the source's switch and so does the last
\* leave, whatever the receivers of the root do in the meantime, unless the
\* packet is missed or an agent dies.
BranchFollows ==
  \A g \in GroupIPs :
    /\ HasMembers(g) ~>
         (Branch(g) \/ ~HasMembers(g) \/ missed[g] \/ rcrashed)
    /\ ~HasMembers(g) ~>
         (~Branch(g) \/ HasMembers(g) \/ missed[g] \/ rcrashed)

=============================================================================
