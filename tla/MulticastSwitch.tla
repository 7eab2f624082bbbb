-------------------------- MODULE MulticastSwitch --------------------------
(***************************************************************************)
(* The multicast agent and the switch of its bound connection, when the    *)
(* switch has processed every message of a handler before the agent runs   *)
(* the next one.  MulticastWire puts a connection between the two.         *)
(***************************************************************************)
EXTENDS MulticastApp

CONSTANT HonoursOutPort   \* BOOLEAN: the switch filters deletions by out_port

VARIABLE dp               \* the datapath of the bound connection's switch

Switch == INSTANCE OpenFlowSwitch

\* The datapath after a batch of messages.  No handler sends more than three.
AfterBatch(d, ms) ==
  LET d1 == IF Len(ms) >= 1 THEN Switch!Apply(d, ms[1]) ELSE d
      d2 == IF Len(ms) >= 2 THEN Switch!Apply(d1, ms[2]) ELSE d1
  IN  IF Len(ms) >= 3 THEN Switch!Apply(d2, ms[3]) ELSE d2

SwInit == Init /\ dp = Switch!EmptyDatapath

SwNext == Next /\ dp' = AfterBatch(dp, out')

swvars == <<vars, dp>>

SwSpec == SwInit /\ [][SwNext]_swvars

-----------------------------------------------------------------------------
(* Properties *)

\* g's group is in the switch: always on a root, else while it has members
Installed(g) == store[g] # NULL /\ (store[g].is_root \/ ~NoMembers(g))

\* the switch still listens to the agent
Attached == ofconn \in Conns /\ conn[ofconn] = "up"

\* what a session has in switch d while the agent is attached
InSwitch(d, g) ==
  LET s == store[g]
  IN  IF Installed(g)
      THEN /\ d.groups[s.groupid] = buckets[g]
           /\ DownstreamFlow(g, s) \in d.flows
      ELSE d.groups[s.groupid] = NULL

\* The switch forwards exactly what the agent has recorded: the group of every
\* session holds the buckets of its members, the downstream flow is there if
\* and only if the group is, and there is nothing else.  This rests on each
\* handler's choice between OFPGC_ADD, MODIFY and DELETE (MCApps.hh:343, 383)
\* and survives a switch that deletes no flow because of out_port(0)
\* (MCGroup.cc:100), since deleting the group deletes the flow.
DatapathMirrors ==
  Attached =>
    /\ \A g \in GroupIPs : store[g] # NULL => InSwitch(dp, g)
    /\ \A f \in dp.flows :
         /\ store[f.ip] # NULL /\ Installed(f.ip)
         /\ f = DownstreamFlow(f.ip, store[f.ip])
    /\ \A id \in 0..MaxGroupId : dp.groups[id] # NULL =>
         \E g \in GroupIPs : store[g] # NULL /\ store[g].groupid = id

\* The switch never answers a message of the agent with an error: no group is
\* added twice, none is modified that is not there, no flow points at a group
\* that is not there.  The agent does not listen for errors and would not
\* notice.
NothingRefused == ~dp.refused

\* The upstream switch is told of a join when the first member of a non-root
\* group arrives and of a leave when the last one goes, so what it was last
\* told is whether the group has members (MCApps.hh:343-346, 383-390).
UpstreamTracksMembership ==
  Attached => \A g \in GroupIPs :
    store[g] # NULL /\ ~store[g].is_root =>
      (dp.upstream[g] = "join" <=> ~NoMembers(g))

\* Once the bound connection is down nothing the agent does reaches a switch
\* again, not even over a new connection of the same switch: the agent never
\* binds twice (MCApps.hh:137) and listens to no other connection (151).
FrozenAfterDisconnect ==
  [][(ofconn \in Conns /\ conn[ofconn] = "down") =>
       UNCHANGED <<ofconn, dp, members, buckets>>]_swvars

-----------------------------------------------------------------------------
(* The service the agent implements *)

\* the copies the switch makes of a packet of source g: it matches the
\* downstream flow, the flow applies the group, the group its buckets
CopiesMade(d, g) ==
  UNION { Range(d.groups[f.group]) :
            f \in { e \in d.flows : e.ip = g /\ d.groups[e.group] # NULL } }

Service == INSTANCE MulticastService WITH
             Copies <- Bucket,
             opened <- dp.hooks,
             copies <- [g \in GroupIPs |-> CopiesMade(dp, g)]

\* some copy of g leaves the switch by interface i
Reaches(d, g, i) == \E b \in CopiesMade(d, g) : b.out = MemberIntf(i)

\* the step handles a packet of interface i that asks g's session for this
\* (1 is a join, 2 a leave)
Asks(g, i, request) ==
  /\ store[g] # NULL
  /\ \E c \in Conns, us, ud \in UdpPorts, port \in InPorts, h \in Hosts :
       /\ InIntf(port) = i
       /\ Mflag(store[g], us, ud) = request
       /\ UDPPacketIn(c, g, us, ud, port, h)

\* a step serves whom it was not serving because of a join of theirs, and
\* stops because of a leave of theirs
OnlyForAsker(g, i) ==
  /\ ~Reaches(dp, g, i) /\ Reaches(dp', g, i) => Asks(g, i, 1)
  /\ Reaches(dp, g, i) /\ ~Reaches(dp', g, i) => Asks(g, i, 2)

\* Agent and switch together implement the multicast service: each handler
\* adds or removes at most one copy, of an opened source, and the receiver
\* that gains or loses it is the one whose packet the handler is handling,
\* for the session the packet names: what a join or a leave asks for is never
\* done to another session or to another receiver's interface.
ImplementsService ==
  /\ Service!SSpec
  /\ [][\A g \in GroupIPs, i \in Intfs : OnlyForAsker(g, i)]_swvars

=============================================================================
