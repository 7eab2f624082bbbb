------------------------- MODULE MulticastTreeProofs -------------------------
(***************************************************************************)
(* Two agents in a distribution tree stay in step (BranchInStep).  The     *)
(* invariant is TreeInv: either agent satisfies what MulticastSwitchProofs *)
(* proves of every agent, the sessions are those the network controller    *)
(* asks for, and of every group the last packet on the link, or the root's *)
(* member behind the link once there is none, is what the edge has become. *)
(*                                                                         *)
(* MulticastTree has its agents as the instances Root and Edge of          *)
(* MulticastSwitch.  The theorems about an agent come with the instances   *)
(* RootAgent and EdgeAgent of their module, so the first lemmas say that   *)
(* the handlers of the two are the same.                                   *)
(***************************************************************************)
EXTENDS MulticastTree, TLAPS

RootAgent == INSTANCE MulticastSwitchProofs WITH
  Conns <- {Agent}, Hosts <- {Host}, DestIPs <- {DestIP},
  InPorts <- RootPorts \cup {LinkPort}, UdpPorts <- {SPort, DPort},
  MaxGroupId <- MaxRootId,
  store <- rstore, members <- rmembers, buckets <- rbuckets,
  groupmod <- rgroupmod, OFMsgGroupIdGen <- rgen, out <- rout,
  crashed <- rcrashed, dp <- rdp, wire <- <<>>

EdgeAgent == INSTANCE MulticastSwitchProofs WITH
  Conns <- {Agent}, Hosts <- {Host}, DestIPs <- {DestIP},
  InPorts <- EdgePorts, UdpPorts <- {SPort, DPort}, MaxGroupId <- MaxEdgeId,
  store <- estore, members <- emembers, buckets <- ebuckets,
  groupmod <- egroupmod, OFMsgGroupIdGen <- egen, out <- eout,
  crashed <- ecrashed, dp <- edp, wire <- <<>>

-----------------------------------------------------------------------------
(* One agent, two instances *)

\* What is assumed of the root is what is proved about an agent assumes.
LEMMA RootAssumptions ==
  /\ RootAgent!PortsAssumption /\ RootAgent!BoundAssumption
  /\ RootAgent!NullAssumption
  BY TreeAssumption
     DEF Root!PortsAssumption, RootAgent!PortsAssumption, Root!BoundAssumption,
         RootAgent!BoundAssumption, Root!NullAssumption, RootAgent!NullAssumption,
         Root!Session, RootAgent!Session, Root!Member, RootAgent!Member,
         Root!Bucket, RootAgent!Bucket, Root!Intfs, RootAgent!Intfs,
         Root!MemberIntf, RootAgent!MemberIntf, Root!InIntf, RootAgent!InIntf

\* The root's switch does the same to a message in both instances.
LEMMA RootMessages ==
  \A d, m : Root!Switch!Apply(d, m) = RootAgent!Switch!Apply(d, m)
  BY DEF Root!Switch!Apply, RootAgent!Switch!Apply, Root!Switch!AddFlow,
         RootAgent!Switch!AddFlow, Root!Switch!DeleteFlow,
         RootAgent!Switch!DeleteFlow, Root!Switch!AddGroup,
         RootAgent!Switch!AddGroup, Root!Switch!ModifyGroup,
         RootAgent!Switch!ModifyGroup, Root!Switch!DeleteGroup,
         RootAgent!Switch!DeleteGroup, Root!Switch!Refuse, RootAgent!Switch!Refuse,
         Root!Switch!SameMatch, RootAgent!Switch!SameMatch

\* ... and to the messages of a handler.
LEMMA RootBatch == \A d, m : Root!AfterBatch(d, m) = RootAgent!AfterBatch(d, m)
  BY RootMessages DEF Root!AfterBatch, RootAgent!AfterBatch

\* Removing a member of a group of the root (MCGroup.cc:59) is one action.
LEMMA RootRemoves ==
  \A g, i : Root!RemoveMember(g, i) => RootAgent!RemoveMember(g, i)
<1>1. \A ms, i : Root!Reindexed(ms, i) = RootAgent!Reindexed(ms, i)
  BY DEF Root!Reindexed, RootAgent!Reindexed, Root!Intfs, RootAgent!Intfs,
         Root!InIntf, RootAgent!InIntf
<1>2. \A bs, i : Root!WithoutBucket(bs, i) = RootAgent!WithoutBucket(bs, i)
  BY DEF Root!WithoutBucket, RootAgent!WithoutBucket, Root!RemoveAt, RootAgent!RemoveAt
<1> QED
  BY <1>1, <1>2 DEF Root!RemoveMember, RootAgent!RemoveMember

\* ... a join (MCApps.hh:327),
LEMMA RootJoins == \A g, i, h : Root!Join(g, i, h) => RootAgent!Join(g, i, h)
  BY DEF Root!Join, RootAgent!Join, Root!IsMember, RootAgent!IsMember,
         Root!IsFirst, RootAgent!IsFirst, Root!NoMembers, RootAgent!NoMembers,
         Root!Intfs, RootAgent!Intfs, Root!InIntf, RootAgent!InIntf,
         Root!AddMember, RootAgent!AddMember, Root!BucketOf, RootAgent!BucketOf,
         Root!MemberIntf, RootAgent!MemberIntf, Root!Send, RootAgent!Send,
         Root!InstallMessages, RootAgent!InstallMessages, Root!RemoveMessages,
         RootAgent!RemoveMessages, Root!PacketOut, RootAgent!PacketOut,
         Root!GroupMod, RootAgent!GroupMod, Root!FlowMod, RootAgent!FlowMod,
         Root!DownstreamFlow, RootAgent!DownstreamFlow

\* ... a leave (MCApps.hh:368),
LEMMA RootLeaves == \A g, i : Root!Leave(g, i) => RootAgent!Leave(g, i)
  BY RootRemoves
     DEF Root!Leave, RootAgent!Leave, Root!IsMember, RootAgent!IsMember,
         Root!IsLast, RootAgent!IsLast, Root!Intfs, RootAgent!Intfs, Root!InIntf,
         RootAgent!InIntf, Root!Send, RootAgent!Send, Root!InstallMessages,
         RootAgent!InstallMessages, Root!RemoveMessages, RootAgent!RemoveMessages,
         Root!PacketOut, RootAgent!PacketOut, Root!GroupMod, RootAgent!GroupMod,
         Root!FlowMod, RootAgent!FlowMod, Root!DownstreamFlow,
         RootAgent!DownstreamFlow

\* ... the handler of a packet (MCApps.hh:231)
LEMMA RootPackets ==
  \A c, ip, us, ud, port, h :
    Root!UDPPacketIn(c, ip, us, ud, port, h)
      => RootAgent!UDPPacketIn(c, ip, us, ud, port, h)
  BY RootJoins, RootLeaves
     DEF Root!UDPPacketIn, RootAgent!UDPPacketIn, Root!Running, RootAgent!Running,
         Root!DrawGroupId, RootAgent!DrawGroupId, Root!NextGroupId,
         RootAgent!NextGroupId, Root!Mflag, RootAgent!Mflag, Root!InIntf,
         RootAgent!InIntf, Root!state, RootAgent!state

\* ... and the creation of a group (MCApps.hh:292).
LEMMA RootGroups ==
  \A sip, dip, sport, dport, is_root :
    Root!CreateGroup(sip, dip, sport, dport, is_root)
      => RootAgent!CreateGroup(sip, dip, sport, dport, is_root)
  BY DEF Root!CreateGroup, RootAgent!CreateGroup, Root!Running, RootAgent!Running,
         Root!DrawGroupId, RootAgent!DrawGroupId, Root!NextGroupId,
         RootAgent!NextGroupId, Root!LooksClassD, RootAgent!LooksClassD, Root!Send,
         RootAgent!Send, Root!GroupMod, RootAgent!GroupMod, Root!FlowMod,
         RootAgent!FlowMod, Root!DownstreamFlow, RootAgent!DownstreamFlow,
         Root!HookFlowMod, RootAgent!HookFlowMod

\* The root's switch makes the same copies in both instances.
LEMMA RootCopies == \A d, g : Root!CopiesMade(d, g) = RootAgent!CopiesMade(d, g)
  BY DEF Root!CopiesMade, RootAgent!CopiesMade, Root!Range, RootAgent!Range

\* What is assumed of the edge is what is proved about an agent assumes.
LEMMA EdgeAssumptions ==
  /\ EdgeAgent!PortsAssumption /\ EdgeAgent!BoundAssumption
  /\ EdgeAgent!NullAssumption
  BY TreeAssumption
     DEF Edge!PortsAssumption, EdgeAgent!PortsAssumption, Edge!BoundAssumption,
         EdgeAgent!BoundAssumption, Edge!NullAssumption, EdgeAgent!NullAssumption,
         Edge!Session, EdgeAgent!Session, Edge!Member, EdgeAgent!Member,
         Edge!Bucket, EdgeAgent!Bucket, Edge!Intfs, EdgeAgent!Intfs,
         Edge!MemberIntf, EdgeAgent!MemberIntf, Edge!InIntf, EdgeAgent!InIntf

\* The edge's switch does the same to a message in both instances.
LEMMA EdgeMessages ==
  \A d, m : Edge!Switch!Apply(d, m) = EdgeAgent!Switch!Apply(d, m)
  BY DEF Edge!Switch!Apply, EdgeAgent!Switch!Apply, Edge!Switch!AddFlow,
         EdgeAgent!Switch!AddFlow, Edge!Switch!DeleteFlow,
         EdgeAgent!Switch!DeleteFlow, Edge!Switch!AddGroup,
         EdgeAgent!Switch!AddGroup, Edge!Switch!ModifyGroup,
         EdgeAgent!Switch!ModifyGroup, Edge!Switch!DeleteGroup,
         EdgeAgent!Switch!DeleteGroup, Edge!Switch!Refuse, EdgeAgent!Switch!Refuse,
         Edge!Switch!SameMatch, EdgeAgent!Switch!SameMatch

\* ... and to the messages of a handler.
LEMMA EdgeBatch == \A d, m : Edge!AfterBatch(d, m) = EdgeAgent!AfterBatch(d, m)
  BY EdgeMessages DEF Edge!AfterBatch, EdgeAgent!AfterBatch

\* Removing a member of a group of the edge (MCGroup.cc:59) is one action.
LEMMA EdgeRemoves ==
  \A g, i : Edge!RemoveMember(g, i) => EdgeAgent!RemoveMember(g, i)
<1>1. \A ms, i : Edge!Reindexed(ms, i) = EdgeAgent!Reindexed(ms, i)
  BY DEF Edge!Reindexed, EdgeAgent!Reindexed, Edge!Intfs, EdgeAgent!Intfs,
         Edge!InIntf, EdgeAgent!InIntf
<1>2. \A bs, i : Edge!WithoutBucket(bs, i) = EdgeAgent!WithoutBucket(bs, i)
  BY DEF Edge!WithoutBucket, EdgeAgent!WithoutBucket, Edge!RemoveAt, EdgeAgent!RemoveAt
<1> QED
  BY <1>1, <1>2 DEF Edge!RemoveMember, EdgeAgent!RemoveMember

\* ... a join (MCApps.hh:327),
LEMMA EdgeJoins == \A g, i, h : Edge!Join(g, i, h) => EdgeAgent!Join(g, i, h)
  BY DEF Edge!Join, EdgeAgent!Join, Edge!IsMember, EdgeAgent!IsMember,
         Edge!IsFirst, EdgeAgent!IsFirst, Edge!NoMembers, EdgeAgent!NoMembers,
         Edge!Intfs, EdgeAgent!Intfs, Edge!InIntf, EdgeAgent!InIntf,
         Edge!AddMember, EdgeAgent!AddMember, Edge!BucketOf, EdgeAgent!BucketOf,
         Edge!MemberIntf, EdgeAgent!MemberIntf, Edge!Send, EdgeAgent!Send,
         Edge!InstallMessages, EdgeAgent!InstallMessages, Edge!RemoveMessages,
         EdgeAgent!RemoveMessages, Edge!PacketOut, EdgeAgent!PacketOut,
         Edge!GroupMod, EdgeAgent!GroupMod, Edge!FlowMod, EdgeAgent!FlowMod,
         Edge!DownstreamFlow, EdgeAgent!DownstreamFlow

\* ... a leave (MCApps.hh:368),
LEMMA EdgeLeaves == \A g, i : Edge!Leave(g, i) => EdgeAgent!Leave(g, i)
  BY EdgeRemoves
     DEF Edge!Leave, EdgeAgent!Leave, Edge!IsMember, EdgeAgent!IsMember,
         Edge!IsLast, EdgeAgent!IsLast, Edge!Intfs, EdgeAgent!Intfs, Edge!InIntf,
         EdgeAgent!InIntf, Edge!Send, EdgeAgent!Send, Edge!InstallMessages,
         EdgeAgent!InstallMessages, Edge!RemoveMessages, EdgeAgent!RemoveMessages,
         Edge!PacketOut, EdgeAgent!PacketOut, Edge!GroupMod, EdgeAgent!GroupMod,
         Edge!FlowMod, EdgeAgent!FlowMod, Edge!DownstreamFlow,
         EdgeAgent!DownstreamFlow

\* ... the handler of a packet (MCApps.hh:231)
LEMMA EdgePackets ==
  \A c, ip, us, ud, port, h :
    Edge!UDPPacketIn(c, ip, us, ud, port, h)
      => EdgeAgent!UDPPacketIn(c, ip, us, ud, port, h)
  BY EdgeJoins, EdgeLeaves
     DEF Edge!UDPPacketIn, EdgeAgent!UDPPacketIn, Edge!Running, EdgeAgent!Running,
         Edge!DrawGroupId, EdgeAgent!DrawGroupId, Edge!NextGroupId,
         EdgeAgent!NextGroupId, Edge!Mflag, EdgeAgent!Mflag, Edge!InIntf,
         EdgeAgent!InIntf, Edge!state, EdgeAgent!state

\* ... and the creation of a group (MCApps.hh:292).
LEMMA EdgeGroups ==
  \A sip, dip, sport, dport, is_root :
    Edge!CreateGroup(sip, dip, sport, dport, is_root)
      => EdgeAgent!CreateGroup(sip, dip, sport, dport, is_root)
  BY DEF Edge!CreateGroup, EdgeAgent!CreateGroup, Edge!Running, EdgeAgent!Running,
         Edge!DrawGroupId, EdgeAgent!DrawGroupId, Edge!NextGroupId,
         EdgeAgent!NextGroupId, Edge!LooksClassD, EdgeAgent!LooksClassD, Edge!Send,
         EdgeAgent!Send, Edge!GroupMod, EdgeAgent!GroupMod, Edge!FlowMod,
         EdgeAgent!FlowMod, Edge!DownstreamFlow, EdgeAgent!DownstreamFlow,
         Edge!HookFlowMod, EdgeAgent!HookFlowMod

\* The edge's switch makes the same copies in both instances.
LEMMA EdgeCopies == \A d, g : Edge!CopiesMade(d, g) = EdgeAgent!CopiesMade(d, g)
  BY DEF Edge!CopiesMade, EdgeAgent!CopiesMade, Edge!Range, EdgeAgent!Range

-----------------------------------------------------------------------------
(* The invariant *)

\* Interfaces in use differ in 8 bits, at either agent.
TreeIntfsDistinct == RootAgent!IntfsDistinct /\ EdgeAgent!IntfsDistinct

\* the port of the link is told from the ports of the root's receivers
LinkApart ==
  \A p \in RootPorts : RootAgent!InIntf(p) # RootAgent!InIntf(LinkPort)

\* the edge is a member of g at the root
BranchMember(g) == RootAgent!IsMember(g, RootAgent!InIntf(LinkPort))

\* the sessions the network controller asks for
RootSession(s) == s.sport = SPort /\ s.dport = DPort
EdgeSession(s) == ~s.is_root

SessionsInv ==
  \A g \in GroupIPs :
    /\ rstore[g] # NULL => RootSession(rstore[g])
    /\ estore[g] # NULL => EdgeSession(estore[g])

AgentsInv ==
  /\ conn = [c \in {Agent} |-> "up"] /\ ofconn = Agent
  /\ RootAgent!ServiceInv(rdp)
  /\ EdgeAgent!ServiceInv(edp)

Requests == [type : {"packet_out"}, ip : GroupIPs, request : {"join", "leave"}]

LinkInv == link \in Seq(Requests) /\ missed \in [GroupIPs -> BOOLEAN]

\* What the root does for the edge, or will do when it has what is on the link.
InStep(g) ==
  /\ \A k \in 1..Len(link) : LastInFlight(g, k) =>
       (link[k].request = "join" <=> ~EdgeAgent!NoMembers(g))
  /\ InFlight(g) = {} /\ ~missed[g] =>
       (BranchMember(g) <=> ~EdgeAgent!NoMembers(g))

TreeInv == AgentsInv /\ SessionsInv /\ LinkInv /\ \A g \in GroupIPs : InStep(g)

-----------------------------------------------------------------------------
(* The link *)

\* A packet put on the link is the last of its group's; other groups' packets
\* stay where they are.
LEMMA PutOnLink ==
  ASSUME link \in Seq(Requests), NEW p \in Requests, link' = link \o <<p>>,
         NEW g \in GroupIPs
  PROVE  /\ link' \in Seq(Requests)
         /\ g = p.ip =>
              \A k \in 1..Len(link') : LastInFlight(g, k)' => link'[k] = p
         /\ g = p.ip => InFlight(g)' # {}
         /\ g # p.ip => /\ \A k \in 1..Len(link') : LastInFlight(g, k)' =>
                             k \in 1..Len(link) /\ LastInFlight(g, k)
                             /\ link'[k] = link[k]
                        /\ InFlight(g)' = {} => InFlight(g) = {}
<1>1. PICK n \in Nat : n = Len(link)
  OBVIOUS
<1>2. /\ Len(link') = n + 1 /\ link' \in Seq(Requests)
      /\ link'[n + 1] = p
      /\ \A k \in 1..n : link'[k] = link[k]
  BY <1>1
<1>3. \A k : k \in InFlight(g) <=> k \in 1..n /\ link[k].ip = g
  BY <1>1 DEF InFlight
<1>4. \A k : k \in InFlight(g)' <=> k \in 1..(n + 1) /\ link'[k].ip = g
  BY <1>2 DEF InFlight
<1>5. CASE g = p.ip
  <2>1. n + 1 \in InFlight(g)'
    BY <1>2, <1>4, <1>5
  <2>2. ASSUME NEW k \in 1..Len(link'), LastInFlight(g, k)'
        PROVE  k = n + 1
    <3>1. k \in 1..(n + 1) /\ n + 1 <= k
      BY <1>2, <2>1, <2>2 DEF LastInFlight
    <3> QED
      BY <3>1
  <2> QED
    BY <1>2, <1>5, <2>1, <2>2
<1>6. CASE g # p.ip
  <2>1. InFlight(g)' = InFlight(g)
    <3>1. \A k \in 1..n : k \in InFlight(g)' <=> k \in InFlight(g)
      BY <1>2, <1>3, <1>4
    <3>2. n + 1 \notin InFlight(g)'
      BY <1>2, <1>4, <1>6
    <3>3. \A k : k \in InFlight(g)' => k \in 1..n \/ k = n + 1
      BY <1>4
    <3>4. \A k : k \in InFlight(g)' <=> k \in InFlight(g)
      BY <1>3, <3>1, <3>2, <3>3
    <3> QED
      BY <3>4 DEF InFlight
  <2>2. \A k : LastInFlight(g, k)' => LastInFlight(g, k) /\ k \in 1..n
    BY <1>3, <2>1 DEF LastInFlight
  <2> QED
    BY <1>1, <1>2, <1>6, <2>1, <2>2
<1> QED
  BY <1>5, <1>6

\* Taking the oldest packet off leaves the others in their order.
LEMMA TakeOffLink ==
  ASSUME link \in Seq(Requests), link # <<>>, link' = Tail(link), NEW g \in GroupIPs
  PROVE  /\ link' \in Seq(Requests) /\ Head(link) \in Requests
         /\ 1 \in 1..Len(link) /\ link[1] = Head(link)
         /\ \A k \in 1..Len(link') : LastInFlight(g, k)' =>
              /\ k + 1 \in 1..Len(link) /\ LastInFlight(g, k + 1)
              /\ link'[k] = link[k + 1]
         /\ InFlight(g)' = {} =>
              IF Head(link).ip = g THEN LastInFlight(g, 1) ELSE InFlight(g) = {}
<1>1. PICK n \in Nat : n + 1 = Len(link)
  <2>1. Len(link) \in Nat /\ Len(link) # 0
    OBVIOUS
  <2>2. Len(link) - 1 \in Nat /\ (Len(link) - 1) + 1 = Len(link)
    BY <2>1
  <2> QED
    BY <2>2, Zenon
<1>2. /\ Len(link') = n /\ link' \in Seq(Requests)
      /\ Head(link) = link[1] /\ Head(link) \in Requests
      /\ \A k \in 1..n : link'[k] = link[k + 1]
  BY <1>1
<1>3. \A k : k \in InFlight(g) <=> k \in 1..(n + 1) /\ link[k].ip = g
  BY <1>1 DEF InFlight
<1>4. \A k : k \in InFlight(g)' <=> k \in 1..n /\ link'[k].ip = g
  BY <1>2 DEF InFlight
<1>5. \A k \in 1..n : k \in InFlight(g)' <=> k + 1 \in InFlight(g)
  BY <1>2, <1>3, <1>4
<1>6. \A k \in InFlight(g) : k = 1 \/ (k - 1 \in 1..n /\ (k - 1) + 1 = k)
  BY <1>3
<1>7. \A k \in InFlight(g) : k = 1 \/ k - 1 \in InFlight(g)'
  BY <1>5, <1>6
<1>8. ASSUME NEW k \in 1..Len(link'), LastInFlight(g, k)'
      PROVE  /\ k + 1 \in 1..Len(link) /\ LastInFlight(g, k + 1)
             /\ link'[k] = link[k + 1]
  <2>1. k \in 1..n /\ k \in InFlight(g)' /\ \A x \in InFlight(g)' : x <= k
    BY <1>2, <1>8 DEF LastInFlight
  <2>2. k + 1 \in InFlight(g) /\ k + 1 \in 1..(n + 1)
    BY <1>5, <2>1
  <2>3. \A x \in InFlight(g) : x <= k + 1
    <3> SUFFICES ASSUME NEW x \in InFlight(g) PROVE x <= k + 1
      OBVIOUS
    <3>1. CASE x = 1
      BY <2>1, <3>1
    <3>2. CASE x - 1 \in InFlight(g)'
      <4>1. x - 1 <= k /\ x \in 1..(n + 1)
        BY <1>3, <2>1, <3>2
      <4> QED
        BY <2>1, <4>1
    <3> QED
      BY <1>7, <3>1, <3>2
  <2> QED
    BY <1>1, <1>2, <2>1, <2>2, <2>3 DEF LastInFlight
<1>9. ASSUME InFlight(g)' = {}
      PROVE  IF Head(link).ip = g THEN LastInFlight(g, 1) ELSE InFlight(g) = {}
  <2>1. \A k \in InFlight(g) : k = 1
    BY <1>7, <1>9
  <2>2. 1 \in InFlight(g) <=> Head(link).ip = g
    BY <1>2, <1>3
  <2> QED
    BY <2>1, <2>2 DEF LastInFlight
<1>10. 1 \in 1..Len(link)
  BY <1>1
<1> QED
  BY <1>2, <1>8, <1>9, <1>10

-----------------------------------------------------------------------------
(* The handlers of either agent *)

\* An agent that does nothing stays as it is.
LEMMA RootRests ==
  ASSUME MaxRootId < IdSpace, RootAgent!IntfsDistinct,
         RootAgent!ServiceInv(rdp), UNCHANGED <<conn, ofconn, root>>
  PROVE  /\ RootAgent!ServiceInv(rdp)' /\ rstore' = rstore
         /\ \A g : BranchMember(g)' <=> BranchMember(g)
<1>1. UNCHANGED RootAgent!swvars
  BY DEF root, RootAgent!swvars, RootAgent!vars, RootAgent!state
<1>2. RootAgent!ServiceInv(rdp)'
  BY <1>1, RootAgent!ServiceStep, RootAssumptions
<1> QED
  BY <1>2 DEF root, BranchMember, RootAgent!IsMember

\* ... at the edge.
LEMMA EdgeRests ==
  ASSUME MaxEdgeId < IdSpace, EdgeAgent!IntfsDistinct,
         EdgeAgent!ServiceInv(edp), UNCHANGED <<conn, ofconn, edge>>
  PROVE  /\ EdgeAgent!ServiceInv(edp)' /\ estore' = estore
         /\ \A g : EdgeAgent!NoMembers(g)' <=> EdgeAgent!NoMembers(g)
<1>1. UNCHANGED EdgeAgent!swvars
  BY DEF edge, EdgeAgent!swvars, EdgeAgent!vars, EdgeAgent!state
<1>2. EdgeAgent!ServiceInv(edp)'
  BY <1>1, EdgeAgent!ServiceStep, EdgeAssumptions
<1> QED
  BY <1>2 DEF edge, EdgeAgent!NoMembers

\* A packet at the root, from a receiver or from the edge.
LEMMA RootPacket ==
  ASSUME MaxRootId < IdSpace, RootAgent!IntfsDistinct, AgentsInv, SessionsInv,
         NEW g \in GroupIPs, NEW request \in {"join", "leave"},
         NEW port \in RootPorts \cup {LinkPort},
         Root!UDPPacketIn(Agent, g, Us(request), Ud(request), port, Host),
         rdp' = Root!AfterBatch(rdp, rout')
  PROVE  /\ UNCHANGED <<conn, ofconn, rstore>>
         /\ RootAgent!ServiceInv(rdp)'
         /\ \A h \in GroupIPs, j \in RootAgent!Intfs :
              RootAgent!IsMember(h, j)' <=>
                IF h = g /\ j = RootAgent!InIntf(port) /\ rstore[g] # NULL
                THEN request = "join" ELSE RootAgent!IsMember(h, j)
<1> DEFINE us == Us(request)
           ud == Ud(request)
<1>1. RootAgent!UDPPacketIn(Agent, g, us, ud, port, Host)
  BY RootPackets
<1>2. us \in {SPort, DPort} /\ ud \in {SPort, DPort}
  BY DEF Us, Ud
<1> HIDE DEF us, ud
<1>3. RootAgent!SwNext
  <2>1. RootAgent!Next
    BY <1>1, <1>2 DEF RootAgent!Next
  <2> QED
    BY <2>1, RootBatch DEF RootAgent!SwNext
<1>4. RootAgent!ServiceInv(rdp)'
  BY <1>3, RootAgent!ServiceStep, RootAssumptions DEF AgentsInv
<1>5. RootAgent!TypeOK
  BY DEF AgentsInv, RootAgent!ServiceInv, RootAgent!SwInv, RootAgent!AgentInv
<1>6. /\ rstore' = rstore
      /\ \/ /\ rstore[g] # NULL /\ RootAgent!Mflag(rstore[g], us, ud) = 1
            /\ RootAgent!Admits(g, RootAgent!InIntf(port))
         \/ /\ rstore[g] # NULL /\ RootAgent!Mflag(rstore[g], us, ud) = 2
            /\ RootAgent!Dismisses(g, RootAgent!InIntf(port))
         \/ /\ rstore[g] = NULL \/ RootAgent!Mflag(rstore[g], us, ud) = 0
            /\ UNCHANGED rmembers
  BY <1>1, <1>5, RootAgent!PacketAsks, RootAssumptions
<1>7. PICK asked : asked = RootAgent!Mflag(rstore[g], us, ud)
  OBVIOUS
<1>8. rstore[g] # NULL => IF request = "join" THEN asked = 1 ELSE asked = 2
  BY <1>7, TreeAssumption
     DEF SessionsInv, RootSession, RootAgent!Mflag, Us, Ud, us, ud
<1>9. \A h \in GroupIPs, j \in RootAgent!Intfs :
        RootAgent!IsMember(h, j)' <=>
          IF h = g /\ j = RootAgent!InIntf(port) /\ rstore[g] # NULL
          THEN request = "join" ELSE RootAgent!IsMember(h, j)
  <2>1. CASE rstore[g] = NULL
    BY <1>6, <2>1 DEF RootAgent!IsMember
  <2>2. CASE rstore[g] # NULL /\ request = "join"
    <3>1. RootAgent!Admits(g, RootAgent!InIntf(port))
      BY <1>6, <1>7, <1>8, <2>2
    <3> QED
      BY <2>2, <3>1 DEF RootAgent!Admits, RootAgent!IsMember
  <2>3. CASE rstore[g] # NULL /\ request # "join"
    <3>1. RootAgent!Dismisses(g, RootAgent!InIntf(port))
      BY <1>6, <1>7, <1>8, <2>3
    <3> QED
      BY <2>3, <3>1 DEF RootAgent!Dismisses, RootAgent!IsMember
  <2> QED
    BY <2>1, <2>2, <2>3
<1>10. UNCHANGED <<conn, ofconn>>
  BY <1>1 DEF RootAgent!UDPPacketIn
<1> QED
  BY <1>4, <1>6, <1>9, <1>10

\* A packet at the edge, which asks the root for what it has made of the group.
LEMMA EdgePacket ==
  ASSUME MaxEdgeId < IdSpace, EdgeAgent!IntfsDistinct, AgentsInv, SessionsInv,
         NEW g \in GroupIPs, NEW request \in {"join", "leave"},
         NEW port \in EdgePorts,
         Edge!UDPPacketIn(Agent, g, Us(request), Ud(request), port, Host),
         edp' = Edge!AfterBatch(edp, eout')
  PROVE  /\ UNCHANGED <<conn, ofconn, estore>>
         /\ EdgeAgent!ServiceInv(edp)'
         /\ \A h \in GroupIPs : h # g =>
              (EdgeAgent!NoMembers(h)' <=> EdgeAgent!NoMembers(h))
         /\ \/ /\ Upstream(eout') = <<>>
               /\ EdgeAgent!NoMembers(g)' <=> EdgeAgent!NoMembers(g)
            \/ \E p \in Requests :
                 /\ Upstream(eout') = <<p>> /\ p.ip = g
                 /\ p.request = "join" <=> ~EdgeAgent!NoMembers(g)'
<1> DEFINE us == Us(request)
           ud == Ud(request)
<1>1. EdgeAgent!UDPPacketIn(Agent, g, us, ud, port, Host)
  BY EdgePackets
<1>2. us \in {SPort, DPort} /\ ud \in {SPort, DPort}
  BY DEF Us, Ud
<1> HIDE DEF us, ud
<1>3. EdgeAgent!SwNext
  <2>1. EdgeAgent!Next
    BY <1>1, <1>2 DEF EdgeAgent!Next
  <2> QED
    BY <2>1, EdgeBatch DEF EdgeAgent!SwNext
<1>4. EdgeAgent!ServiceInv(edp)'
  BY <1>3, EdgeAgent!ServiceStep, EdgeAssumptions DEF AgentsInv
<1>5. EdgeAgent!TypeOK
  BY DEF AgentsInv, EdgeAgent!ServiceInv, EdgeAgent!SwInv, EdgeAgent!AgentInv
<1>6. /\ estore' = estore /\ EdgeAgent!AsksWhatIs(g)
      /\ \/ EdgeAgent!Admits(g, EdgeAgent!InIntf(port))
         \/ EdgeAgent!Dismisses(g, EdgeAgent!InIntf(port))
         \/ UNCHANGED emembers
  BY <1>1, <1>5, EdgeAgent!PacketAsks, EdgeAssumptions
<1>7. ASSUME NEW h \in GroupIPs, h # g
      PROVE  EdgeAgent!NoMembers(h)' <=> EdgeAgent!NoMembers(h)
  BY <1>6, <1>7
     DEF EdgeAgent!Admits, EdgeAgent!Dismisses, EdgeAgent!NoMembers,
         EdgeAgent!IsMember
<1>8. estore[g] = NULL \/ ~estore[g].is_root
  BY DEF SessionsInv, EdgeSession
<1>9. CASE eout' # <<>> /\ Head(eout').type = "packet_out"
  <2>1. PICK p : p = Head(eout')
    OBVIOUS
  <2>2. \/ p = EdgeAgent!PacketOut(g, "join") /\ ~EdgeAgent!NoMembers(g)'
        \/ p = EdgeAgent!PacketOut(g, "leave") /\ EdgeAgent!NoMembers(g)'
    BY <1>6, <1>9, <2>1 DEF EdgeAgent!AsksWhatIs
  <2>3. /\ p \in Requests /\ p.ip = g
        /\ p.request = "join" <=> ~EdgeAgent!NoMembers(g)'
    BY <2>2 DEF EdgeAgent!PacketOut, Requests
  <2>4. Upstream(eout') = <<p>>
    BY <1>9, <2>1 DEF Upstream
  <2> QED
    BY <1>1, <1>4, <1>6, <1>7, <2>3, <2>4 DEF EdgeAgent!UDPPacketIn
<1>10. CASE ~(eout' # <<>> /\ Head(eout').type = "packet_out")
  <2>1. EdgeAgent!NoMembers(g)' <=> EdgeAgent!NoMembers(g)
    <3>1. CASE estore[g] = NULL
      BY <1>1, <3>1 DEF EdgeAgent!UDPPacketIn, EdgeAgent!state, EdgeAgent!NoMembers
    <3>2. CASE estore[g] # NULL
      BY <1>6, <1>8, <1>10, <3>2 DEF EdgeAgent!AsksWhatIs
    <3> QED
      BY <3>1, <3>2
  <2>2. Upstream(eout') = <<>>
    BY <1>10 DEF Upstream
  <2> QED
    BY <1>1, <1>4, <1>6, <1>7, <2>1, <2>2 DEF EdgeAgent!UDPPacketIn
<1> QED
  BY <1>9, <1>10

\* The creation of a group changes no membership.
LEMMA RootCreation ==
  ASSUME MaxRootId < IdSpace, RootAgent!IntfsDistinct, AgentsInv, SessionsInv,
         NEW g \in GroupIPs, RootCreates(g)
  PROVE  /\ UNCHANGED <<conn, ofconn>>
         /\ RootAgent!ServiceInv(rdp)'
         /\ \A h \in GroupIPs : rstore'[h] # NULL => RootSession(rstore'[h])
         /\ \A h : BranchMember(h)' <=> BranchMember(h)
<1>1. RootAgent!CreateGroup(g, DestIP, SPort, DPort, TRUE)
  BY RootGroups DEF RootCreates
<1>2. RootAgent!SwNext
  <2>1. RootAgent!Next
    BY <1>1 DEF RootAgent!Next
  <2> QED
    BY <2>1, RootBatch DEF RootAgent!SwNext, RootCreates
<1>3. RootAgent!ServiceInv(rdp)'
  BY <1>2, RootAgent!ServiceStep, RootAssumptions DEF AgentsInv
<1>4. RootAgent!TypeOK
  BY DEF AgentsInv, RootAgent!ServiceInv, RootAgent!SwInv, RootAgent!AgentInv
<1>5. ASSUME NEW h \in GroupIPs, rstore'[h] # NULL PROVE RootSession(rstore'[h])
  <2>1. \/ rstore'[h] = rstore[h]
        \/ rstore'[h].sport = SPort /\ rstore'[h].dport = DPort
    BY <1>1, <1>4 DEF RootAgent!CreateGroup, RootAgent!TypeOK
  <2> QED
    BY <1>5, <2>1 DEF SessionsInv, RootSession
<1> QED
  BY <1>1, <1>3, <1>5 DEF RootAgent!CreateGroup, BranchMember, RootAgent!IsMember

\* ... at the edge.
LEMMA EdgeCreation ==
  ASSUME MaxEdgeId < IdSpace, EdgeAgent!IntfsDistinct, AgentsInv, SessionsInv,
         NEW g \in GroupIPs, EdgeCreates(g)
  PROVE  /\ UNCHANGED <<conn, ofconn>>
         /\ EdgeAgent!ServiceInv(edp)'
         /\ \A h \in GroupIPs : estore'[h] # NULL => EdgeSession(estore'[h])
         /\ \A h : EdgeAgent!NoMembers(h)' <=> EdgeAgent!NoMembers(h)
<1>1. EdgeAgent!CreateGroup(g, DestIP, SPort, DPort, FALSE)
  BY EdgeGroups DEF EdgeCreates
<1>2. EdgeAgent!SwNext
  <2>1. EdgeAgent!Next
    BY <1>1 DEF EdgeAgent!Next
  <2> QED
    BY <2>1, EdgeBatch DEF EdgeAgent!SwNext, EdgeCreates
<1>3. EdgeAgent!ServiceInv(edp)'
  BY <1>2, EdgeAgent!ServiceStep, EdgeAssumptions DEF AgentsInv
<1>4. EdgeAgent!TypeOK
  BY DEF AgentsInv, EdgeAgent!ServiceInv, EdgeAgent!SwInv, EdgeAgent!AgentInv
<1>5. ASSUME NEW h \in GroupIPs, estore'[h] # NULL PROVE EdgeSession(estore'[h])
  <2>1. estore'[h] = estore[h] \/ ~estore'[h].is_root
    BY <1>1, <1>4 DEF EdgeAgent!CreateGroup, EdgeAgent!TypeOK
  <2> QED
    BY <1>5, <2>1 DEF SessionsInv, EdgeSession
<1> QED
  BY <1>1, <1>3, <1>5 DEF EdgeAgent!CreateGroup, EdgeAgent!NoMembers

-----------------------------------------------------------------------------
(* The tree *)

\* ports still differ in the 8 bits that a member keeps of them
PortsDistinct(ports) ==
  \A p, q \in ports :
    Root!MemberIntf(Root!InIntf(p)) = Root!MemberIntf(Root!InIntf(q)) => p = q

\* Ports that differ in 8 bits are interfaces that differ, and none is the link's.
LEMMA PortsTold ==
  ASSUME PortsDistinct(EdgePorts), PortsDistinct(RootPorts \cup {LinkPort})
  PROVE  TreeIntfsDistinct /\ LinkApart
<1>1. EdgeAgent!IntfsDistinct
  BY DEF PortsDistinct, EdgeAgent!IntfsDistinct, EdgeAgent!Intfs,
         Root!MemberIntf, Root!InIntf, EdgeAgent!MemberIntf, EdgeAgent!InIntf
<1>2. RootAgent!IntfsDistinct
  BY DEF PortsDistinct, RootAgent!IntfsDistinct, RootAgent!Intfs,
         Root!MemberIntf, Root!InIntf, RootAgent!MemberIntf, RootAgent!InIntf
<1>3. LinkApart
  BY TreeAssumption
     DEF PortsDistinct, LinkApart, Root!MemberIntf, Root!InIntf, RootAgent!InIntf
<1> QED
  BY <1>1, <1>2, <1>3 DEF TreeIntfsDistinct

\* Nothing has been asked for, and nothing is copied.
LEMMA TreeStart == TInit => TreeInv
<1> SUFFICES ASSUME TInit PROVE TreeInv
  OBVIOUS
<1>1. RootAgent!FreshlyBound
  BY DEF TInit, RootAgent!FreshlyBound, RootAgent!Attached,
         Root!NoMembersYet, RootAgent!NoMembersYet, Root!Intfs, RootAgent!Intfs,
         Root!InIntf, RootAgent!InIntf,
         Root!Switch!EmptyDatapath, RootAgent!Switch!EmptyDatapath
<1>2. EdgeAgent!FreshlyBound
  BY DEF TInit, EdgeAgent!FreshlyBound, EdgeAgent!Attached,
         Edge!NoMembersYet, EdgeAgent!NoMembersYet, Edge!Intfs, EdgeAgent!Intfs,
         Edge!InIntf, EdgeAgent!InIntf,
         Edge!Switch!EmptyDatapath, EdgeAgent!Switch!EmptyDatapath
<1>3. AgentsInv
  BY <1>1, <1>2, RootAgent!FreshInv, EdgeAgent!FreshInv, RootAssumptions,
     EdgeAssumptions
     DEF AgentsInv, TInit
<1>4. SessionsInv /\ LinkInv
  BY DEF TInit, SessionsInv, LinkInv
<1>5. ASSUME NEW g \in GroupIPs PROVE InStep(g)
  <2>1. InFlight(g) = {} /\ Len(link) = 0
    BY DEF TInit, InFlight
  <2>2. EdgeAgent!NoMembers(g)
    BY <1>2 DEF EdgeAgent!FreshlyBound, EdgeAgent!NoMembers, EdgeAgent!NoMembersYet
  <2>3. ~BranchMember(g)
    <3>1. RootAgent!InIntf(LinkPort) \in RootAgent!Intfs
      BY DEF RootAgent!Intfs
    <3> QED
      BY <1>1, <3>1
         DEF RootAgent!FreshlyBound, BranchMember, RootAgent!IsMember,
             RootAgent!NoMembersYet
  <2> QED
    BY <2>1, <2>2, <2>3 DEF InStep
<1> QED
  BY <1>3, <1>4, <1>5 DEF TreeInv

\* What is in step stays in step while link and missed packets are the same.
LEMMA StaysInStep ==
  ASSUME NEW g \in GroupIPs, InStep(g), UNCHANGED <<link, missed>>,
         BranchMember(g)' <=> BranchMember(g),
         EdgeAgent!NoMembers(g)' <=> EdgeAgent!NoMembers(g)
  PROVE  InStep(g)'
  BY DEF InStep, InFlight, LastInFlight

\* The network controller tells one of the switches of a group.
LEMMA CreationKeeps ==
  ASSUME MaxRootId < IdSpace, MaxEdgeId < IdSpace, TreeIntfsDistinct, TreeInv,
         NEW g \in GroupIPs, EdgeCreates(g) \/ RootCreates(g)
  PROVE  TreeInv'
<1>1. AgentsInv /\ SessionsInv /\ LinkInv /\ \A h \in GroupIPs : InStep(h)
  BY DEF TreeInv
<1>2. RootAgent!ServiceInv(rdp) /\ EdgeAgent!ServiceInv(edp)
      /\ RootAgent!IntfsDistinct /\ EdgeAgent!IntfsDistinct
  BY <1>1 DEF AgentsInv, TreeIntfsDistinct
<1>3. UNCHANGED <<link, missed>>
  BY DEF EdgeCreates, RootCreates
<1>4. /\ UNCHANGED <<conn, ofconn>>
      /\ RootAgent!ServiceInv(rdp)' /\ EdgeAgent!ServiceInv(edp)'
      /\ SessionsInv'
      /\ \A h \in GroupIPs : /\ BranchMember(h)' <=> BranchMember(h)
                             /\ EdgeAgent!NoMembers(h)' <=> EdgeAgent!NoMembers(h)
  <2>1. CASE EdgeCreates(g)
    <3>1. /\ UNCHANGED <<conn, ofconn>>
          /\ EdgeAgent!ServiceInv(edp)'
          /\ \A h \in GroupIPs : estore'[h] # NULL => EdgeSession(estore'[h])
          /\ \A h : EdgeAgent!NoMembers(h)' <=> EdgeAgent!NoMembers(h)
      BY <1>1, <1>2, <2>1, EdgeCreation
    <3>2. UNCHANGED <<conn, ofconn, root>>
      BY <2>1, <3>1 DEF EdgeCreates
    <3>3. /\ RootAgent!ServiceInv(rdp)' /\ rstore' = rstore
          /\ \A h : BranchMember(h)' <=> BranchMember(h)
      BY <1>2, <3>2, RootRests
    <3>4. SessionsInv'
      BY <1>1, <3>1, <3>3 DEF SessionsInv, RootSession, EdgeSession
    <3> QED
      BY <3>1, <3>3, <3>4
  <2>2. CASE RootCreates(g)
    <3>1. /\ UNCHANGED <<conn, ofconn>>
          /\ RootAgent!ServiceInv(rdp)'
          /\ \A h \in GroupIPs : rstore'[h] # NULL => RootSession(rstore'[h])
          /\ \A h : BranchMember(h)' <=> BranchMember(h)
      BY <1>1, <1>2, <2>2, RootCreation
    <3>2. UNCHANGED <<conn, ofconn, edge>>
      BY <2>2, <3>1 DEF RootCreates
    <3>3. /\ EdgeAgent!ServiceInv(edp)' /\ estore' = estore
          /\ \A h : EdgeAgent!NoMembers(h)' <=> EdgeAgent!NoMembers(h)
      BY <1>2, <3>2, EdgeRests
    <3>4. SessionsInv'
      BY <1>1, <3>1, <3>3 DEF SessionsInv, RootSession, EdgeSession
    <3> QED
      BY <3>1, <3>3, <3>4
  <2> QED
    BY <2>1, <2>2
<1>5. AgentsInv' /\ LinkInv'
  BY <1>1, <1>3, <1>4 DEF AgentsInv, LinkInv
<1>6. \A h \in GroupIPs : InStep(h)'
  BY <1>1, <1>3, <1>4, StaysInStep
<1> QED
  BY <1>4, <1>5, <1>6 DEF TreeInv

\* A packet from a receiver of the edge: what it makes of the group is the
\* last thing the root will hear.
LEMMA EdgeReceivesKeeps ==
  ASSUME MaxRootId < IdSpace, MaxEdgeId < IdSpace, TreeIntfsDistinct, TreeInv,
         NEW g \in GroupIPs, NEW request \in {"join", "leave"},
         NEW port \in EdgePorts, EdgeReceives(g, request, port)
  PROVE  TreeInv'
<1>1. AgentsInv /\ SessionsInv /\ LinkInv /\ \A h \in GroupIPs : InStep(h)
  BY DEF TreeInv
<1>2. RootAgent!ServiceInv(rdp) /\ RootAgent!IntfsDistinct /\ EdgeAgent!IntfsDistinct
  BY <1>1 DEF AgentsInv, TreeIntfsDistinct
<1>3. /\ UNCHANGED <<conn, ofconn, estore>>
      /\ EdgeAgent!ServiceInv(edp)'
      /\ \A h \in GroupIPs : h # g =>
           (EdgeAgent!NoMembers(h)' <=> EdgeAgent!NoMembers(h))
      /\ \/ /\ Upstream(eout') = <<>>
            /\ EdgeAgent!NoMembers(g)' <=> EdgeAgent!NoMembers(g)
         \/ \E p \in Requests :
              /\ Upstream(eout') = <<p>> /\ p.ip = g
              /\ p.request = "join" <=> ~EdgeAgent!NoMembers(g)'
  BY <1>1, <1>2, EdgePacket DEF EdgeReceives
<1>4. /\ RootAgent!ServiceInv(rdp)' /\ rstore' = rstore
      /\ \A h : BranchMember(h)' <=> BranchMember(h)
  <2>1. UNCHANGED <<conn, ofconn, root>>
    BY <1>3 DEF EdgeReceives
  <2> QED
    BY <1>2, <2>1, RootRests
<1>5. AgentsInv' /\ SessionsInv'
  BY <1>1, <1>3, <1>4 DEF AgentsInv, SessionsInv, RootSession, EdgeSession
<1>6. link' = link \o Upstream(eout') /\ missed' = missed
  BY DEF EdgeReceives
<1>7. CASE Upstream(eout') = <<>> /\ (EdgeAgent!NoMembers(g)' <=> EdgeAgent!NoMembers(g))
  <2>1. UNCHANGED <<link, missed>>
    BY <1>1, <1>6, <1>7 DEF LinkInv
  <2>2. \A h \in GroupIPs : InStep(h)'
    BY <1>1, <1>3, <1>4, <1>7, <2>1, StaysInStep
  <2> QED
    BY <1>1, <1>5, <2>1, <2>2 DEF TreeInv, LinkInv
<1>8. ASSUME NEW p \in Requests, Upstream(eout') = <<p>>, p.ip = g,
             p.request = "join" <=> ~EdgeAgent!NoMembers(g)'
      PROVE  TreeInv'
  <2>1. link' = link \o <<p>> /\ link \in Seq(Requests)
    BY <1>1, <1>6, <1>8 DEF LinkInv
  <2>2. LinkInv'
    BY <1>1, <1>6, <1>8, <2>1, PutOnLink DEF LinkInv
  <2>3. ASSUME NEW h \in GroupIPs PROVE InStep(h)'
    <3>1. CASE h = g
      <4>1. \A k \in 1..Len(link') : LastInFlight(g, k)' => link'[k] = p
        BY <1>8, <2>1, PutOnLink
      <4>2. InFlight(g)' # {}
        BY <1>8, <2>1, PutOnLink
      <4> QED
        BY <1>8, <3>1, <4>1, <4>2 DEF InStep
    <3>2. CASE h # g
      <4>1. \A k \in 1..Len(link') : LastInFlight(h, k)' =>
              k \in 1..Len(link) /\ LastInFlight(h, k) /\ link'[k] = link[k]
        BY <1>8, <2>1, <3>2, PutOnLink
      <4>2. InFlight(h)' = {} => InFlight(h) = {}
        BY <1>8, <2>1, <3>2, PutOnLink
      <4>3. InStep(h) /\ (EdgeAgent!NoMembers(h)' <=> EdgeAgent!NoMembers(h))
            /\ (BranchMember(h)' <=> BranchMember(h)) /\ missed' = missed
        BY <1>1, <1>3, <1>4, <1>6, <3>2
      <4> QED
        BY <4>1, <4>2, <4>3 DEF InStep
    <3> QED
      BY <3>1, <3>2
  <2> QED
    BY <1>5, <2>2, <2>3 DEF TreeInv
<1> QED
  BY <1>3, <1>7, <1>8

\* A packet from a receiver of the root is no business of the branch.
LEMMA RootReceivesKeeps ==
  ASSUME MaxRootId < IdSpace, MaxEdgeId < IdSpace, TreeIntfsDistinct, LinkApart,
         TreeInv, NEW g \in GroupIPs, NEW request \in {"join", "leave"},
         NEW port \in RootPorts, RootReceives(g, request, port)
  PROVE  TreeInv'
<1>1. AgentsInv /\ SessionsInv /\ LinkInv /\ \A h \in GroupIPs : InStep(h)
  BY DEF TreeInv
<1>2. EdgeAgent!ServiceInv(edp) /\ RootAgent!IntfsDistinct /\ EdgeAgent!IntfsDistinct
  BY <1>1 DEF AgentsInv, TreeIntfsDistinct
<1>3. /\ UNCHANGED <<conn, ofconn, rstore>>
      /\ RootAgent!ServiceInv(rdp)'
      /\ \A h \in GroupIPs, j \in RootAgent!Intfs :
           RootAgent!IsMember(h, j)' <=>
             IF h = g /\ j = RootAgent!InIntf(port) /\ rstore[g] # NULL
             THEN request = "join" ELSE RootAgent!IsMember(h, j)
  <2>1. /\ Root!UDPPacketIn(Agent, g, Us(request), Ud(request), port, Host)
        /\ rdp' = Root!AfterBatch(rdp, rout')
        /\ port \in RootPorts \cup {LinkPort}
    BY DEF RootReceives
  <2> QED
    BY <1>1, <1>2, <2>1, RootPacket
<1>4. ASSUME NEW h \in GroupIPs PROVE BranchMember(h)' <=> BranchMember(h)
  <2>1. RootAgent!InIntf(LinkPort) \in RootAgent!Intfs
    BY DEF RootAgent!Intfs
  <2>2. RootAgent!InIntf(LinkPort) # RootAgent!InIntf(port)
    BY DEF LinkApart
  <2> QED
    BY <1>3, <2>1, <2>2 DEF BranchMember, RootAgent!IsMember, RootAgent!InIntf
<1>5. /\ EdgeAgent!ServiceInv(edp)' /\ estore' = estore
      /\ \A h : EdgeAgent!NoMembers(h)' <=> EdgeAgent!NoMembers(h)
  <2>1. UNCHANGED <<conn, ofconn, edge>>
    BY <1>3 DEF RootReceives
  <2> QED
    BY <1>2, <2>1, EdgeRests
<1>6. UNCHANGED <<link, missed>>
  BY DEF RootReceives
<1>7. AgentsInv' /\ SessionsInv' /\ LinkInv'
  BY <1>1, <1>3, <1>5, <1>6
     DEF AgentsInv, SessionsInv, RootSession, EdgeSession, LinkInv
<1>8. \A h \in GroupIPs : InStep(h)'
  BY <1>1, <1>4, <1>5, <1>6, StaysInStep
<1> QED
  BY <1>7, <1>8 DEF TreeInv

\* The packets behind the oldest one are not affected by its leaving the link.
LEMMA OthersStayInStep ==
  ASSUME LinkInv, link # <<>>, link' = Tail(link), NEW h \in GroupIPs, InStep(h),
         EdgeAgent!NoMembers(h)' <=> EdgeAgent!NoMembers(h),
         InFlight(h)' = {} /\ ~missed'[h] =>
           (BranchMember(h)' <=> ~EdgeAgent!NoMembers(h))
  PROVE  InStep(h)'
<1>1. \A k \in 1..Len(link') : LastInFlight(h, k)' =>
        k + 1 \in 1..Len(link) /\ LastInFlight(h, k + 1) /\ link'[k] = link[k + 1]
  BY TakeOffLink DEF LinkInv
<1> QED
  BY <1>1 DEF InStep

\* A packet that reaches no handler is missed, whether the link loses it or the
\* root's switch has no hook for it.
LEMMA MissKeeps ==
  ASSUME MaxRootId < IdSpace, MaxEdgeId < IdSpace, TreeIntfsDistinct, TreeInv,
         link # <<>>, link' = Tail(link),
         missed' = [missed EXCEPT ![Head(link).ip] = TRUE],
         UNCHANGED <<conn, ofconn, root, edge>>
  PROVE  TreeInv'
<1>1. AgentsInv /\ SessionsInv /\ LinkInv /\ \A h \in GroupIPs : InStep(h)
  BY DEF TreeInv
<1>2. /\ RootAgent!ServiceInv(rdp) /\ EdgeAgent!ServiceInv(edp)
      /\ RootAgent!IntfsDistinct /\ EdgeAgent!IntfsDistinct
  BY <1>1 DEF AgentsInv, TreeIntfsDistinct
<1>3. /\ RootAgent!ServiceInv(rdp)' /\ rstore' = rstore
      /\ \A h : BranchMember(h)' <=> BranchMember(h)
  BY <1>2, RootRests
<1>4. /\ EdgeAgent!ServiceInv(edp)' /\ estore' = estore
      /\ \A h : EdgeAgent!NoMembers(h)' <=> EdgeAgent!NoMembers(h)
  BY <1>2, EdgeRests
<1>5. PICK p : p = Head(link)
  OBVIOUS
<1>6. p \in Requests /\ p.ip \in GroupIPs /\ link' \in Seq(Requests)
  BY <1>1, <1>5, TakeOffLink DEF LinkInv, Requests
<1>7. AgentsInv' /\ SessionsInv' /\ LinkInv'
  BY <1>1, <1>3, <1>4, <1>5, <1>6
     DEF AgentsInv, SessionsInv, RootSession, EdgeSession, LinkInv
<1>8. ASSUME NEW h \in GroupIPs, InFlight(h)' = {}, ~missed'[h]
      PROVE  BranchMember(h)' <=> ~EdgeAgent!NoMembers(h)
  <2>1. p.ip # h /\ ~missed[h]
    BY <1>1, <1>5, <1>6, <1>8 DEF LinkInv
  <2>2. InFlight(h) = {}
    BY <1>1, <1>5, <1>8, <2>1, TakeOffLink DEF LinkInv
  <2> QED
    BY <1>1, <1>3, <2>1, <2>2 DEF InStep
<1>9. \A h \in GroupIPs : InStep(h)'
  BY <1>1, <1>4, <1>8, OthersStayInStep
<1> QED
  BY <1>7, <1>9 DEF TreeInv

\* The root's agent makes of the branch what the oldest packet asks for, which
\* is what the edge needs if no packet of the group is behind it.
LEMMA DeliveryKeeps ==
  ASSUME MaxRootId < IdSpace, MaxEdgeId < IdSpace, TreeIntfsDistinct, TreeInv,
         LinkDelivers
  PROVE  TreeInv'
<1>1. AgentsInv /\ SessionsInv /\ LinkInv /\ \A h \in GroupIPs : InStep(h)
  BY DEF TreeInv
<1>2. /\ RootAgent!ServiceInv(rdp) /\ EdgeAgent!ServiceInv(edp)
      /\ RootAgent!IntfsDistinct /\ EdgeAgent!IntfsDistinct
  BY <1>1 DEF AgentsInv, TreeIntfsDistinct
<1>3. PICK p : p = Head(link)
  OBVIOUS
<1>4. /\ link # <<>> /\ link' = Tail(link) /\ UNCHANGED edge
      /\ \/ /\ p.ip \in rdp.hooks
            /\ Root!UDPPacketIn(Agent, p.ip, Us(p.request), Ud(p.request),
                                LinkPort, Host)
            /\ rdp' = Root!AfterBatch(rdp, rout')
            /\ missed' = [missed EXCEPT ![p.ip] = FALSE]
         \/ /\ p.ip \notin rdp.hooks
            /\ missed' = [missed EXCEPT ![p.ip] = TRUE]
            /\ UNCHANGED <<conn, ofconn, root>>
  BY <1>3 DEF LinkDelivers
<1>5. PICK g \in GroupIPs, request \in {"join", "leave"} :
        p.ip = g /\ p.request = request /\ p \in Requests
  BY <1>1, <1>3, <1>4, TakeOffLink DEF LinkInv, Requests
<1>6. LinkInv'
  BY <1>1, <1>4, <1>5, TakeOffLink DEF LinkInv
<1>7. RootAgent!InIntf(LinkPort) \in RootAgent!Intfs
  BY DEF RootAgent!Intfs
<1>8. CASE /\ g \in rdp.hooks
           /\ Root!UDPPacketIn(Agent, g, Us(request), Ud(request), LinkPort, Host)
           /\ rdp' = Root!AfterBatch(rdp, rout')
           /\ missed' = [missed EXCEPT ![g] = FALSE]
  <2>1. /\ UNCHANGED <<conn, ofconn, rstore>>
        /\ RootAgent!ServiceInv(rdp)'
        /\ \A h \in GroupIPs, j \in RootAgent!Intfs :
             RootAgent!IsMember(h, j)' <=>
               IF h = g /\ j = RootAgent!InIntf(LinkPort) /\ rstore[g] # NULL
               THEN request = "join" ELSE RootAgent!IsMember(h, j)
    BY <1>1, <1>2, <1>8, RootPacket
  <2>2. /\ EdgeAgent!ServiceInv(edp)' /\ estore' = estore
        /\ \A h : EdgeAgent!NoMembers(h)' <=> EdgeAgent!NoMembers(h)
    BY <1>2, <1>4, <2>1, EdgeRests
  <2>3. rstore[g] # NULL
    <3>1. RootAgent!Attached
      BY <1>1 DEF AgentsInv, RootAgent!Attached
    <3> QED
      BY <1>2, <1>8, <3>1 DEF RootAgent!ServiceInv, RootAgent!Hooked
  <2>4. BranchMember(g)' <=> request = "join"
    BY <1>7, <2>1, <2>3 DEF BranchMember, RootAgent!IsMember, RootAgent!InIntf
  <2>5. \A h \in GroupIPs : h # g => (BranchMember(h)' <=> BranchMember(h))
    BY <1>7, <2>1 DEF BranchMember, RootAgent!IsMember, RootAgent!InIntf
  <2>6. ASSUME NEW h \in GroupIPs, InFlight(h)' = {}, ~missed'[h]
        PROVE  BranchMember(h)' <=> ~EdgeAgent!NoMembers(h)
    <3>1. CASE h = g
      <4>1. LastInFlight(g, 1) /\ 1 \in 1..Len(link) /\ link[1] = p
        BY <1>1, <1>3, <1>4, <1>5, <2>6, <3>1, TakeOffLink DEF LinkInv
      <4> QED
        BY <1>1, <1>5, <2>4, <3>1, <4>1 DEF InStep
    <3>2. CASE h # g
      <4>1. InFlight(h) = {}
        BY <1>1, <1>3, <1>4, <1>5, <2>6, <3>2, TakeOffLink DEF LinkInv
      <4>2. ~missed[h]
        BY <1>1, <1>8, <2>6, <3>2 DEF LinkInv
      <4> QED
        BY <1>1, <2>5, <3>2, <4>1, <4>2 DEF InStep
    <3> QED
      BY <3>1, <3>2
  <2>7. \A h \in GroupIPs : InStep(h)'
    BY <1>1, <1>4, <2>2, <2>6, OthersStayInStep
  <2>8. AgentsInv' /\ SessionsInv'
    BY <1>1, <2>1, <2>2 DEF AgentsInv, SessionsInv, RootSession, EdgeSession
  <2> QED
    BY <1>6, <2>7, <2>8 DEF TreeInv
<1>9. CASE missed' = [missed EXCEPT ![g] = TRUE] /\ UNCHANGED <<conn, ofconn, root>>
  <2>1. TreeInv'
    BY <1>1, <1>2, <1>3, <1>4, <1>5, <1>6, <1>9, MissKeeps
  <2> QED
    BY <2>1
<1> QED
  BY <1>4, <1>5, <1>8, <1>9

\* Every step of the tree keeps the invariant.
LEMMA TreeStep ==
  ASSUME MaxRootId < IdSpace, MaxEdgeId < IdSpace, TreeIntfsDistinct, LinkApart
  PROVE  TreeInv /\ [TNext]_tvars => TreeInv'
<1> SUFFICES ASSUME TreeInv, [TNext]_tvars PROVE TreeInv'
  OBVIOUS
<1>1. CASE UNCHANGED tvars
  <2>1. UNCHANGED <<conn, ofconn, root, edge, link, missed>>
    BY <1>1 DEF tvars
  <2>2. /\ AgentsInv /\ SessionsInv /\ LinkInv /\ \A h \in GroupIPs : InStep(h)
        /\ RootAgent!ServiceInv(rdp) /\ EdgeAgent!ServiceInv(edp)
        /\ RootAgent!IntfsDistinct /\ EdgeAgent!IntfsDistinct
    BY DEF TreeInv, AgentsInv, TreeIntfsDistinct
  <2>3. /\ RootAgent!ServiceInv(rdp)' /\ rstore' = rstore
        /\ \A h : BranchMember(h)' <=> BranchMember(h)
    BY <2>1, <2>2, RootRests
  <2>4. /\ EdgeAgent!ServiceInv(edp)' /\ estore' = estore
        /\ \A h : EdgeAgent!NoMembers(h)' <=> EdgeAgent!NoMembers(h)
    BY <2>1, <2>2, EdgeRests
  <2>5. AgentsInv' /\ SessionsInv' /\ LinkInv'
    BY <2>1, <2>2, <2>3, <2>4
       DEF AgentsInv, SessionsInv, RootSession, EdgeSession, LinkInv
  <2>6. \A h \in GroupIPs : InStep(h)'
    BY <2>1, <2>2, <2>3, <2>4, StaysInStep
  <2> QED
    BY <2>5, <2>6 DEF TreeInv
<1>2. CASE LinkLoses
  BY <1>2, MissKeeps DEF LinkLoses
<1>3. CASE LinkDelivers
  BY <1>3, DeliveryKeeps
<1>4. ASSUME NEW g \in GroupIPs, EdgeCreates(g) \/ RootCreates(g)
      PROVE  TreeInv'
  BY <1>4, CreationKeeps
<1>5. ASSUME NEW g \in GroupIPs, NEW request \in {"join", "leave"},
             NEW port \in EdgePorts, EdgeReceives(g, request, port)
      PROVE  TreeInv'
  BY <1>5, EdgeReceivesKeeps
<1>6. ASSUME NEW g \in GroupIPs, NEW request \in {"join", "leave"},
             NEW port \in RootPorts, RootReceives(g, request, port)
      PROVE  TreeInv'
  BY <1>6, RootReceivesKeeps
<1> QED
  BY <1>1, <1>2, <1>3, <1>4, <1>5, <1>6 DEF TNext

\* Members and copies agree at either agent.
LEMMA TreeInvInStep ==
  ASSUME TreeIntfsDistinct, TreeInv
  PROVE  BranchInStep
<1>1. /\ AgentsInv /\ \A g \in GroupIPs : InStep(g)
      /\ RootAgent!ServiceInv(rdp) /\ EdgeAgent!ServiceInv(edp)
      /\ RootAgent!IntfsDistinct
  BY DEF TreeInv, AgentsInv, TreeIntfsDistinct
<1>2. RootAgent!Attached /\ EdgeAgent!Attached
  BY <1>1 DEF AgentsInv, RootAgent!Attached, EdgeAgent!Attached
<1>3. ASSUME NEW g \in GroupIPs PROVE Branch(g) <=> BranchMember(g)
  <2>1. RootAgent!InIntf(LinkPort) \in RootAgent!Intfs
    BY DEF RootAgent!Intfs
  <2>2. BranchMember(g) <=>
          \E b \in RootAgent!CopiesMade(rdp, g) :
            b.out = RootAgent!MemberIntf(RootAgent!InIntf(LinkPort))
    BY <1>1, <1>2, <2>1, RootAgent!CopiesServeMembers, RootAssumptions
       DEF BranchMember
  <2> QED
    BY <2>2, RootCopies
       DEF Branch, Root!MemberIntf, Root!InIntf, RootAgent!MemberIntf,
           RootAgent!InIntf
<1>4. ASSUME NEW g \in GroupIPs
      PROVE  /\ Edge!CopiesMade(edp, g) # {} <=> ~EdgeAgent!NoMembers(g)
             /\ HasMembers(g) <=> ~EdgeAgent!NoMembers(g)
  <2>1. EdgeAgent!CopiesMade(edp, g) # {} <=> ~EdgeAgent!NoMembers(g)
    BY <1>1, <1>2, EdgeAgent!CopiesServeMembers, EdgeAssumptions
  <2> QED
    BY <2>1, EdgeCopies
       DEF HasMembers, Edge!NoMembers, EdgeAgent!NoMembers, Edge!Intfs,
           EdgeAgent!Intfs, Edge!InIntf, EdgeAgent!InIntf
<1> QED
  BY <1>1, <1>3, <1>4 DEF InStep, BranchInStep

\* What the root sends down the branch is what the edge needs, or is about to be
\* asked for: the first join and the last leave of the edge are enough to keep
\* the two agents in step, for any groups and ports, a link of any length and
\* packets lost at any time (MCApps.hh:345, 384).  Two things are assumed: no
\* group id is drawn twice (id bounds below IdSpace), and no two ports of a
\* switch agree in the 8 bits a member keeps of its port (MCGroupMember.hh:73).
THEOREM BranchAlwaysInStep ==
  ASSUME MaxRootId < IdSpace, MaxEdgeId < IdSpace,
         PortsDistinct(EdgePorts), PortsDistinct(RootPorts \cup {LinkPort})
  PROVE  TSpec => []BranchInStep
<1>1. TreeIntfsDistinct /\ LinkApart
  BY PortsTold
<1>2. TreeInv /\ [TNext]_tvars => TreeInv'
  BY <1>1, TreeStep
<1>3. TreeInv => BranchInStep
  BY <1>1, TreeInvInStep
<1> QED
  BY <1>2, <1>3, TreeStart, PTL DEF TSpec

=============================================================================
