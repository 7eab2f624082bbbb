----------------------- MODULE MulticastSwitchProofs -----------------------
(***************************************************************************)
(* The switch mirrors the agent, both implement the multicast service, and *)
(* they do so message by message over a connection: proofs about           *)
(* MulticastSwitch and MulticastWire for every value of the constants, on  *)
(* top of the agent's own invariant.                                       *)
(***************************************************************************)
EXTENDS MulticastWire, MulticastAppProofs

(***************************************************************************)
(* What the messages do                                                    *)
(***************************************************************************)

Datapath == [groups   : [0..MaxGroupId -> Seq(Bucket) \cup {NULL}],
             flows    : SUBSET Flow,
             hooks    : SUBSET GroupIPs,
             upstream : [GroupIPs -> {"none", "join", "leave"}],
             refused  : BOOLEAN]

\* A batch of no, one or three messages is processed in order.
LEMMA NoMessage == \A d : AfterBatch(d, <<>>) = d
  BY DEF AfterBatch

\* One message is processed by itself,
LEMMA OneMessage ==
  ASSUME NEW d, NEW a
  PROVE  AfterBatch(d, <<a>>) = Switch!Apply(d, a)
<1>1. Len(<<a>>) = 1 /\ <<a>>[1] = a
  OBVIOUS
<1> QED
  BY <1>1 DEF AfterBatch

\* and three one after the other.
LEMMA ThreeMessages ==
  ASSUME NEW d, NEW a, NEW b, NEW c
  PROVE  AfterBatch(d, <<a, b, c>>) =
           Switch!Apply(Switch!Apply(Switch!Apply(d, a), b), c)
<1>1. /\ Len(<<a, b, c>>) = 3
      /\ <<a, b, c>>[1] = a /\ <<a, b, c>>[2] = b /\ <<a, b, c>>[3] = c
  OBVIOUS
<1> QED
  BY <1>1 DEF AfterBatch

\* From d to e group id becomes bs, which may be NULL, and nothing else but
\* the flows and the hooks.
SetsGroup(d, e, id, bs) ==
  /\ e \in Datapath
  /\ e.refused = d.refused
  /\ e.upstream = d.upstream
  /\ e.groups[id] = bs
  /\ \A x \in 0..MaxGroupId : x # id => e.groups[x] = d.groups[x]

\* From d to e what the upstream switch was told about g becomes r.
SetsUpstream(d, e, g, r) ==
  /\ e \in Datapath
  /\ e.groups = d.groups /\ e.flows = d.flows /\ e.refused = d.refused
  /\ e.upstream[g] = r
  /\ \A h \in GroupIPs : h # g => e.upstream[h] = d.upstream[h]

\* From d to e a flow is added, or the flows that point at id are removed.
AddsFlow(d, e, flow) ==
  \A f : f \in e.flows <=>
    (f \in d.flows /\ ~Switch!SameMatch(f, flow)) \/ f = flow
RemovesFlows(d, e, id) ==
  \A f : f \in e.flows <=> f \in d.flows /\ f.group # id

\* A message to the upstream switch.
LEMMA UpstreamEffect ==
  ASSUME NEW d \in Datapath, NEW g \in GroupIPs, NEW r \in {"join", "leave"},
         NEW e, e = Switch!Apply(d, PacketOut(g, r))
  PROVE  SetsUpstream(d, e, g, r)
<1>1. e = [d EXCEPT !.upstream[g] = r]
  BY DEF Switch!Apply, PacketOut
<1> QED
  BY <1>1 DEF SetsUpstream, Datapath

\* A hook flow.
LEMMA HookEffect ==
  ASSUME NEW d \in Datapath, NEW g \in GroupIPs,
         NEW e, e = Switch!Apply(d, HookFlowMod(g))
  PROVE  /\ e \in Datapath
         /\ e.groups = d.groups /\ e.flows = d.flows /\ e.refused = d.refused
         /\ e.upstream = d.upstream
<1>1. e = [d EXCEPT !.hooks = @ \cup {g}]
  BY DEF Switch!Apply, HookFlowMod
<1> QED
  BY <1>1 DEF Datapath

\* Adding a group that is not there and then the flow that points at it.
LEMMA AddEffect ==
  ASSUME NEW d \in Datapath, NEW id \in 0..MaxGroupId, NEW bs \in Seq(Bucket),
         NEW flow \in Flow, flow.group = id, d.groups[id] = NULL,
         NEW d1, d1 = Switch!Apply(d, GroupMod("ADD", id, bs)),
         NEW e, e = Switch!Apply(d1, FlowMod("ADD", flow))
  PROVE  /\ SetsGroup(d, e, id, bs)
         /\ AddsFlow(d, e, flow)
<1> DEFINE gs == [d.groups EXCEPT ![id] = bs]
<1>1. d1 = [d EXCEPT !.groups = gs]
  <2>1. d1 = Switch!AddGroup(d, id, bs)
    BY DEF Switch!Apply, GroupMod
  <2> QED
    BY <2>1 DEF Switch!AddGroup
<1>2. SetsGroup(d, d1, id, bs) /\ d1.flows = d.flows
  <2>1. /\ gs \in [0..MaxGroupId -> Seq(Bucket) \cup {NULL}]
        /\ gs[id] = bs
        /\ \A x \in 0..MaxGroupId : x # id => gs[x] = d.groups[x]
    BY DEF Datapath
  <2> HIDE DEF gs
  <2> QED
    BY <1>1, <2>1 DEF Datapath, SetsGroup
<1>3. d1.groups[id] # NULL
  BY <1>2, NullAssumption DEF SetsGroup
<1> DEFINE fs == { f \in d1.flows : ~Switch!SameMatch(f, flow) } \cup {flow}
<1>4. e = [d1 EXCEPT !.flows = fs]
  <2>1. e = Switch!AddFlow(d1, flow)
    BY DEF Switch!Apply, FlowMod
  <2> QED
    BY <1>3, <2>1 DEF Switch!AddFlow
<1>5. fs \in SUBSET Flow
  BY <1>2 DEF Datapath
<1>6. \A f : f \in fs <=>
        (f \in d.flows /\ ~Switch!SameMatch(f, flow)) \/ f = flow
  BY <1>2
<1> HIDE DEF fs
<1>7. SetsGroup(d1, e, id, bs) /\ e.flows = fs
  BY <1>2, <1>4, <1>5 DEF Datapath, SetsGroup
<1>8. SetsGroup(d, e, id, bs)
  BY <1>2, <1>7 DEF SetsGroup
<1> QED
  BY <1>6, <1>7, <1>8 DEF AddsFlow

\* Deleting a flow and then the group it points at leaves no flow that points
\* at the group, whether or not the switch honours out_port.
LEMMA DeleteEffect ==
  ASSUME NEW d \in Datapath, NEW id \in 0..MaxGroupId, NEW bs,
         NEW flow \in Flow, flow.group = id,
         NEW d1, d1 = Switch!Apply(d, FlowMod("DELETE", flow)),
         NEW e, e = Switch!Apply(d1, GroupMod("DELETE", id, bs))
  PROVE  /\ SetsGroup(d, e, id, NULL)
         /\ RemovesFlows(d, e, id)
<1>1. d1 = Switch!DeleteFlow(d, flow)
  BY DEF Switch!Apply, FlowMod
<1>2. PICK fs \in SUBSET d.flows :
        /\ d1 = [d EXCEPT !.flows = fs]
        /\ \A f \in d.flows : f.group # id => f \in fs
  <2>1. CASE HonoursOutPort
    <3>1. d1 = [d EXCEPT !.flows = d.flows]
      BY <1>1, <2>1 DEF Switch!DeleteFlow, Datapath
    <3> QED
      BY <3>1
  <2>2. CASE ~HonoursOutPort
    <3> DEFINE fs == { f \in d.flows : ~(Switch!SameMatch(f, flow)
                                         /\ f.group = flow.group) }
    <3>1. d1 = [d EXCEPT !.flows = fs]
      BY <1>1, <2>2 DEF Switch!DeleteFlow, Datapath
    <3>2. fs \in SUBSET d.flows /\ \A f \in d.flows : f.group # id => f \in fs
      OBVIOUS
    <3> HIDE DEF fs
    <3> QED
      BY <3>1, <3>2
  <2> QED
    BY <2>1, <2>2
<1>3. /\ d1 \in Datapath
      /\ d1.groups = d.groups /\ d1.flows = fs
      /\ d1.upstream = d.upstream /\ d1.refused = d.refused
  BY <1>2 DEF Datapath
<1> DEFINE kept == { f \in d1.flows : f.group # id }
           gs == [d1.groups EXCEPT ![id] = NULL]
<1>4. e = [d1 EXCEPT !.groups = gs, !.flows = kept]
  <2>1. e = Switch!DeleteGroup(d1, id)
    BY DEF Switch!Apply, GroupMod
  <2> QED
    BY <2>1 DEF Switch!DeleteGroup
<1>5. \A f : f \in kept <=> f \in d.flows /\ f.group # id
  BY <1>2, <1>3
<1>6. kept \in SUBSET Flow
  BY <1>3 DEF Datapath
<1>7. /\ gs \in [0..MaxGroupId -> Seq(Bucket) \cup {NULL}]
      /\ gs[id] = NULL
      /\ \A x \in 0..MaxGroupId : x # id => gs[x] = d.groups[x]
  BY <1>3 DEF Datapath
<1> HIDE DEF kept, gs
<1>8. /\ e \in Datapath
      /\ e.groups = gs /\ e.flows = kept
      /\ e.upstream = d1.upstream /\ e.refused = d1.refused
  BY <1>3, <1>4, <1>6, <1>7 DEF Datapath
<1> QED
  BY <1>3, <1>5, <1>7, <1>8 DEF SetsGroup, RemovesFlows

\* Only the group id, the flows and the upstream state of g differ from d.
Touches(d, e, id, g) ==
  /\ e \in Datapath
  /\ e.refused = d.refused
  /\ \A x \in 0..MaxGroupId : x # id => e.groups[x] = d.groups[x]
  /\ \A h \in GroupIPs : h # g => e.upstream[h] = d.upstream[h]

\* The batch of a first join.
LEMMA InstallBatch ==
  ASSUME NEW d \in Datapath, NEW g \in GroupIPs, NEW id \in 0..MaxGroupId,
         NEW bs \in Seq(Bucket), NEW flow \in Flow, flow.group = id,
         d.groups[id] = NULL,
         NEW e, e = AfterBatch(d, <<PacketOut(g, "join"), GroupMod("ADD", id, bs),
                                    FlowMod("ADD", flow)>>)
  PROVE  /\ Touches(d, e, id, g)
         /\ e.groups[id] = bs
         /\ AddsFlow(d, e, flow)
         /\ e.upstream[g] = "join"
<1>1. PICK a1, a2 :
        /\ a1 = Switch!Apply(d, PacketOut(g, "join"))
        /\ a2 = Switch!Apply(a1, GroupMod("ADD", id, bs))
        /\ e = Switch!Apply(a2, FlowMod("ADD", flow))
  BY ThreeMessages
<1>2. SetsUpstream(d, a1, g, "join")
  BY <1>1, UpstreamEffect
<1>3. /\ SetsGroup(a1, e, id, bs)
      /\ AddsFlow(a1, e, flow)
  <2>1. a1 \in Datapath /\ a1.groups[id] = NULL
    BY <1>2 DEF SetsUpstream
  <2> QED
    BY <1>1, <2>1, AddEffect
<1> QED
  BY <1>2, <1>3 DEF Touches, SetsGroup, SetsUpstream, AddsFlow, RemovesFlows

\* The batch of a root's group.
LEMMA RootBatch ==
  ASSUME NEW d \in Datapath, NEW g \in GroupIPs, NEW id \in 0..MaxGroupId,
         NEW bs \in Seq(Bucket), NEW flow \in Flow, flow.group = id,
         d.groups[id] = NULL,
         NEW e, e = AfterBatch(d, <<GroupMod("ADD", id, bs), FlowMod("ADD", flow),
                                    HookFlowMod(g)>>)
  PROVE  /\ Touches(d, e, id, g)
         /\ e.groups[id] = bs
         /\ AddsFlow(d, e, flow)
         /\ e.upstream = d.upstream
<1>1. PICK a1, a2 :
        /\ a1 = Switch!Apply(d, GroupMod("ADD", id, bs))
        /\ a2 = Switch!Apply(a1, FlowMod("ADD", flow))
        /\ e = Switch!Apply(a2, HookFlowMod(g))
  BY ThreeMessages
<1>2. /\ SetsGroup(d, a2, id, bs)
      /\ AddsFlow(d, a2, flow)
  BY <1>1, AddEffect
<1>3. /\ e \in Datapath
      /\ e.groups = a2.groups /\ e.flows = a2.flows /\ e.refused = a2.refused
      /\ e.upstream = a2.upstream
  <2>1. e = Switch!Apply(a2, HookFlowMod(g)) /\ a2 \in Datapath
    BY <1>1, <1>2 DEF SetsGroup
  <2> QED
    BY <2>1, HookEffect
<1> QED
  BY <1>2, <1>3 DEF Touches, SetsGroup, SetsUpstream, AddsFlow, RemovesFlows

\* The batch of a last leave.
LEMMA RemoveBatch ==
  ASSUME NEW d \in Datapath, NEW g \in GroupIPs, NEW id \in 0..MaxGroupId,
         NEW bs, NEW flow \in Flow, flow.group = id,
         NEW e, e = AfterBatch(d, <<PacketOut(g, "leave"), FlowMod("DELETE", flow),
                                    GroupMod("DELETE", id, bs)>>)
  PROVE  /\ Touches(d, e, id, g)
         /\ e.groups[id] = NULL
         /\ RemovesFlows(d, e, id)
         /\ e.upstream[g] = "leave"
<1>1. PICK a1, a2 :
        /\ a1 = Switch!Apply(d, PacketOut(g, "leave"))
        /\ a2 = Switch!Apply(a1, FlowMod("DELETE", flow))
        /\ e = Switch!Apply(a2, GroupMod("DELETE", id, bs))
  BY ThreeMessages
<1>2. SetsUpstream(d, a1, g, "leave")
  BY <1>1, UpstreamEffect
<1>3. /\ SetsGroup(a1, e, id, NULL)
      /\ RemovesFlows(a1, e, id)
  <2>1. a1 \in Datapath
    BY <1>2 DEF SetsUpstream
  <2> QED
    BY <1>1, <2>1, DeleteEffect
<1> QED
  BY <1>2, <1>3 DEF Touches, SetsGroup, SetsUpstream, AddsFlow, RemovesFlows

\* The batch of any other join or leave.
LEMMA ModifyBatch ==
  ASSUME NEW d \in Datapath, NEW g \in GroupIPs, NEW id \in 0..MaxGroupId,
         NEW bs \in Seq(Bucket), d.groups[id] # NULL,
         NEW e, e = AfterBatch(d, <<GroupMod("MODIFY", id, bs)>>)
  PROVE  /\ Touches(d, e, id, g)
         /\ e.groups[id] = bs
         /\ e.flows = d.flows
         /\ e.upstream = d.upstream
<1> DEFINE m == GroupMod("MODIFY", id, bs)
           gs == [d.groups EXCEPT ![id] = bs]
<1>1. e = Switch!Apply(d, m)
  <2>1. e = AfterBatch(d, <<m>>)
    OBVIOUS
  <2> HIDE DEF m
  <2> QED
    BY <2>1, OneMessage
<1>2. e = [d EXCEPT !.groups = gs]
  <2>1. e = Switch!ModifyGroup(d, id, bs)
    BY <1>1 DEF Switch!Apply, GroupMod
  <2> QED
    BY <2>1 DEF Switch!ModifyGroup
<1>3. /\ gs \in [0..MaxGroupId -> Seq(Bucket) \cup {NULL}]
      /\ gs[id] = bs
      /\ \A x \in 0..MaxGroupId : x # id => gs[x] = d.groups[x]
  BY DEF Datapath
<1> HIDE DEF gs
<1> QED
  BY <1>2, <1>3 DEF Touches, Datapath

(***************************************************************************)
(* The invariant                                                           *)
(***************************************************************************)

\* a flow in the switch is the downstream flow of an installed session
FlowOwned(f) ==
  /\ store[f.ip] # NULL
  /\ Installed(f.ip)
  /\ f = DownstreamFlow(f.ip, store[f.ip])

\* what the upstream switch was last told about g
UpstreamKnows(d, g) ==
  IF store[g] = NULL THEN d.upstream[g] # "join"
  ELSE ~store[g].is_root => (d.upstream[g] = "join" <=> ~NoMembers(g))

\* the switch and the agent agree
Mirror(d) ==
  /\ \A g \in GroupIPs : store[g] # NULL => InSwitch(d, g)
  /\ \A f \in d.flows : FlowOwned(f)
  /\ \A id \in 0..MaxGroupId : d.groups[id] # NULL =>
       \E g \in GroupIPs : store[g] # NULL /\ store[g].groupid = id
  /\ \A g \in GroupIPs : UpstreamKnows(d, g)

\* nothing has been created and nothing has been sent
Untouched(d) ==
  /\ \A g \in GroupIPs : store[g] = NULL /\ d.upstream[g] = "none"
  /\ \A id \in 0..MaxGroupId : d.groups[id] = NULL
  /\ d.flows = {}

\* The inductive invariant.  When the connection is bound the switch must be
\* in the state the agent starts from (Untouched); once the connection is down
\* it is never up again, so nothing need be known about the switch then.
SwitchInv(d) ==
  /\ d \in Datapath
  /\ ~d.refused
  /\ Attached => Mirror(d)
  /\ ofconn \notin Conns => Untouched(d)

\* the bound connection has been up
BoundWasUp == ofconn \in Conns => conn[ofconn] \in {"up", "down"}

SwInv(d) == AgentInv /\ IdInv /\ BoundWasUp /\ SwitchInv(d)

\* Ids in use are indexes of the group table.
LEMMA IdsInTable ==
  ASSUME TypeOK, IdInv, NEW g \in GroupIPs, store[g] # NULL
  PROVE  store[g].groupid \in 0..MaxGroupId
  BY BoundAssumption DEF TypeOK, IdInv, GroupIdsDrawn

\* The step changes no session but g in the agent,
OnlySession(g) ==
  \A h \in GroupIPs \ {g} : /\ store'[h] = store[h]
                            /\ members'[h] = members[h]
                            /\ buckets'[h] = buckets[h]

\* and no flow but those of g in the switch.
OnlyFlowsOf(d, e, g) ==
  \A f : f.ip # g => (f \in e.flows <=> f \in d.flows)

\* All flows of g in the switch are its downstream flow.
OwnFlow(d, g) ==
  \A f \in d.flows : f.ip = g => Installed(g) /\ f = DownstreamFlow(g, store[g])

\* The agreement survives a step that changes one session g, and in the
\* switch only the group, the flow and the upstream state of g.
LEMMA MirrorOneSession ==
  ASSUME NEW d, NEW e, Mirror(d), d \in Datapath, GroupIdsDistinct',
         NEW g \in GroupIPs, store'[g] # NULL,
         OnlySession(g), OnlyFlowsOf(d, e, g),
         store[g] # NULL => store'[g] = store[g],
         Touches(d, e, store'[g].groupid, g),
         \A h \in GroupIPs : store[h] # NULL => store[h].groupid \in 0..MaxGroupId,
         InSwitch(e, g)', OwnFlow(e, g)', UpstreamKnows(e, g)'
  PROVE  Mirror(e)'
<1> USE DEF OnlySession, OnlyFlowsOf, Touches
<1>1. \A h \in GroupIPs \ {g} : Installed(h)' <=> Installed(h)
  BY DEF Installed, NoMembers
<1>2. ASSUME NEW h \in GroupIPs, store'[h] # NULL
      PROVE  InSwitch(e, h)'
  <2>1. CASE h = g
    BY <2>1
  <2>2. CASE h # g
    <3>1. /\ store'[h] = store[h] /\ store[h] # NULL
          /\ InSwitch(d, h)
      BY <1>2, <2>2 DEF Mirror
    <3>2. store'[h].groupid # store'[g].groupid
      BY <1>2, <2>2 DEF GroupIdsDistinct
    <3>3. e.groups[store[h].groupid] = d.groups[store[h].groupid]
      BY <3>1, <3>2
    <3>4. DownstreamFlow(h, store[h]) \in d.flows
            => DownstreamFlow(h, store[h]) \in e.flows
      <4>1. DownstreamFlow(h, store[h]).ip # g
        BY <2>2 DEF DownstreamFlow
      <4> QED
        BY <4>1
    <3>5. buckets'[h] = buckets[h]
      BY <2>2
    <3>6. Installed(h)' <=> Installed(h)
      BY <1>1, <2>2
    <3>7. DownstreamFlow(h, store[h])' = DownstreamFlow(h, store[h])
      BY <3>1 DEF DownstreamFlow
    <3> QED
      BY <3>1, <3>3, <3>4, <3>5, <3>6, <3>7 DEF InSwitch
  <2> QED
    BY <2>1, <2>2
<1>3. ASSUME NEW f \in e.flows
      PROVE  FlowOwned(f)'
  <2>1. CASE f.ip = g
    BY <2>1 DEF FlowOwned, OwnFlow
  <2>2. CASE f.ip # g
    <3>1. f \in d.flows
      BY <2>2
    <3>2. FlowOwned(f) /\ f.ip \in GroupIPs
      BY <3>1 DEF Mirror, Datapath, Flow
    <3>3. store'[f.ip] = store[f.ip] /\ (Installed(f.ip)' <=> Installed(f.ip))
      BY <1>1, <2>2, <3>2
    <3> QED
      BY <3>2, <3>3 DEF FlowOwned, DownstreamFlow
  <2> QED
    BY <2>1, <2>2
<1>4. ASSUME NEW id \in 0..MaxGroupId, e.groups[id] # NULL
      PROVE  \E h \in GroupIPs : store'[h] # NULL /\ store'[h].groupid = id
  <2>1. CASE id = store'[g].groupid
    BY <2>1
  <2>2. CASE id # store'[g].groupid
    <3>1. d.groups[id] # NULL
      BY <1>4, <2>2
    <3>2. PICK h \in GroupIPs : store[h] # NULL /\ store[h].groupid = id
      BY <3>1 DEF Mirror
    <3>3. store'[h] = store[h]
      BY <3>2
    <3> QED
      BY <3>2, <3>3
  <2> QED
    BY <2>1, <2>2
<1>5. ASSUME NEW h \in GroupIPs
      PROVE  UpstreamKnows(e, h)'
  <2>1. CASE h # g
    <3>1. UpstreamKnows(d, h)
      BY DEF Mirror
    <3>2. NoMembers(h)' <=> NoMembers(h)
      BY <2>1 DEF NoMembers
    <3> QED
      BY <2>1, <3>1, <3>2 DEF UpstreamKnows
  <2> QED
    BY <2>1
<1> QED
  BY <1>2, <1>3, <1>4, <1>5 DEF Mirror

(***************************************************************************)
(* The steps                                                               *)
(***************************************************************************)

\* A step that sends nothing and changes neither store nor members.
LEMMA QuietStep ==
  ASSUME NEW d, NEW e, e = d, SwInv(d),
         UNCHANGED <<store, members, buckets>>,
         Attached' => Attached \/ Untouched(d),
         ofconn' \notin Conns => ofconn \notin Conns
  PROVE  SwitchInv(e)'
<1>1. Untouched(d) => Mirror(d)
  BY DEF Untouched, Mirror, UpstreamKnows
<1>2. Mirror(d) => Mirror(e)'
  BY DEF SwInv, SwitchInv, Mirror, InSwitch, Installed, NoMembers,
         FlowOwned, UpstreamKnows, DownstreamFlow
<1>3. Untouched(d) => Untouched(e)'
  BY DEF SwInv, SwitchInv, Untouched
<1> QED
  BY <1>1, <1>2, <1>3 DEF SwInv, SwitchInv

\* join_member_to_group
LEMMA JoinInSwitch ==
  ASSUME NEW d, NEW e, e = AfterBatch(d, out'), SwInv(d),
         AgentInv', IdInv', Attached, UNCHANGED <<conn, ofconn>>,
         NEW g \in GroupIPs, NEW i \in Intfs, NEW h \in Hosts,
         store[g] # NULL, Join(g, i, h)
  PROVE  SwitchInv(e)'
<1> DEFINE id == store[g].groupid
           bs == buckets'[g]
           flow == DownstreamFlow(g, store[g])
           m == [host |-> h, intf |-> MemberIntf(i),
                 bucket_index |-> Len(buckets[g])]
<1>1. /\ Mirror(d) /\ d \in Datapath /\ ~d.refused
      /\ Attached' /\ GroupIdsDistinct'
      /\ \A f \in GroupIPs : store[f] # NULL => store[f].groupid \in 0..MaxGroupId
      /\ store' = store /\ id \in 0..MaxGroupId
  BY IdsInTable DEF SwInv, SwitchInv, Attached, IdInv, AgentInv, Join
<1>2. CASE out' = <<>> /\ UNCHANGED <<members, buckets, groupmod>>
  <2>1. e = d
    BY <1>2, NoMessage
  <2> QED
    BY <1>1, <1>2, <2>1, QuietStep DEF Attached
<1>3. CASE /\ AddMember(g, i, m)
           /\ \/ IsFirst(g) /\ Send(InstallMessages(g, groupmod'[g]))
              \/ /\ ~IsFirst(g)
                 /\ Send(<<GroupMod("MODIFY", groupmod'[g].group_id,
                                    groupmod'[g].buckets)>>)
  <2>1. /\ OnlySession(g)
        /\ members'[g][i] # NULL
        /\ \A j \in Intfs : members[g][j] # NULL => members'[g][j] # NULL
    <3>1. m \in Member /\ m # NULL
      BY NewMemberType, NullAssumption DEF SwInv, AgentInv
    <3> HIDE DEF m
    <3> QED
      BY <1>1, <1>3, <3>1 DEF AddMember, OnlySession, SwInv, AgentInv, TypeOK
  <2>2. ~NoMembers(g)' /\ Installed(g)'
    BY <1>1, <2>1 DEF NoMembers, Installed
  <2>3. /\ groupmod'[g].group_id = id /\ groupmod'[g].buckets = bs
        /\ bs \in Seq(Bucket)
    BY <1>1, <2>2 DEF AgentInv, GroupModInStep, TypeOK
  <2>4. flow \in Flow /\ flow.group = id /\ flow.ip = g
    BY <1>1 DEF SwInv, AgentInv, TypeOK, DownstreamFlow, Flow, Session
  <2>5. CASE IsFirst(g) /\ Send(InstallMessages(g, groupmod'[g]))
    <3>1. /\ ~store[g].is_root /\ ~Installed(g) /\ d.groups[id] = NULL
      BY <1>1, <2>5 DEF IsFirst, Installed, Mirror, InSwitch
    <3>2. e = AfterBatch(d, <<PacketOut(g, "join"), GroupMod("ADD", id, bs),
                                 FlowMod("ADD", flow)>>)
      BY <2>3, <2>5 DEF Send, InstallMessages, Attached
    <3> HIDE DEF id, bs, flow
    <3>3. /\ Touches(d, e, id, g) /\ e.groups[id] = bs
          /\ AddsFlow(d, e, flow) /\ e.upstream[g] = "join"
      BY <1>1, <2>3, <2>4, <3>1, <3>2, InstallBatch
    <3>4. OnlyFlowsOf(d, e, g) /\ flow \in e.flows
      BY <2>4, <3>3 DEF OnlyFlowsOf, AddsFlow, Switch!SameMatch
    <3>5. InSwitch(e, g)'
      BY <1>1, <2>2, <3>3, <3>4 DEF InSwitch, id, bs, flow, DownstreamFlow
    <3>6. OwnFlow(e, g)'
      BY <1>1, <2>2, <3>1, <3>3
         DEF OwnFlow, AddsFlow, flow, DownstreamFlow, Mirror, FlowOwned
    <3>7. UpstreamKnows(e, g)'
      BY <1>1, <2>2, <3>1, <3>3 DEF UpstreamKnows
    <3>8. Mirror(e)'
      BY <1>1, <2>1, <3>3, <3>4, <3>5, <3>6, <3>7, MirrorOneSession DEF id
    <3> QED
      BY <1>1, <3>3, <3>8 DEF SwInv, SwitchInv, Attached, Touches
  <2>6. CASE /\ ~IsFirst(g)
             /\ Send(<<GroupMod("MODIFY", groupmod'[g].group_id,
                                groupmod'[g].buckets)>>)
    <3>1. /\ Installed(g) /\ d.groups[id] # NULL
          /\ flow \in d.flows
      <4>1. buckets[g] # NULL
        BY NullAssumption DEF SwInv, AgentInv, TypeOK
      <4> QED
        BY <1>1, <2>6, <4>1 DEF IsFirst, Installed, Mirror, InSwitch
    <3>2. e = AfterBatch(d, <<GroupMod("MODIFY", id, bs)>>)
      BY <2>3, <2>6 DEF Send, Attached
    <3> HIDE DEF id, bs, flow
    <3>3. /\ Touches(d, e, id, g) /\ e.groups[id] = bs
          /\ e.flows = d.flows /\ e.upstream = d.upstream
      BY <1>1, <2>3, <3>1, <3>2, ModifyBatch
    <3>4. OnlyFlowsOf(d, e, g)
      BY <3>3 DEF OnlyFlowsOf
    <3>5. InSwitch(e, g)'
      BY <1>1, <2>2, <3>1, <3>3 DEF InSwitch, id, bs, flow, DownstreamFlow
    <3>6. OwnFlow(e, g)'
      BY <1>1, <2>2, <3>3 DEF OwnFlow, DownstreamFlow, Mirror, FlowOwned
    <3>7. UpstreamKnows(e, g)'
      <4>1. UpstreamKnows(d, g)
        BY <1>1 DEF Mirror
      <4> QED
        BY <1>1, <2>2, <3>1, <3>3, <4>1 DEF UpstreamKnows, Installed
    <3>8. Mirror(e)'
      BY <1>1, <2>1, <3>3, <3>4, <3>5, <3>6, <3>7, MirrorOneSession DEF id
    <3> QED
      BY <1>1, <3>3, <3>8 DEF SwInv, SwitchInv, Attached, Touches
  <2> QED
    BY <1>3, <2>5, <2>6
<1> QED
  BY <1>2, <1>3 DEF Join

\* leave_member_from_group
LEMMA LeaveInSwitch ==
  ASSUME NEW d, NEW e, e = AfterBatch(d, out'), SwInv(d),
         AgentInv', IdInv', Attached, UNCHANGED <<conn, ofconn>>,
         NEW g \in GroupIPs, NEW i \in Intfs, store[g] # NULL, Leave(g, i)
  PROVE  SwitchInv(e)'
<1> DEFINE id == store[g].groupid
           bs == buckets'[g]
           flow == DownstreamFlow(g, store[g])
<1>1. /\ Mirror(d) /\ d \in Datapath /\ ~d.refused
      /\ Attached' /\ GroupIdsDistinct /\ GroupIdsDistinct'
      /\ \A f \in GroupIPs : store[f] # NULL => store[f].groupid \in 0..MaxGroupId
      /\ store' = store /\ id \in 0..MaxGroupId
  BY IdsInTable DEF SwInv, SwitchInv, Attached, IdInv, AgentInv, Leave
<1>2. CASE out' = <<>> /\ UNCHANGED <<members, buckets, groupmod>>
  <2>1. e = d
    BY <1>2, NoMessage
  <2> QED
    BY <1>1, <1>2, <2>1, QuietStep DEF Attached
<1>3. CASE /\ IsMember(g, i)
           /\ RemoveMember(g, i)
           /\ \/ IsLast(g, i) /\ Send(RemoveMessages(g, groupmod'[g]))
              \/ /\ ~IsLast(g, i)
                 /\ Send(<<GroupMod("MODIFY", groupmod'[g].group_id,
                                    groupmod'[g].buckets)>>)
  <2>1. /\ OnlySession(g)
        /\ members'[g] = Reindexed(members[g], i)
        /\ groupmod'[g].group_id = groupmod[g].group_id
    BY <1>1, <1>3 DEF RemoveMember, OnlySession, SwInv, AgentInv, TypeOK
  <2>2. ~NoMembers(g) /\ Installed(g)
    BY <1>1, <1>3 DEF IsMember, NoMembers, Installed
  <2>3. /\ groupmod'[g].group_id = id
        /\ bs \in Seq(Bucket)
        /\ Installed(g)' => groupmod'[g].buckets = bs
    BY <1>1, <2>1, <2>2 DEF SwInv, AgentInv, GroupModInStep, TypeOK
  <2>4. flow \in Flow /\ flow.group = id /\ flow.ip = g
    BY <1>1 DEF SwInv, AgentInv, TypeOK, DownstreamFlow, Flow, Session
  <2>5. CASE IsLast(g, i) /\ Send(RemoveMessages(g, groupmod'[g]))
    <3>1. NoMembers(g)' /\ ~store[g].is_root /\ ~Installed(g)'
      BY <1>1, <2>1, <2>5 DEF IsLast, NoMembers, Reindexed, Installed
    <3>2. e = AfterBatch(d, <<PacketOut(g, "leave"), FlowMod("DELETE", flow),
                                 GroupMod("DELETE", id, groupmod'[g].buckets)>>)
      BY <2>3, <2>5 DEF Send, RemoveMessages, Attached
    <3> HIDE DEF id, bs, flow
    <3>3. /\ Touches(d, e, id, g) /\ e.groups[id] = NULL
          /\ RemovesFlows(d, e, id) /\ e.upstream[g] = "leave"
      BY <1>1, <2>4, <3>2, RemoveBatch
    <3>4. ASSUME NEW f \in d.flows
          PROVE  f.group = id <=> f.ip = g
      <4>1. /\ f.ip \in GroupIPs /\ store[f.ip] # NULL
            /\ f = DownstreamFlow(f.ip, store[f.ip])
        BY <1>1 DEF Mirror, FlowOwned, Datapath, Flow
      <4>2. f.group = store[f.ip].groupid
        BY <4>1 DEF DownstreamFlow
      <4> QED
        BY <1>1, <4>1, <4>2 DEF GroupIdsDistinct, id
    <3>5. OnlyFlowsOf(d, e, g)
      BY <3>3, <3>4 DEF OnlyFlowsOf, RemovesFlows
    <3>6. InSwitch(e, g)'
      BY <1>1, <3>1, <3>3 DEF InSwitch, id
    <3>7. OwnFlow(e, g)'
      BY <3>3, <3>4 DEF OwnFlow, RemovesFlows
    <3>8. UpstreamKnows(e, g)'
      BY <1>1, <3>1, <3>3 DEF UpstreamKnows
    <3>9. Mirror(e)'
      BY <1>1, <2>1, <3>3, <3>5, <3>6, <3>7, <3>8, MirrorOneSession DEF id
    <3> QED
      BY <1>1, <3>3, <3>9 DEF SwInv, SwitchInv, Attached, Touches
  <2>6. CASE /\ ~IsLast(g, i)
             /\ Send(<<GroupMod("MODIFY", groupmod'[g].group_id,
                                groupmod'[g].buckets)>>)
    <3>1. /\ d.groups[id] # NULL /\ flow \in d.flows
      <4>1. buckets[g] # NULL
        BY NullAssumption DEF SwInv, AgentInv, TypeOK
      <4> QED
        BY <1>1, <2>2, <4>1 DEF Mirror, InSwitch
    <3>2. Installed(g)' /\ (~store[g].is_root => ~NoMembers(g)')
      <4>1. CASE store[g].is_root
        BY <1>1, <4>1 DEF Installed
      <4>2. CASE ~store[g].is_root
        <5>1. PICK j \in Intfs \ {i} : members[g][j] # NULL
          BY <2>6, <4>2 DEF IsLast
        <5>2. members[g][j] \in Member
          BY <5>1 DEF SwInv, AgentInv, TypeOK
        <5>3. members'[g][j] # NULL
          <6>1. members[g][i] \in Member
            BY <1>3 DEF SwInv, AgentInv, TypeOK, IsMember
          <6>2. CASE members[g][j].bucket_index > members[g][i].bucket_index
            <7>1. members'[g][j] = [members[g][j] EXCEPT !.bucket_index = @ - 1]
              BY <2>1, <5>1, <6>2 DEF Reindexed
            <7>2. members[g][j].bucket_index - 1 \in Nat
              BY <5>2, <6>1, <6>2 DEF Member
            <7>3. members'[g][j] \in Member
              BY <5>2, <7>1, <7>2 DEF Member
            <7> QED
              BY <7>3, NullAssumption
          <6>3. CASE ~(members[g][j].bucket_index > members[g][i].bucket_index)
            BY <2>1, <5>1, <6>3 DEF Reindexed
          <6> QED
            BY <6>2, <6>3
        <5> QED
          BY <1>1, <5>3 DEF NoMembers, Installed
      <4> QED
        BY <4>1, <4>2
    <3>3. e = AfterBatch(d, <<GroupMod("MODIFY", id, bs)>>)
      BY <2>3, <2>6, <3>2 DEF Send, Attached
    <3> HIDE DEF id, bs, flow
    <3>4. /\ Touches(d, e, id, g) /\ e.groups[id] = bs
          /\ e.flows = d.flows /\ e.upstream = d.upstream
      BY <1>1, <2>3, <3>1, <3>3, ModifyBatch
    <3>5. OnlyFlowsOf(d, e, g)
      BY <3>4 DEF OnlyFlowsOf
    <3>6. InSwitch(e, g)'
      BY <1>1, <3>1, <3>2, <3>4 DEF InSwitch, id, bs, flow, DownstreamFlow
    <3>7. OwnFlow(e, g)'
      BY <1>1, <3>2, <3>4 DEF OwnFlow, DownstreamFlow, Mirror, FlowOwned
    <3>8. UpstreamKnows(e, g)'
      <4>1. UpstreamKnows(d, g)
        BY <1>1 DEF Mirror
      <4> QED
        BY <1>1, <2>2, <3>2, <3>4, <4>1 DEF UpstreamKnows
    <3>9. Mirror(e)'
      BY <1>1, <2>1, <3>4, <3>5, <3>6, <3>7, <3>8, MirrorOneSession DEF id
    <3> QED
      BY <1>1, <3>4, <3>9 DEF SwInv, SwitchInv, Attached, Touches
  <2> QED
    BY <1>3, <2>5, <2>6
<1> QED
  BY <1>2, <1>3 DEF Leave

\* create_group
LEMMA CreateGroupInSwitch ==
  ASSUME NEW d, NEW e, e = AfterBatch(d, out'), SwInv(d),
         TypeOK', IdInv', NEW g \in GroupIPs, NEW dip \in DestIPs, NEW sport \in UdpPorts,
         NEW dport \in UdpPorts, NEW is_root \in BOOLEAN,
         CreateGroup(g, dip, sport, dport, is_root)
  PROVE  SwitchInv(e)'
<1> DEFINE s == [sport |-> sport, dport |-> dport, is_root |-> is_root,
                 groupid |-> OFMsgGroupIdGen']
           id == OFMsgGroupIdGen'
           flow == DownstreamFlow(g, s)
<1>1. /\ d \in Datapath /\ ~d.refused
      /\ (Attached => Mirror(d)) /\ (Attached' <=> Attached) /\ GroupIdsDistinct'
      /\ \A f \in GroupIPs : store[f] # NULL => store[f].groupid \in 0..MaxGroupId
      /\ ofconn \in Conns /\ ofconn' = ofconn /\ conn' = conn
      /\ members' = members /\ buckets' = buckets
  BY IdsInTable DEF SwInv, SwitchInv, Attached, IdInv, AgentInv, CreateGroup
<1>2. CASE out' = <<>> /\ UNCHANGED store
  <2>1. e = d
    BY <1>2, NoMessage
  <2> QED
    BY <1>1, <1>2, <2>1, QuietStep DEF Attached
<1>3. CASE ~Attached
  <2>1. CASE out' = <<>>
    <3>1. e = d
      BY <2>1, NoMessage
    <3> QED
      BY <1>1, <1>3, <3>1 DEF SwitchInv
  <2>2. CASE out' # <<>>
    BY <1>1, <1>3, <2>2 DEF CreateGroup, Send, Attached
  <2> QED
    BY <2>1, <2>2
<1>4. CASE /\ Attached /\ store[g] = NULL /\ store' = [store EXCEPT ![g] = s]
           /\ \/ /\ is_root
                 /\ Send(<<GroupMod("ADD", id, groupmod[g].buckets),
                           FlowMod("ADD", flow), HookFlowMod(g)>>)
              \/ ~is_root /\ Send(<<HookFlowMod(g)>>)
  <2>1. /\ store'[g] = s /\ s.groupid = id /\ s.is_root = is_root
        /\ \A h \in GroupIPs \ {g} : store'[h] = store[h]
    BY <1>4 DEF SwInv, AgentInv, TypeOK
  <2> HIDE DEF s
  <2>2. s # NULL /\ s \in Session /\ OnlySession(g)
    BY <1>1, <2>1, NullAssumption DEF TypeOK, OnlySession, s, Session
  <2>3. /\ groupmod[g].buckets = buckets[g] /\ buckets[g] = <<>>
        /\ buckets[g] \in Seq(Bucket) /\ NoMembers(g) /\ NoMembers(g)'
    BY <1>1, <1>4 DEF SwInv, AgentInv, GroupModInStep, TypeOK, NoMembers
  <2>4. flow \in Flow /\ flow.group = id /\ flow.ip = g
    BY <2>1, <2>2 DEF DownstreamFlow, Flow, Session
  <2>5. id \in 0..MaxGroupId
    BY <2>1, <2>2, BoundAssumption DEF IdInv, GroupIdsDrawn, Session
  <2>6. d.groups[id] = NULL
    <3>1. SUFFICES ASSUME d.groups[id] # NULL PROVE FALSE
      OBVIOUS
    <3>2. PICK h \in GroupIPs : store[h] # NULL /\ store[h].groupid = id
      BY <1>1, <1>4, <2>5, <3>1 DEF Mirror
    <3>3. h # g /\ store'[h] = store[h]
      BY <1>4, <2>1, <3>2
    <3> QED
      BY <1>1, <2>1, <2>2, <3>2, <3>3 DEF GroupIdsDistinct
  <2>7. \A f \in d.flows : f.ip # g
    BY <1>1, <1>4 DEF Mirror, FlowOwned
  <2>8. CASE /\ is_root
             /\ Send(<<GroupMod("ADD", id, groupmod[g].buckets),
                       FlowMod("ADD", flow), HookFlowMod(g)>>)
    <3>1. e = AfterBatch(d, <<GroupMod("ADD", id, buckets[g]),
                                 FlowMod("ADD", flow), HookFlowMod(g)>>)
      BY <1>4, <2>3, <2>8 DEF Send, Attached
    <3> HIDE DEF id, flow
    <3>2. /\ Touches(d, e, id, g) /\ e.groups[id] = buckets[g]
          /\ AddsFlow(d, e, flow)
      <4>1. buckets[g] \in Seq(Bucket) /\ d \in Datapath
        BY <1>1, <2>3
      <4> QED
        BY <2>4, <2>5, <2>6, <3>1, <4>1, RootBatch
    <3>3. OnlyFlowsOf(d, e, g) /\ flow \in e.flows
      BY <2>4, <3>2 DEF OnlyFlowsOf, AddsFlow, Switch!SameMatch
    <3>4. Installed(g)'
      BY <2>1, <2>2, <2>8 DEF Installed
    <3>5. InSwitch(e, g)'
      BY <1>1, <2>1, <3>2, <3>3, <3>4
         DEF InSwitch, flow, DownstreamFlow
    <3>6. OwnFlow(e, g)'
      BY <2>1, <2>7, <3>2, <3>4 DEF OwnFlow, AddsFlow, flow, DownstreamFlow
    <3>7. UpstreamKnows(e, g)'
      BY <2>1, <2>2, <2>8 DEF UpstreamKnows
    <3>8. Mirror(e)'
      BY <1>1, <1>4, <2>1, <2>2, <3>2, <3>3, <3>5, <3>6, <3>7, MirrorOneSession
    <3> QED
      BY <1>1, <3>2, <3>8 DEF SwitchInv, Touches
  <2>9. CASE ~is_root /\ Send(<<HookFlowMod(g)>>)
    <3>1. e = Switch!Apply(d, HookFlowMod(g))
      BY <1>4, <2>9, OneMessage DEF Send, Attached
    <3>2. /\ e \in Datapath
          /\ e.groups = d.groups /\ e.flows = d.flows
          /\ e.refused = d.refused /\ e.upstream = d.upstream
      BY <1>1, <3>1, HookEffect
    <3> HIDE DEF id, flow
    <3>3. Touches(d, e, id, g) /\ OnlyFlowsOf(d, e, g)
      BY <3>2 DEF Touches, OnlyFlowsOf
    <3>4. ~Installed(g)'
      BY <2>1, <2>3, <2>9 DEF Installed
    <3>5. InSwitch(e, g)'
      BY <2>1, <2>6, <3>2, <3>4 DEF InSwitch
    <3>6. OwnFlow(e, g)'
      BY <2>7, <3>2 DEF OwnFlow
    <3>7. UpstreamKnows(e, g)'
      <4>1. UpstreamKnows(d, g)
        BY <1>1, <1>4 DEF Mirror
      <4> QED
        BY <1>4, <2>1, <2>2, <2>3, <3>2, <4>1 DEF UpstreamKnows
    <3>8. Mirror(e)'
      BY <1>1, <1>4, <2>1, <2>2, <3>3, <3>5, <3>6, <3>7, MirrorOneSession
    <3> QED
      BY <1>1, <3>3, <3>8 DEF SwitchInv, Touches
  <2> QED
    BY <1>4, <2>8, <2>9
<1> QED
  BY <1>2, <1>3, <1>4 DEF CreateGroup, DownstreamFlow

\* Steps of a connection and packet-ins that are dropped send nothing but the
\* role request, which changes nothing in the switch.
LEMMA ConnectionInSwitch ==
  ASSUME NEW d, NEW e, e = AfterBatch(d, out'), SwInv(d),
         NEW c \in Conns,
         \/ ConnectionStarted(c) \/ SwitchDown(c)
         \/ \E v \in {1, 4} : SwitchUp(c, v)
         \/ UnboundPacketIn(c) \/ ForeignPacketIn(c) \/ IGMPPacketIn(c)
  PROVE  SwitchInv(e)' /\ BoundWasUp'
<1>1. out' \in {<<>>, <<RoleRequest>>} /\ UNCHANGED state
  BY DEF ConnectionStarted, SwitchUp, SwitchDown, UnboundPacketIn,
         ForeignPacketIn, IGMPPacketIn
<1>2. e = d
  <2>1. Switch!Apply(d, RoleRequest) = d
    BY DEF Switch!Apply, RoleRequest
  <2> QED
    BY <1>1, <2>1, NoMessage, OneMessage
<1>3. conn \in [Conns -> {"none", "started", "up", "down"}]
  BY DEF SwInv, AgentInv, TypeOK
<1>4. /\ BoundWasUp'
      /\ Attached' => Attached \/ ofconn \notin Conns
      /\ ofconn' \notin Conns => ofconn \notin Conns
  BY <1>3, NullAssumption
     DEF ConnectionStarted, SwitchUp, SwitchDown, UnboundPacketIn,
         ForeignPacketIn, IGMPPacketIn, SwInv, BoundWasUp, Attached, state
<1> QED
  BY <1>1, <1>2, <1>4, QuietStep DEF SwInv, SwitchInv, state

\* Every handler keeps the invariant, for the state the switch is in once it
\* has processed the handler's messages.
LEMMA HandlerInSwitch ==
  ASSUME MaxGroupId < IdSpace,
         NEW d, NEW e, e = AfterBatch(d, out'), SwInv(d), Next
  PROVE  SwInv(e)'
<1>1. AgentInv' /\ IdInv'
  BY AgentInvStep, GroupIdsStep DEF SwInv, AgentInv
<1>2. ASSUME NEW c \in Conns,
             \/ ConnectionStarted(c) \/ SwitchDown(c)
             \/ \E v \in {1, 4} : SwitchUp(c, v)
             \/ UnboundPacketIn(c) \/ ForeignPacketIn(c) \/ IGMPPacketIn(c)
      PROVE  SwitchInv(e)' /\ BoundWasUp'
  BY <1>2, ConnectionInSwitch
<1>3. ASSUME NEW c \in Conns, NEW ip \in GroupIPs, NEW us \in UdpPorts,
             NEW ud \in UdpPorts, NEW port \in InPorts, NEW h \in Hosts,
             UDPPacketIn(c, ip, us, ud, port, h)
      PROVE  SwitchInv(e)' /\ BoundWasUp'
  <2> DEFINE i == InIntf(port)
  <2>1. i \in Intfs
    BY DEF Intfs
  <2>2. Attached /\ UNCHANGED <<conn, ofconn>>
    BY <1>3 DEF UDPPacketIn, Attached
  <2> HIDE DEF i
  <2>3. BoundWasUp'
    BY <2>2 DEF SwInv, BoundWasUp
  <2>4. CASE store[ip] # NULL /\ Join(ip, i, h)
    <3>1. SwitchInv(e)'
      BY <1>1, <2>1, <2>2, <2>4, JoinInSwitch
    <3> QED
      BY <2>3, <3>1
  <2>5. CASE store[ip] # NULL /\ Leave(ip, i)
    <3>1. SwitchInv(e)'
      BY <1>1, <2>1, <2>2, <2>5, LeaveInSwitch
    <3> QED
      BY <2>3, <3>1
  <2>6. CASE out' = <<>> /\ UNCHANGED state
    <3>1. e = d
      BY <2>6, NoMessage
    <3> QED
      BY <2>2, <2>3, <2>6, <3>1, QuietStep DEF state, Attached
  <2> QED
    BY <1>3, <2>4, <2>5, <2>6 DEF UDPPacketIn, i
<1>4. ASSUME NEW sip \in GroupIPs, NEW dip \in DestIPs,
             NEW sport \in UdpPorts, NEW dport \in UdpPorts,
             NEW is_root \in BOOLEAN,
             CreateGroup(sip, dip, sport, dport, is_root)
      PROVE  SwitchInv(e)' /\ BoundWasUp'
  <2>1. BoundWasUp'
    BY <1>4 DEF CreateGroup, SwInv, BoundWasUp
  <2>2. SwitchInv(e)'
    BY <1>1, <1>4, CreateGroupInSwitch DEF AgentInv
  <2> QED
    BY <2>1, <2>2
<1> QED
  BY <1>1, <1>2, <1>3, <1>4 DEF Next, SwInv

\* A step that changes nothing in the agent and nothing in d.
LEMMA StutterInSwitch ==
  ASSUME NEW d, SwInv(d), UNCHANGED vars
  PROVE  SwInv(d)'
<1>1. AgentInv' /\ IdInv' /\ BoundWasUp'
  BY AgentInvStep
     DEF vars, SwInv, BoundWasUp, IdInv, GroupIdsDrawn, GroupIdsDistinct
<1>2. SwitchInv(d)'
  BY QuietStep DEF vars, Attached
<1> QED
  BY <1>1, <1>2 DEF SwInv

\* Every step of the agent and its switch keeps the invariant.
LEMMA SwStep ==
  ASSUME MaxGroupId < IdSpace
  PROVE  SwInv(dp) /\ [SwNext]_swvars => SwInv(dp)'
<1> SUFFICES ASSUME SwInv(dp), [SwNext]_swvars PROVE SwInv(dp)'
  OBVIOUS
<1>1. PICK d, e : d = dp /\ e = dp'
  OBVIOUS
<1>2. SwInv(d)
  BY <1>1
<1>3. SwInv(e)'
  <2>1. CASE UNCHANGED swvars
    <3>1. e = d /\ UNCHANGED vars
      BY <1>1, <2>1 DEF swvars
    <3> QED
      BY <1>2, <3>1, StutterInSwitch
  <2>2. CASE SwNext
    BY <1>1, <1>2, <2>2, HandlerInSwitch DEF SwNext
  <2> QED
    BY <2>1, <2>2
<1> QED
  BY <1>1, <1>3 DEF SwInv, SwitchInv, Mirror, Untouched, UpstreamKnows, InSwitch

\* The invariant holds before any switch has connected.
LEMMA SwStart == SwInit => SwInv(dp)
<1> SUFFICES ASSUME SwInit PROVE SwInv(dp)
  OBVIOUS
<1>1. Init
  BY DEF SwInit
<1>2. AgentInv /\ IdInv /\ BoundWasUp
  BY <1>1, AgentInit, InitEmpty, BoundAssumption, NullAssumption
     DEF Init, IdInv, GroupIdsDrawn, GroupIdsDistinct, BoundWasUp
<1>3. dp \in Datapath /\ ~dp.refused /\ Untouched(dp)
  BY <1>1 DEF SwInit, Init, Switch!EmptyDatapath, Datapath, Untouched
<1>4. ~Attached
  BY <1>1, NullAssumption DEF Init, Attached
<1> QED
  BY <1>2, <1>3, <1>4 DEF SwInv, SwitchInv

(***************************************************************************)
(* The theorems.  Fewer MCGroups are constructed than there are ids.       *)
(***************************************************************************)

\* The switch forwards exactly what the agent has recorded, for any number of
\* groups, receivers and interfaces, and whether or not the switch honours
\* the out_port of a flow deletion.
THEOREM DatapathAlwaysMirrors ==
  ASSUME MaxGroupId < IdSpace
  PROVE  SwSpec => []DatapathMirrors
<1>1. SwInv(dp) => DatapathMirrors
  BY DEF SwInv, SwitchInv, Mirror, FlowOwned, DatapathMirrors
<1> QED
  BY <1>1, SwStart, SwStep, PTL DEF SwSpec

\* No message of the agent is ever answered with an error.
THEOREM NothingEverRefused ==
  ASSUME MaxGroupId < IdSpace
  PROVE  SwSpec => []NothingRefused
<1>1. SwInv(dp) => NothingRefused
  BY DEF SwInv, SwitchInv, NothingRefused
<1> QED
  BY <1>1, SwStart, SwStep, PTL DEF SwSpec

\* The upstream switch always knows whether a group has members.
THEOREM UpstreamAlwaysTracks ==
  ASSUME MaxGroupId < IdSpace
  PROVE  SwSpec => []UpstreamTracksMembership
<1>1. SwInv(dp) => UpstreamTracksMembership
  BY DEF SwInv, SwitchInv, Mirror, UpstreamKnows, UpstreamTracksMembership
<1> QED
  BY <1>1, SwStart, SwStep, PTL DEF SwSpec

\* Once the bound connection is down, no step of the agent reaches a switch or
\* changes a group's members, for any number of connections.
THEOREM FrozenOnceDown == SwSpec => FrozenAfterDisconnect
<1> DEFINE Down == ofconn \in Conns /\ conn[ofconn] = "down"
           Frozen == UNCHANGED <<ofconn, dp, members, buckets>>
<1>1. ASSUME Down, SwNext PROVE Frozen
  <2>1. out' = <<>> /\ UNCHANGED <<ofconn, members, buckets>>
    <3>1. ASSUME NEW c \in Conns,
                 \/ ConnectionStarted(c) \/ SwitchDown(c)
                 \/ \E v \in {1, 4} : SwitchUp(c, v)
                 \/ UnboundPacketIn(c) \/ ForeignPacketIn(c) \/ IGMPPacketIn(c)
          PROVE  out' = <<>> /\ UNCHANGED <<ofconn, members, buckets>>
      BY <1>1, <3>1, NullAssumption
         DEF ConnectionStarted, SwitchUp, SwitchDown, UnboundPacketIn,
             ForeignPacketIn, IGMPPacketIn, state
    <3>2. ASSUME NEW c \in Conns, NEW ip \in GroupIPs, NEW us \in UdpPorts,
                 NEW ud \in UdpPorts, NEW port \in InPorts, NEW h \in Hosts
          PROVE  ~UDPPacketIn(c, ip, us, ud, port, h)
      BY <1>1 DEF UDPPacketIn
    <3>3. ASSUME NEW sip \in GroupIPs, NEW dip \in DestIPs,
                 NEW sport \in UdpPorts, NEW dport \in UdpPorts,
                 NEW is_root \in BOOLEAN,
                 CreateGroup(sip, dip, sport, dport, is_root)
          PROVE  out' = <<>> /\ UNCHANGED <<ofconn, members, buckets>>
      BY <1>1, <3>3 DEF CreateGroup, Send
    <3> QED
      BY <1>1, <3>1, <3>2, <3>3 DEF SwNext, Next
  <2>2. dp' = dp
    BY <1>1, <2>1, NoMessage DEF SwNext
  <2> QED
    BY <2>1, <2>2
<1>2. [SwNext]_swvars => [Down => Frozen]_swvars
  BY <1>1
<1> QED
  BY <1>2, PTL DEF SwSpec, FrozenAfterDisconnect


(***************************************************************************)
(* Message by message: the copies the switch makes                         *)
(***************************************************************************)

\* no message has been refused and every flow points at a group that is there
SoundSwitch(d) ==
  /\ d \in Datapath
  /\ ~d.refused
  /\ \A f \in d.flows : f.group \in 0..MaxGroupId /\ d.groups[f.group] # NULL

\* group id is g's: the flows that point at it are those of packets to g
OwnGroup(d, id, g) == \A f \in d.flows : f.group = id <=> f.ip = g

\* from d to e the copies of g become bs, and nothing else changes
Recopies(d, e, g, bs) ==
  /\ e.hooks = d.hooks
  /\ CopiesMade(e, g) = bs
  /\ \A h \in GroupIPs : h # g => CopiesMade(e, h) = CopiesMade(d, h)

SameCopies(d, e) == \A h \in GroupIPs : CopiesMade(e, h) = CopiesMade(d, h)

\* the steps of MulticastService between two states of the datapath
Opens(d, e, g) == e.hooks = d.hooks \cup {g} /\ SameCopies(d, e)
Subscribes(d, e, g, b) ==
  /\ g \in d.hooks
  /\ \A a \in CopiesMade(d, g) : a.out # b.out
  /\ Recopies(d, e, g, CopiesMade(d, g) \cup {b})
Unsubscribes(d, e, g, b) ==
  /\ b \in CopiesMade(d, g)
  /\ Recopies(d, e, g, CopiesMade(d, g) \ {b})

Unserved(d, e) == e.hooks = d.hooks /\ SameCopies(d, e)

Serves(d, e) ==
  \/ Unserved(d, e)
  \/ \E g \in GroupIPs :
       \/ Opens(d, e, g)
       \/ \E b \in Bucket : Subscribes(d, e, g, b) \/ Unsubscribes(d, e, g, b)

\* The copies of a source all of whose flows point at one group.
LEMMA CopiesOfGroup ==
  ASSUME NEW d, NEW g, NEW id, \A f \in d.flows : f.ip = g => f.group = id
  PROVE  /\ (\E f \in d.flows : f.ip = g) /\ d.groups[id] # NULL
              => CopiesMade(d, g) = Range(d.groups[id])
         /\ (\A f \in d.flows : f.ip # g) \/ d.groups[id] = NULL
              => CopiesMade(d, g) = {}
<1> DEFINE served == { f \in d.flows : f.ip = g /\ d.groups[f.group] # NULL }
           parts == { Range(d.groups[f.group]) : f \in served }
<1>1. CopiesMade(d, g) = UNION parts
  BY DEF CopiesMade
<1>2. CASE (\E f \in d.flows : f.ip = g) /\ d.groups[id] # NULL
  <2>1. \A f \in served : Range(d.groups[f.group]) = Range(d.groups[id])
    OBVIOUS
  <2>2. \E f : f \in served
    BY <1>2
  <2>3. parts = { Range(d.groups[id]) }
    BY <2>1, <2>2
  <2> QED
    BY <1>1, <1>2, <2>3
<1>3. CASE (\A f \in d.flows : f.ip # g) \/ d.groups[id] = NULL
  <2>1. served = {}
    BY <1>3
  <2>2. parts = {}
    BY <2>1
  <2> QED
    BY <1>1, <1>3, <2>2
<1> QED
  BY <1>2, <1>3

\* The copies of a source whose flows and groups do not change.
LEMMA CopiesUnchanged ==
  ASSUME NEW d, NEW e, NEW h,
         \A f : f.ip = h => (f \in e.flows <=> f \in d.flows),
         \A f \in d.flows : f.ip = h => e.groups[f.group] = d.groups[f.group]
  PROVE  CopiesMade(e, h) = CopiesMade(d, h)
<1>1. { f \in e.flows : f.ip = h /\ e.groups[f.group] # NULL }
        = { f \in d.flows : f.ip = h /\ d.groups[f.group] # NULL }
  OBVIOUS
<1>2. { Range(e.groups[f.group]) :
          f \in { f \in e.flows : f.ip = h /\ e.groups[f.group] # NULL } }
        = { Range(d.groups[f.group]) :
              f \in { f \in d.flows : f.ip = h /\ d.groups[f.group] # NULL } }
  BY <1>1
<1> QED
  BY <1>2 DEF CopiesMade

\* So does every other source when a step changes only g's flows and group.
LEMMA CopiesOfOthers ==
  ASSUME NEW d, NEW e, NEW g, NEW id, SoundSwitch(d),
         OwnGroup(d, id, g), e.hooks = d.hooks,
         \A f : f.ip # g => (f \in e.flows <=> f \in d.flows),
         \A x \in 0..MaxGroupId : x # id => e.groups[x] = d.groups[x]
  PROVE  Recopies(d, e, g, CopiesMade(e, g))
<1> SUFFICES ASSUME NEW h \in GroupIPs, h # g
             PROVE  CopiesMade(e, h) = CopiesMade(d, h)
  BY DEF Recopies
<1>1. \A f \in d.flows : f.ip = h => e.groups[f.group] = d.groups[f.group]
  BY DEF OwnGroup, SoundSwitch
<1>2. \A f : f.ip = h => (f \in e.flows <=> f \in d.flows)
  OBVIOUS
<1> QED
  BY <1>1, <1>2, CopiesUnchanged

\* a message the switch processes without a complaint
Clean(d, e) == SoundSwitch(e) /\ e.hooks = d.hooks

\* A packet for the upstream switch, or the role request.
LEMMA ServePacketOut ==
  ASSUME NEW d, SoundSwitch(d), NEW g \in GroupIPs, NEW r \in {"join", "leave"},
         NEW e, e = Switch!Apply(d, PacketOut(g, r))
  PROVE  /\ Clean(d, e) /\ Unserved(d, e)
         /\ e.flows = d.flows /\ e.groups = d.groups
<1> DEFINE us == [d.upstream EXCEPT ![g] = r]
<1>1. e = [d EXCEPT !.upstream = us]
  BY DEF Switch!Apply, PacketOut
<1>2. /\ e \in Datapath /\ e.flows = d.flows /\ e.groups = d.groups
      /\ e.refused = d.refused /\ e.hooks = d.hooks
  <2>1. d \in Datapath
    BY DEF SoundSwitch
  <2>2. us \in [GroupIPs -> {"none", "join", "leave"}]
    BY <2>1 DEF Datapath
  <2> HIDE DEF us
  <2> QED
    BY <1>1, <2>1, <2>2 DEF Datapath
<1>3. SameCopies(d, e)
  BY <1>2, CopiesUnchanged DEF SameCopies
<1> QED
  BY <1>2, <1>3 DEF SoundSwitch, Clean, Unserved

\* A hook opens a source.
LEMMA ServeHook ==
  ASSUME NEW d, SoundSwitch(d), NEW g \in GroupIPs,
         NEW e, e = Switch!Apply(d, HookFlowMod(g))
  PROVE  SoundSwitch(e) /\ Opens(d, e, g)
<1>1. e = [d EXCEPT !.hooks = @ \cup {g}]
  BY DEF Switch!Apply, HookFlowMod
<1>2. /\ e \in Datapath /\ e.flows = d.flows /\ e.groups = d.groups
      /\ e.refused = d.refused /\ e.hooks = d.hooks \cup {g}
  BY <1>1 DEF Datapath, SoundSwitch
<1>3. SameCopies(d, e)
  BY <1>2, CopiesUnchanged DEF SameCopies
<1> QED
  BY <1>2, <1>3 DEF SoundSwitch, Opens

\* A group no flow points at yet changes no copy.
LEMMA ServeAddGroup ==
  ASSUME NEW d, SoundSwitch(d), NEW id \in 0..MaxGroupId,
         NEW bs \in Seq(Bucket), d.groups[id] = NULL,
         NEW e, e = Switch!Apply(d, GroupMod("ADD", id, bs))
  PROVE  /\ Clean(d, e) /\ Unserved(d, e)
         /\ e.flows = d.flows /\ e.groups[id] = bs
<1> DEFINE gs == [d.groups EXCEPT ![id] = bs]
<1>1. e = [d EXCEPT !.groups = gs]
  <2>1. e = Switch!AddGroup(d, id, bs)
    BY DEF Switch!Apply, GroupMod
  <2> QED
    BY <2>1 DEF Switch!AddGroup
<1>2. /\ e \in Datapath /\ e.flows = d.flows /\ e.groups[id] = bs
      /\ e.refused = d.refused /\ e.hooks = d.hooks
      /\ \A x \in 0..MaxGroupId : x # id => e.groups[x] = d.groups[x]
  <2>1. d \in Datapath
    BY DEF SoundSwitch
  <2>2. /\ gs \in [0..MaxGroupId -> Seq(Bucket) \cup {NULL}]
        /\ gs[id] = bs
        /\ \A x \in 0..MaxGroupId : x # id => gs[x] = d.groups[x]
    BY <2>1 DEF Datapath
  <2> HIDE DEF gs
  <2> QED
    BY <1>1, <2>1, <2>2 DEF Datapath
<1>3. \A f \in d.flows : e.groups[f.group] = d.groups[f.group]
  BY <1>2 DEF SoundSwitch
<1>4. \A h \in GroupIPs : CopiesMade(e, h) = CopiesMade(d, h)
  BY <1>2, <1>3, CopiesUnchanged
<1> QED
  BY <1>2, <1>3, <1>4 DEF SoundSwitch, Clean, Unserved, SameCopies

\* A first flow of a source makes the copies of the group it points at.
LEMMA ServeAddFlow ==
  ASSUME NEW d, SoundSwitch(d), NEW id \in 0..MaxGroupId, d.groups[id] # NULL,
         NEW g \in GroupIPs, NEW flow \in Flow, flow.group = id, flow.ip = g,
         \A f \in d.flows : f.group # id /\ f.ip # g,
         NEW e, e = Switch!Apply(d, FlowMod("ADD", flow))
  PROVE  /\ Clean(d, e)
         /\ CopiesMade(d, g) = {}
         /\ Recopies(d, e, g, Range(d.groups[id]))
<1> DEFINE fs == { f \in d.flows : ~Switch!SameMatch(f, flow) } \cup {flow}
<1>1. e = [d EXCEPT !.flows = fs]
  <2>1. e = Switch!AddFlow(d, flow)
    BY DEF Switch!Apply, FlowMod
  <2> QED
    BY <2>1 DEF Switch!AddFlow
<1>2. fs \in SUBSET Flow
  BY DEF Datapath, SoundSwitch
<1>3. \A f : f \in fs <=> f \in d.flows \/ f = flow
  BY DEF Switch!SameMatch
<1> HIDE DEF fs
<1>4. /\ e \in Datapath /\ e.flows = fs /\ e.groups = d.groups
      /\ e.refused = d.refused /\ e.hooks = d.hooks
  BY <1>1, <1>2 DEF Datapath, SoundSwitch
<1>5. CopiesMade(d, g) = {}
  BY CopiesOfGroup
<1>6. CopiesMade(e, g) = Range(d.groups[id])
  <2>1. /\ \A f \in e.flows : f.ip = g => f.group = id
        /\ \E f \in e.flows : f.ip = g
        /\ e.groups[id] # NULL
    BY <1>3, <1>4
  <2> QED
    BY <1>4, <2>1, CopiesOfGroup
<1>7. OwnGroup(d, id, g)
  BY DEF OwnGroup
<1>8. Recopies(d, e, g, CopiesMade(e, g))
  BY <1>3, <1>4, <1>7, CopiesOfOthers
<1> QED
  BY <1>3, <1>4, <1>5, <1>6, <1>8 DEF Clean, SoundSwitch

\* A modified group makes the copies of its new buckets.
LEMMA ServeModify ==
  ASSUME NEW d, SoundSwitch(d), NEW id \in 0..MaxGroupId,
         NEW bs \in Seq(Bucket), d.groups[id] # NULL,
         NEW g \in GroupIPs, OwnGroup(d, id, g), \E f \in d.flows : f.ip = g,
         NEW e, e = Switch!Apply(d, GroupMod("MODIFY", id, bs))
  PROVE  /\ Clean(d, e)
         /\ CopiesMade(d, g) = Range(d.groups[id])
         /\ Recopies(d, e, g, Range(bs))
<1> DEFINE gs == [d.groups EXCEPT ![id] = bs]
<1>1. e = [d EXCEPT !.groups = gs]
  <2>1. e = Switch!ModifyGroup(d, id, bs)
    BY DEF Switch!Apply, GroupMod
  <2> QED
    BY <2>1 DEF Switch!ModifyGroup
<1>2. /\ e \in Datapath /\ e.flows = d.flows /\ e.groups[id] = bs
      /\ e.refused = d.refused /\ e.hooks = d.hooks
      /\ \A x \in 0..MaxGroupId : x # id => e.groups[x] = d.groups[x]
      /\ bs # NULL
  <2>1. d \in Datapath
    BY DEF SoundSwitch
  <2>2. /\ gs \in [0..MaxGroupId -> Seq(Bucket) \cup {NULL}]
        /\ gs[id] = bs
        /\ \A x \in 0..MaxGroupId : x # id => gs[x] = d.groups[x]
    BY <2>1 DEF Datapath
  <2>3. bs # NULL
    BY NullAssumption
  <2> HIDE DEF gs
  <2> QED
    BY <1>1, <2>1, <2>2, <2>3 DEF Datapath
<1>3. CopiesMade(d, g) = Range(d.groups[id])
  BY CopiesOfGroup DEF OwnGroup
<1>4. CopiesMade(e, g) = Range(bs)
  <2>1. /\ \A f \in e.flows : f.ip = g => f.group = id
        /\ \E f \in e.flows : f.ip = g
        /\ e.groups[id] # NULL
    BY <1>2 DEF OwnGroup
  <2>2. CopiesMade(e, g) = Range(e.groups[id])
    BY <2>1, CopiesOfGroup
  <2> QED
    BY <1>2, <2>2
<1>5. Recopies(d, e, g, CopiesMade(e, g))
  BY <1>2, CopiesOfOthers
<1>6. \A f \in e.flows : f.group \in 0..MaxGroupId /\ e.groups[f.group] # NULL
  BY <1>2 DEF SoundSwitch
<1> QED
  BY <1>2, <1>3, <1>4, <1>5, <1>6 DEF Clean, SoundSwitch

\* Deleting the only flow of a source stops its copies, unless the switch
\* filters by out_port: then it changes nothing.
LEMMA ServeDeleteFlow ==
  ASSUME NEW d, SoundSwitch(d), NEW id \in 0..MaxGroupId,
         NEW g \in GroupIPs, OwnGroup(d, id, g),
         NEW flow, flow.ip = g, flow.group = id,
         \A f \in d.flows : f.ip = g => f = flow,
         NEW e, e = Switch!Apply(d, FlowMod("DELETE", flow))
  PROVE  /\ Clean(d, e)
         /\ OwnGroup(e, id, g)
         /\ Recopies(d, e, g, CopiesMade(e, g))
         /\ CopiesMade(e, g) \in {CopiesMade(d, g), {}}
<1>1. e = Switch!DeleteFlow(d, flow)
  BY DEF Switch!Apply, FlowMod
<1>2. CASE HonoursOutPort
  <2>1. e = d
    BY <1>1, <1>2 DEF Switch!DeleteFlow
  <2> QED
    BY <2>1 DEF Clean, Recopies
<1>3. CASE ~HonoursOutPort
  <2> DEFINE fs == { f \in d.flows : ~(Switch!SameMatch(f, flow)
                                       /\ f.group = flow.group) }
  <2>1. e = [d EXCEPT !.flows = fs]
    BY <1>1, <1>3 DEF Switch!DeleteFlow
  <2>2. \A f : f \in fs <=> f \in d.flows /\ f.ip # g
    BY DEF Switch!SameMatch
  <2>3. fs \in SUBSET Flow
    BY DEF Datapath, SoundSwitch
  <2> HIDE DEF fs
  <2>4. /\ e \in Datapath /\ e.flows = fs /\ e.groups = d.groups
        /\ e.refused = d.refused /\ e.hooks = d.hooks
    BY <2>1, <2>3 DEF Datapath, SoundSwitch
  <2>5. CopiesMade(e, g) = {}
    BY <2>2, <2>4, CopiesOfGroup
  <2>6. Recopies(d, e, g, CopiesMade(e, g))
    BY <2>2, <2>4, CopiesOfOthers
  <2> QED
    BY <2>2, <2>4, <2>5, <2>6 DEF Clean, SoundSwitch, OwnGroup
<1> QED
  BY <1>2, <1>3

\* Deleting a group ends the copies of its source.
LEMMA ServeDeleteGroup ==
  ASSUME NEW d, SoundSwitch(d), NEW id \in 0..MaxGroupId, NEW bs,
         NEW g \in GroupIPs, OwnGroup(d, id, g),
         NEW e, e = Switch!Apply(d, GroupMod("DELETE", id, bs))
  PROVE  Clean(d, e) /\ Recopies(d, e, g, {})
<1> DEFINE kept == { f \in d.flows : f.group # id }
           gs == [d.groups EXCEPT ![id] = NULL]
<1>1. e = [d EXCEPT !.groups = gs, !.flows = kept]
  <2>1. e = Switch!DeleteGroup(d, id)
    BY DEF Switch!Apply, GroupMod
  <2> QED
    BY <2>1 DEF Switch!DeleteGroup
<1>2. d \in Datapath
  BY DEF SoundSwitch
<1>3. \A f : f \in kept <=> f \in d.flows /\ f.ip # g
  BY DEF OwnGroup
<1>4. kept \in SUBSET Flow
  BY <1>2 DEF Datapath
<1>5. /\ gs \in [0..MaxGroupId -> Seq(Bucket) \cup {NULL}]
      /\ \A x \in 0..MaxGroupId : x # id => gs[x] = d.groups[x]
  BY <1>2 DEF Datapath
<1> HIDE DEF kept, gs
<1>6. /\ e \in Datapath /\ e.groups = gs /\ e.flows = kept
      /\ e.hooks = d.hooks /\ e.refused = d.refused
  BY <1>1, <1>2, <1>4, <1>5 DEF Datapath
<1>7. CopiesMade(e, g) = {}
  BY <1>3, <1>6, CopiesOfGroup
<1>8. Recopies(d, e, g, CopiesMade(e, g))
  BY <1>3, <1>5, <1>6, CopiesOfOthers
<1>9. \A f \in e.flows : f.group \in 0..MaxGroupId /\ e.groups[f.group] # NULL
  <2> SUFFICES ASSUME NEW f \in e.flows
               PROVE  f.group \in 0..MaxGroupId /\ e.groups[f.group] # NULL
    OBVIOUS
  <2>1. f \in d.flows /\ f.group # id
    BY <1>3, <1>6 DEF OwnGroup
  <2> QED
    BY <1>5, <1>6, <2>1 DEF SoundSwitch
<1> QED
  BY <1>6, <1>7, <1>8, <1>9 DEF Clean, SoundSwitch

(***************************************************************************)
(* Batch by batch                                                          *)
(***************************************************************************)

\* The batch of a first join: the last message subscribes the receiver.
LEMMA InstallServes ==
  ASSUME NEW d, SoundSwitch(d), NEW g \in GroupIPs, NEW id \in 0..MaxGroupId,
         NEW bs \in Seq(Bucket), NEW b, Range(bs) = {b},
         NEW flow \in Flow, flow.group = id, flow.ip = g,
         d.groups[id] = NULL, \A f \in d.flows : f.ip # g, g \in d.hooks,
         NEW d1, d1 = Switch!Apply(d, PacketOut(g, "join")),
         NEW d2, d2 = Switch!Apply(d1, GroupMod("ADD", id, bs)),
         NEW e, e = Switch!Apply(d2, FlowMod("ADD", flow))
  PROVE  /\ SoundSwitch(d1) /\ Unserved(d, d1)
         /\ SoundSwitch(d2) /\ Unserved(d1, d2)
         /\ SoundSwitch(e) /\ Subscribes(d2, e, g, b)
<1>1. /\ SoundSwitch(d1) /\ Unserved(d, d1) /\ d1.hooks = d.hooks
      /\ d1.flows = d.flows /\ d1.groups = d.groups
  BY ServePacketOut DEF Clean
<1>2. /\ SoundSwitch(d2) /\ Unserved(d1, d2) /\ d2.hooks = d1.hooks
      /\ d2.flows = d1.flows /\ d2.groups[id] = bs
  BY <1>1, ServeAddGroup DEF Clean
<1>3. \A f \in d2.flows : f.group # id /\ f.ip # g
  BY <1>1, <1>2 DEF SoundSwitch
<1>4. bs # NULL
  BY NullAssumption
<1>5. /\ Clean(d2, e) /\ CopiesMade(d2, g) = {}
      /\ Recopies(d2, e, g, Range(d2.groups[id]))
  <2>1. d2.groups[id] # NULL
    BY <1>2, <1>4
  <2> QED
    BY <1>2, <1>3, <2>1, ServeAddFlow
<1> QED
  BY <1>1, <1>2, <1>5 DEF Clean, Subscribes

\* The batch of a root's group: the hook opens the source.
LEMMA RootServes ==
  ASSUME NEW d, SoundSwitch(d), NEW g \in GroupIPs, NEW id \in 0..MaxGroupId,
         NEW bs \in Seq(Bucket), Range(bs) = {},
         NEW flow \in Flow, flow.group = id, flow.ip = g,
         d.groups[id] = NULL, \A f \in d.flows : f.ip # g,
         NEW d1, d1 = Switch!Apply(d, GroupMod("ADD", id, bs)),
         NEW d2, d2 = Switch!Apply(d1, FlowMod("ADD", flow)),
         NEW e, e = Switch!Apply(d2, HookFlowMod(g))
  PROVE  /\ SoundSwitch(d1) /\ Unserved(d, d1)
         /\ SoundSwitch(d2) /\ Unserved(d1, d2)
         /\ SoundSwitch(e) /\ Opens(d2, e, g)
<1>1. /\ SoundSwitch(d1) /\ Unserved(d, d1) /\ d1.hooks = d.hooks
      /\ d1.flows = d.flows /\ d1.groups[id] = bs
  BY ServeAddGroup DEF Clean
<1>2. \A f \in d1.flows : f.group # id /\ f.ip # g
  BY <1>1 DEF SoundSwitch
<1>3. bs # NULL
  BY NullAssumption
<1>4. /\ Clean(d1, d2) /\ CopiesMade(d1, g) = {}
      /\ Recopies(d1, d2, g, Range(d1.groups[id]))
  <2>1. d1.groups[id] # NULL
    BY <1>1, <1>3
  <2> QED
    BY <1>1, <1>2, <2>1, ServeAddFlow
<1>5. Unserved(d1, d2)
  BY <1>1, <1>4 DEF Unserved, SameCopies, Recopies, Clean
<1>6. SoundSwitch(e) /\ Opens(d2, e, g)
  BY <1>4, ServeHook DEF Clean
<1> QED
  BY <1>1, <1>4, <1>5, <1>6 DEF Clean

\* The batch of a last leave: the flow's or else the group's deletion
\* unsubscribes the receiver.
LEMMA RemoveServes ==
  ASSUME NEW d, SoundSwitch(d), NEW g \in GroupIPs, NEW id \in 0..MaxGroupId,
         NEW bs, NEW b, NEW flow, flow.group = id, flow.ip = g,
         OwnGroup(d, id, g), \A f \in d.flows : f.ip = g => f = flow,
         CopiesMade(d, g) = {b},
         NEW d1, d1 = Switch!Apply(d, PacketOut(g, "leave")),
         NEW d2, d2 = Switch!Apply(d1, FlowMod("DELETE", flow)),
         NEW e, e = Switch!Apply(d2, GroupMod("DELETE", id, bs))
  PROVE  /\ SoundSwitch(d1) /\ Unserved(d, d1)
         /\ SoundSwitch(d2) /\ SoundSwitch(e)
         /\ \/ Unserved(d1, d2) /\ Unsubscribes(d2, e, g, b)
            \/ Unsubscribes(d1, d2, g, b) /\ Unserved(d2, e)
<1>1. /\ SoundSwitch(d1) /\ Unserved(d, d1)
      /\ d1.flows = d.flows /\ d1.groups = d.groups
      /\ CopiesMade(d1, g) = {b}
  BY ServePacketOut DEF Clean, Unserved, SameCopies
<1>2. OwnGroup(d1, id, g)
  BY <1>1 DEF OwnGroup
<1>3. /\ Clean(d1, d2) /\ OwnGroup(d2, id, g)
      /\ Recopies(d1, d2, g, CopiesMade(d2, g))
      /\ CopiesMade(d2, g) \in {{b}, {}}
  BY <1>1, <1>2, ServeDeleteFlow
<1>4. Clean(d2, e) /\ Recopies(d2, e, g, {})
  BY <1>3, ServeDeleteGroup DEF Clean
<1>5. CASE CopiesMade(d2, g) = {b}
  BY <1>1, <1>3, <1>4, <1>5
     DEF Clean, Unserved, SameCopies, Unsubscribes, Recopies
<1>6. CASE CopiesMade(d2, g) = {}
  BY <1>1, <1>3, <1>4, <1>6
     DEF Clean, Unserved, SameCopies, Unsubscribes, Recopies
<1> QED
  BY <1>3, <1>5, <1>6

(***************************************************************************)
(* What a join and a leave do to the buckets as a set                      *)
(***************************************************************************)

\* Port numbers that differ still differ when they are cut down to 8 bits.
IntfsDistinct == \A i, j \in Intfs : MemberIntf(i) = MemberIntf(j) => i = j

\* An appended element joins the set of a sequence's elements.
LEMMA RangeOfAppend ==
  ASSUME NEW S, NEW s \in Seq(S), NEW b \in S
  PROVE  Range(Append(s, b)) = Range(s) \cup {b}
<1> DEFINE t == Append(s, b)
<1>1. /\ DOMAIN t = 1..(Len(s) + 1) /\ DOMAIN s = 1..Len(s) /\ Len(s) \in Nat
      /\ \A k \in 1..Len(s) : t[k] = s[k]
      /\ t[Len(s) + 1] = b
  OBVIOUS
<1> HIDE DEF t
<1>2. \A x : x \in Range(t) <=> x \in Range(s) \/ x = b
  BY <1>1 DEF Range
<1> QED
  BY <1>2 DEF t

\* A bucket in the list is a member's, and is sent to that member's interface.
LEMMA BucketsOfMembers ==
  ASSUME TypeOK, BucketsMatchMembers, MembersAtTheirInterface,
         NEW g \in GroupIPs
  PROVE  /\ DOMAIN buckets[g] = 1..Len(buckets[g]) /\ Len(buckets[g]) \in Nat
         /\ \A k \in 1..Len(buckets[g]) :
              \E j \in Intfs : /\ members[g][j] # NULL
                               /\ members[g][j].bucket_index + 1 = k
                               /\ buckets[g][k] = BucketOf(members[g][j])
                               /\ buckets[g][k].out = MemberIntf(j)
         /\ \A j \in Intfs : members[g][j] # NULL =>
              /\ members[g][j].bucket_index + 1 \in 1..Len(buckets[g])
              /\ buckets[g][members[g][j].bucket_index + 1] = BucketOf(members[g][j])
              /\ BucketOf(members[g][j]).out = MemberIntf(j)
              /\ BucketOf(members[g][j]) \in Bucket
<1>1. buckets[g] \in Seq(Bucket)
  BY DEF TypeOK
<1>2. DOMAIN buckets[g] = 1..Len(buckets[g]) /\ Len(buckets[g]) \in Nat
  BY <1>1
<1>3. \A j \in Intfs : members[g][j] # NULL =>
        /\ members[g][j].bucket_index + 1 \in 1..Len(buckets[g])
        /\ buckets[g][members[g][j].bucket_index + 1] = BucketOf(members[g][j])
        /\ BucketOf(members[g][j]).out = MemberIntf(j)
        /\ BucketOf(members[g][j]) \in Bucket
  <2> SUFFICES ASSUME NEW j \in Intfs, members[g][j] # NULL
               PROVE  /\ members[g][j].bucket_index + 1 \in 1..Len(buckets[g])
                      /\ buckets[g][members[g][j].bucket_index + 1]
                           = BucketOf(members[g][j])
                      /\ BucketOf(members[g][j]).out = MemberIntf(j)
                      /\ BucketOf(members[g][j]) \in Bucket
    OBVIOUS
  <2>1. members[g][j] \in Member /\ members[g][j].intf = MemberIntf(j)
    BY DEF TypeOK, MembersAtTheirInterface
  <2>2. members[g][j].bucket_index < Len(buckets[g])
        /\ buckets[g][members[g][j].bucket_index + 1] = BucketOf(members[g][j])
    BY DEF BucketsMatchMembers, IndexPointsAtBucket, MemberIntfs, IsMember
  <2>3. members[g][j].bucket_index \in Nat
    BY <2>1 DEF Member
  <2>4. members[g][j].bucket_index + 1 \in 1..Len(buckets[g])
    BY <1>2, <2>2, <2>3
  <2>5. BucketOf(members[g][j]).out = MemberIntf(j) /\ BucketOf(members[g][j]) \in Bucket
    BY <2>1 DEF BucketOf, Bucket, Member
  <2> QED
    BY <2>2, <2>4, <2>5
<1>4. ASSUME NEW k \in 1..Len(buckets[g])
      PROVE  \E j \in Intfs : /\ members[g][j] # NULL
                              /\ members[g][j].bucket_index + 1 = k
                              /\ buckets[g][k] = BucketOf(members[g][j])
                              /\ buckets[g][k].out = MemberIntf(j)
  <2>1. PICK j \in Intfs : members[g][j] # NULL
                           /\ members[g][j].bucket_index + 1 = k
    BY DEF BucketsMatchMembers, EveryBucketOwned, MemberIntfs, IsMember
  <2> QED
    BY <1>3, <2>1
<1> QED
  BY <1>2, <1>3, <1>4

\* A join adds one bucket, to an interface no other bucket sends to.
LEMMA JoinBuckets ==
  ASSUME AgentInv, MembersAtTheirInterface,
         NEW g \in GroupIPs, NEW i \in Intfs, members[g][i] = NULL,
         NEW b \in Bucket, b.out = MemberIntf(i),
         buckets' = [buckets EXCEPT ![g] = Append(@, b)]
  PROVE  /\ Range(buckets'[g]) = Range(buckets[g]) \cup {b}
         /\ IntfsDistinct => \A a \in Range(buckets[g]) : a.out # b.out
         /\ NoMembers(g) => Range(buckets[g]) = {}
<1>1. TypeOK /\ BucketsMatchMembers /\ buckets[g] \in Seq(Bucket)
  BY DEF AgentInv, TypeOK
<1>2. buckets'[g] = Append(buckets[g], b)
  BY <1>1 DEF TypeOK
<1>3. \A a \in Range(buckets[g]) :
        \E j \in Intfs : members[g][j] # NULL /\ a.out = MemberIntf(j)
  BY <1>1, BucketsOfMembers DEF Range
<1>4. Range(buckets'[g]) = Range(buckets[g]) \cup {b}
  BY <1>1, <1>2, RangeOfAppend
<1> QED
  BY <1>3, <1>4 DEF IntfsDistinct, NoMembers

\* A leave removes the leaver's bucket from the set as well as from the list.
LEMMA LeaveBuckets ==
  ASSUME AgentInv, MembersAtTheirInterface,
         NEW g \in GroupIPs, NEW i \in Intfs, members[g][i] # NULL,
         RemoveMember(g, i),
         NEW b, b = BucketOf(members[g][i])
  PROVE  /\ b \in Bucket /\ b \in Range(buckets[g])
         /\ IntfsDistinct => Range(buckets'[g]) = Range(buckets[g]) \ {b}
         /\ (\A j \in Intfs \ {i} : members[g][j] = NULL)
              => Range(buckets[g]) = {b}
<1> DEFINE s == buckets[g]
           t == buckets'[g]
           n == members[g][i].bucket_index + 1
<1>1. TypeOK /\ BucketsMatchMembers /\ s \in Seq(Bucket)
      /\ members[g][i] \in Member
  BY DEF AgentInv, TypeOK
<1>2. /\ DOMAIN s = 1..Len(s) /\ Len(s) \in Nat
      /\ n \in 1..Len(s) /\ s[n] = b /\ b \in Bucket
      /\ b.out = MemberIntf(i)
  BY <1>1, BucketsOfMembers
<1>3. \A k \in 1..Len(s) : \E j \in Intfs :
        /\ members[g][j] # NULL /\ members[g][j].bucket_index + 1 = k
        /\ s[k].out = MemberIntf(j)
  BY <1>1, BucketsOfMembers
<1>4. t = RemoveAt(s, n)
  <2>1. buckets'[g] = WithoutBucket(buckets[g], members[g][i].bucket_index)
    BY <1>1 DEF RemoveMember, TypeOK
  <2>2. ~(Len(s) <= members[g][i].bucket_index)
    BY <1>1, <1>2 DEF Member
  <2> QED
    BY <2>1, <2>2 DEF WithoutBucket
<1>5. /\ t \in Seq(Bucket) /\ Len(t) = Len(s) - 1
      /\ \A k \in 1..(Len(s) - 1) : t[k] = IF k < n THEN s[k] ELSE s[k + 1]
  BY <1>1, <1>2, <1>4, RemoveAtProperties
<1>6. DOMAIN t = 1..(Len(s) - 1)
  BY <1>5
<1>7. b \in Range(s)
  BY <1>2 DEF Range
<1>8. ASSUME IntfsDistinct PROVE Range(t) = Range(s) \ {b}
  <2>1. \A k \in 1..Len(s) : k # n => s[k] # b
    BY <1>2, <1>3, <1>8 DEF IntfsDistinct
  <2> HIDE DEF s, t, n
  <2>2. ASSUME NEW x \in Range(t) PROVE x \in Range(s) /\ x # b
    <3>1. PICK k \in 1..(Len(s) - 1) : t[k] = x
      BY <1>6 DEF Range
    <3>2. x = s[IF k < n THEN k ELSE k + 1]
      BY <1>5, <3>1
    <3>3. (IF k < n THEN k ELSE k + 1) \in 1..Len(s) \ {n}
      BY <1>2
    <3> QED
      BY <1>2, <2>1, <3>2, <3>3 DEF Range
  <2>3. ASSUME NEW x \in Range(s), x # b PROVE x \in Range(t)
    <3>1. PICK k \in 1..Len(s) : s[k] = x
      BY <1>2 DEF Range
    <3>2. k # n
      BY <1>2, <2>3, <3>1
    <3>3. CASE k < n
      <4>1. k \in 1..(Len(s) - 1) /\ t[k] = s[k]
        BY <1>2, <1>5, <3>3
      <4> QED
        BY <1>6, <3>1, <4>1 DEF Range
    <3>4. CASE ~(k < n)
      <4>1. k - 1 \in 1..(Len(s) - 1) /\ ~(k - 1 < n) /\ (k - 1) + 1 = k
        BY <1>2, <3>2, <3>4
      <4>2. t[k - 1] = s[k]
        BY <1>5, <4>1
      <4> QED
        BY <1>6, <3>1, <4>1, <4>2 DEF Range
    <3> QED
      BY <3>3, <3>4
  <2> QED
    BY <2>2, <2>3
<1>9. ASSUME \A j \in Intfs \ {i} : members[g][j] = NULL
      PROVE  Range(s) = {b}
  <2>1. \A k \in 1..Len(s) : k = n
    BY <1>3, <1>9
  <2> HIDE DEF s, n
  <2>2. \A x \in Range(s) : x = b
    BY <1>2, <2>1 DEF Range
  <2> QED
    BY <1>7, <2>2
<1> QED
  BY <1>2, <1>7, <1>8, <1>9

(***************************************************************************)
(* Handler by handler                                                      *)
(***************************************************************************)

\* the sources that have been opened are those with a session
Hooked(d) ==
  /\ Attached => \A g \in GroupIPs : store[g] # NULL <=> g \in d.hooks
  /\ ofconn \notin Conns => d.hooks = {}

\* what the steps below need of the agent and the switch
ServiceInv(d) ==
  SwInv(d) /\ SoundSwitch(d) /\ MembersAtTheirInterface /\ Hooked(d)

Leads(d, e) == SoundSwitch(e) /\ (IntfsDistinct => Serves(d, e))

\* The messages ms lead from d to e, each one and all together by at most one
\* step of the service.
Batch(d, ms, e) ==
  /\ Leads(d, e)
  /\ \/ ms = <<>> /\ e = d
     \/ \E a : ms = <<a>> /\ e = Switch!Apply(d, a)
     \/ \E a, b, c, d1, d2 :
          /\ ms = <<a, b, c>>
          /\ d1 = Switch!Apply(d, a) /\ Leads(d, d1)
          /\ d2 = Switch!Apply(d1, b) /\ Leads(d1, d2)
          /\ e = Switch!Apply(d2, c) /\ Leads(d2, e)

\* A message that leaves all copies alone may come before one that does not,
LEMMA ServesAfterStutter ==
  ASSUME NEW d, NEW d1, NEW e, Unserved(d, d1), Serves(d1, e)
  PROVE  Serves(d, e)
  BY DEF Serves, Unserved, SameCopies, Opens, Subscribes, Unsubscribes, Recopies

\* or after it: together they are one step of the service.
LEMMA ServesBeforeStutter ==
  ASSUME NEW d, NEW d1, NEW e, Serves(d, d1), Unserved(d1, e)
  PROVE  Serves(d, e)
  BY DEF Serves, Unserved, SameCopies, Opens, Subscribes, Unsubscribes, Recopies

\* No message at all.
LEMMA QuietBatch ==
  ASSUME NEW d, SoundSwitch(d)
  PROVE  Batch(d, <<>>, d)
  BY DEF Batch, Leads, Serves, Unserved, SameCopies

\* Three messages of which only the last or only the second serves.
LEMMA BatchOfThree ==
  ASSUME NEW d, NEW a, NEW b, NEW c,
         NEW d1, d1 = Switch!Apply(d, a), SoundSwitch(d1), Unserved(d, d1),
         NEW d2, d2 = Switch!Apply(d1, b), SoundSwitch(d2),
         NEW e, e = Switch!Apply(d2, c), SoundSwitch(e),
         \/ Unserved(d1, d2) /\ Serves(d2, e)
         \/ Serves(d1, d2) /\ Unserved(d2, e)
  PROVE  Batch(d, <<a, b, c>>, e)
<1>1. Serves(d, d1) /\ Serves(d1, d2) /\ Serves(d2, e)
  BY DEF Serves
<1>2. Serves(d1, e)
  BY ServesAfterStutter, ServesBeforeStutter
<1>3. Serves(d, e)
  BY <1>2, ServesAfterStutter
<1>4. Leads(d, d1) /\ Leads(d1, d2) /\ Leads(d2, e) /\ Leads(d, e)
  BY <1>1, <1>3 DEF Leads
<1> QED
  BY <1>4 DEF Batch

\* What an attached switch holds of a session.
LEMMA SessionFacts ==
  ASSUME NEW d, SwInv(d), Attached, NEW g \in GroupIPs, store[g] # NULL,
         NEW id, id = store[g].groupid,
         NEW flow, flow = DownstreamFlow(g, store[g])
  PROVE  /\ id \in 0..MaxGroupId
         /\ flow \in Flow /\ flow.group = id /\ flow.ip = g
         /\ OwnGroup(d, id, g)
         /\ \A f \in d.flows : f.ip = g => f = flow
         /\ IF Installed(g) THEN d.groups[id] = buckets[g] /\ flow \in d.flows
            ELSE d.groups[id] = NULL /\ \A f \in d.flows : f.ip # g
<1>1. /\ Mirror(d) /\ d \in Datapath /\ TypeOK /\ IdInv
  BY DEF SwInv, SwitchInv, AgentInv
<1>2. id \in 0..MaxGroupId
  BY <1>1, IdsInTable
<1>3. flow \in Flow /\ flow.group = id /\ flow.ip = g
  BY <1>1 DEF TypeOK, DownstreamFlow, Flow, Session
<1>4. ASSUME NEW f \in d.flows
      PROVE  /\ f.group = id <=> f.ip = g
             /\ f.ip = g => f = flow /\ Installed(g)
  <2>1. /\ f.ip \in GroupIPs /\ store[f.ip] # NULL /\ Installed(f.ip)
        /\ f = DownstreamFlow(f.ip, store[f.ip])
    BY <1>1 DEF Mirror, FlowOwned, Datapath, Flow
  <2>2. f.group = store[f.ip].groupid
    BY <2>1 DEF DownstreamFlow
  <2> QED
    BY <1>1, <2>1, <2>2 DEF IdInv, GroupIdsDistinct
<1>5. InSwitch(d, g)
  BY <1>1 DEF Mirror
<1>6. CASE Installed(g)
  BY <1>2, <1>3, <1>4, <1>5, <1>6 DEF InSwitch, OwnGroup
<1>7. CASE ~Installed(g)
  BY <1>2, <1>3, <1>4, <1>5, <1>7 DEF InSwitch, OwnGroup
<1> QED
  BY <1>6, <1>7

\* A join over an attached connection.
LEMMA JoinOut ==
  ASSUME AgentInv, AgentInv', Attached,
         NEW g \in GroupIPs, NEW i \in Intfs, NEW h \in Hosts,
         store[g] # NULL, Join(g, i, h),
         NEW id, id = store[g].groupid,
         NEW flow, flow = DownstreamFlow(g, store[g])
  PROVE  \/ out' = <<>>
         \/ /\ members[g][i] = NULL
            /\ \E b \in Bucket :
                 /\ b.out = MemberIntf(i)
                 /\ buckets' = [buckets EXCEPT ![g] = Append(@, b)]
            /\ buckets'[g] \in Seq(Bucket)
            /\ \/ /\ IsFirst(g)
                  /\ out' = <<PacketOut(g, "join"),
                              GroupMod("ADD", id, buckets'[g]),
                              FlowMod("ADD", flow)>>
               \/ /\ ~IsFirst(g)
                  /\ out' = <<GroupMod("MODIFY", id, buckets'[g])>>
<1> DEFINE m == [host |-> h, intf |-> MemberIntf(i),
                 bucket_index |-> Len(buckets[g])]
<1>1. CASE out' = <<>>
  BY <1>1
<1>2. CASE /\ ~IsMember(g, i) /\ AddMember(g, i, m)
           /\ \/ IsFirst(g) /\ Send(InstallMessages(g, groupmod'[g]))
              \/ /\ ~IsFirst(g)
                 /\ Send(<<GroupMod("MODIFY", groupmod'[g].group_id,
                                    groupmod'[g].buckets)>>)
  <2>1. m \in Member
    BY NewMemberType DEF AgentInv
  <2>2. BucketOf(m) \in Bucket /\ BucketOf(m).out = MemberIntf(i)
    BY <2>1 DEF BucketOf, Bucket, Member
  <2>3. members[g][i] = NULL
    BY <1>2 DEF IsMember
  <2>4. buckets' = [buckets EXCEPT ![g] = Append(@, BucketOf(m))]
    BY <1>2 DEF AddMember
  <2>5. groupmod'[g].group_id = store[g].groupid
    BY <1>2 DEF AddMember, AgentInv, TypeOK
  <2>6. groupmod'[g].buckets = buckets'[g] /\ buckets'[g] \in Seq(Bucket)
    BY DEF AgentInv, GroupModInStep, TypeOK
  <2> HIDE DEF m
  <2>7. CASE IsFirst(g) /\ Send(InstallMessages(g, groupmod'[g]))
    <3>1. out' = <<PacketOut(g, "join"), GroupMod("ADD", id, buckets'[g]),
                   FlowMod("ADD", flow)>>
      BY <2>5, <2>6, <2>7 DEF Send, InstallMessages, Attached
    <3> QED
      BY <2>2, <2>3, <2>4, <2>6, <2>7, <3>1
  <2>8. CASE /\ ~IsFirst(g)
             /\ Send(<<GroupMod("MODIFY", groupmod'[g].group_id,
                                groupmod'[g].buckets)>>)
    <3>1. out' = <<GroupMod("MODIFY", id, buckets'[g])>>
      BY <2>5, <2>6, <2>8 DEF Send, Attached
    <3> QED
      BY <2>2, <2>3, <2>4, <2>6, <2>8, <3>1
  <2> QED
    BY <1>2, <2>7, <2>8
<1> QED
  BY <1>1, <1>2 DEF Join

\* A leave over an attached connection.
LEMMA LeaveOut ==
  ASSUME AgentInv, AgentInv', Attached,
         NEW g \in GroupIPs, NEW i \in Intfs, store[g] # NULL, Leave(g, i),
         NEW id, id = store[g].groupid,
         NEW flow, flow = DownstreamFlow(g, store[g])
  PROVE  \/ out' = <<>>
         \/ /\ members[g][i] # NULL /\ Installed(g)
            /\ RemoveMember(g, i)
            /\ buckets'[g] \in Seq(Bucket)
            /\ \/ /\ \A j \in Intfs \ {i} : members[g][j] = NULL
                  /\ out' = <<PacketOut(g, "leave"), FlowMod("DELETE", flow),
                              GroupMod("DELETE", id, buckets'[g])>>
               \/ out' = <<GroupMod("MODIFY", id, buckets'[g])>>
<1>1. CASE out' = <<>>
  BY <1>1
<1>2. CASE /\ IsMember(g, i)
           /\ RemoveMember(g, i)
           /\ \/ IsLast(g, i) /\ Send(RemoveMessages(g, groupmod'[g]))
              \/ /\ ~IsLast(g, i)
                 /\ Send(<<GroupMod("MODIFY", groupmod'[g].group_id,
                                    groupmod'[g].buckets)>>)
  <2>1. members[g][i] # NULL /\ Installed(g)
    BY <1>2 DEF IsMember, NoMembers, Installed
  <2>2. groupmod'[g].group_id = id
    BY <1>2, <2>1 DEF RemoveMember, AgentInv, TypeOK, GroupModInStep, Installed
  <2>3. groupmod'[g].buckets = buckets'[g] /\ buckets'[g] \in Seq(Bucket)
    BY DEF AgentInv, GroupModInStep, TypeOK
  <2>4. CASE IsLast(g, i) /\ Send(RemoveMessages(g, groupmod'[g]))
    <3>1. out' = <<PacketOut(g, "leave"), FlowMod("DELETE", flow),
                   GroupMod("DELETE", id, buckets'[g])>>
      BY <2>2, <2>3, <2>4 DEF Send, RemoveMessages, Attached
    <3> QED
      BY <1>2, <2>1, <2>3, <2>4, <3>1 DEF IsLast
  <2>5. CASE Send(<<GroupMod("MODIFY", groupmod'[g].group_id,
                             groupmod'[g].buckets)>>)
    <3>1. out' = <<GroupMod("MODIFY", id, buckets'[g])>>
      BY <2>2, <2>3, <2>5 DEF Send, Attached
    <3> QED
      BY <1>2, <2>1, <2>3, <3>1
  <2> QED
    BY <1>2, <2>4, <2>5
<1> QED
  BY <1>1, <1>2 DEF Leave

\* A batch is what AfterBatch computes.
LEMMA BatchIsAfterBatch ==
  ASSUME NEW d, NEW ms, NEW e, Batch(d, ms, e)
  PROVE  e = AfterBatch(d, ms)
<1>1. CASE ms = <<>> /\ e = d
  BY <1>1, NoMessage
<1>2. ASSUME NEW a, ms = <<a>>, e = Switch!Apply(d, a)
      PROVE  e = AfterBatch(d, ms)
  BY <1>2, OneMessage
<1>3. ASSUME NEW a, NEW b, NEW c, NEW d1, NEW d2, ms = <<a, b, c>>,
             d1 = Switch!Apply(d, a), d2 = Switch!Apply(d1, b),
             e = Switch!Apply(d2, c)
      PROVE  e = AfterBatch(d, ms)
  BY <1>3, ThreeMessages
<1> QED
  BY <1>1, <1>2, <1>3 DEF Batch

\* MODIFY subscribes or unsubscribes one receiver.
LEMMA ModifyServes ==
  ASSUME NEW d, SoundSwitch(d), NEW id \in 0..MaxGroupId, NEW g \in GroupIPs,
         NEW old \in Seq(Bucket), d.groups[id] = old, NEW bs \in Seq(Bucket),
         OwnGroup(d, id, g), \E f \in d.flows : f.ip = g,
         IntfsDistinct =>
           \E b \in Bucket :
             \/ /\ Range(bs) = Range(old) \cup {b} /\ g \in d.hooks
                /\ \A a \in Range(old) : a.out # b.out
             \/ Range(bs) = Range(old) \ {b} /\ b \in Range(old),
         NEW m, m = GroupMod("MODIFY", id, bs),
         NEW e, e = Switch!Apply(d, m)
  PROVE  Batch(d, <<m>>, e) /\ e.hooks = d.hooks
<1>1. old # NULL
  BY NullAssumption
<1>2. /\ Clean(d, e) /\ CopiesMade(d, g) = Range(old)
      /\ Recopies(d, e, g, Range(bs))
  BY <1>1, ServeModify
<1>3. ASSUME IntfsDistinct PROVE Serves(d, e)
  <2>1. PICK b \in Bucket :
          \/ /\ Range(bs) = Range(old) \cup {b} /\ g \in d.hooks
             /\ \A a \in Range(old) : a.out # b.out
          \/ Range(bs) = Range(old) \ {b} /\ b \in Range(old)
    BY <1>3
  <2>2. Subscribes(d, e, g, b) \/ Unsubscribes(d, e, g, b)
    BY <1>2, <2>1 DEF Subscribes, Unsubscribes
  <2> QED
    BY <2>2 DEF Serves
<1>4. Leads(d, e)
  BY <1>2, <1>3 DEF Leads, Clean
<1> QED
  BY <1>2, <1>4 DEF Batch, Clean

\* join_member_to_group
LEMMA JoinServes ==
  ASSUME NEW d, ServiceInv(d), AgentInv', Attached,
         NEW g \in GroupIPs, NEW i \in Intfs, NEW h \in Hosts,
         store[g] # NULL, Join(g, i, h)
  PROVE  \E e : Batch(d, out', e) /\ e.hooks = d.hooks
<1>1. PICK id, flow : id = store[g].groupid /\ flow = DownstreamFlow(g, store[g])
  OBVIOUS
<1>2. /\ AgentInv /\ SwInv(d) /\ SoundSwitch(d) /\ MembersAtTheirInterface
      /\ g \in d.hooks
  BY DEF ServiceInv, SwInv, Hooked
<1>3. /\ id \in 0..MaxGroupId
      /\ flow \in Flow /\ flow.group = id /\ flow.ip = g
      /\ OwnGroup(d, id, g)
      /\ Installed(g) => d.groups[id] = buckets[g] /\ flow \in d.flows
      /\ ~Installed(g) => d.groups[id] = NULL /\ \A f \in d.flows : f.ip # g
  BY <1>1, <1>2, SessionFacts
<1>4. CASE out' = <<>>
  BY <1>2, <1>4, QuietBatch
<1>5. ASSUME members[g][i] = NULL, NEW b \in Bucket, b.out = MemberIntf(i),
             buckets' = [buckets EXCEPT ![g] = Append(@, b)],
             NEW bs, bs = buckets'[g], bs \in Seq(Bucket),
             \/ /\ IsFirst(g)
                /\ out' = <<PacketOut(g, "join"), GroupMod("ADD", id, bs),
                            FlowMod("ADD", flow)>>
             \/ /\ ~IsFirst(g)
                /\ out' = <<GroupMod("MODIFY", id, bs)>>
      PROVE  \E e : Batch(d, out', e) /\ e.hooks = d.hooks
  <2>1. /\ Range(bs) = Range(buckets[g]) \cup {b}
        /\ IntfsDistinct => \A a \in Range(buckets[g]) : a.out # b.out
        /\ NoMembers(g) => Range(buckets[g]) = {}
    BY <1>2, <1>5, JoinBuckets
  <2>2. CASE IsFirst(g) /\ out' = <<PacketOut(g, "join"),
                                    GroupMod("ADD", id, bs), FlowMod("ADD", flow)>>
    <3>1. NoMembers(g) /\ ~Installed(g) /\ Range(bs) = {b}
      BY <2>1, <2>2 DEF IsFirst, Installed
    <3>2. PICK d1, d2, e : /\ d1 = Switch!Apply(d, PacketOut(g, "join"))
                           /\ d2 = Switch!Apply(d1, GroupMod("ADD", id, bs))
                           /\ e = Switch!Apply(d2, FlowMod("ADD", flow))
      OBVIOUS
    <3>3. /\ SoundSwitch(d1) /\ Unserved(d, d1)
          /\ SoundSwitch(d2) /\ Unserved(d1, d2)
          /\ SoundSwitch(e) /\ Subscribes(d2, e, g, b)
      <4>1. /\ SoundSwitch(d) /\ id \in 0..MaxGroupId /\ bs \in Seq(Bucket)
            /\ Range(bs) = {b} /\ flow \in Flow /\ flow.group = id
            /\ flow.ip = g /\ d.groups[id] = NULL /\ g \in d.hooks
            /\ \A f \in d.flows : f.ip # g
        BY <1>2, <1>3, <1>5, <3>1
      <4> QED
        BY <3>2, <4>1, InstallServes
    <3>4. Serves(d2, e) /\ e.hooks = d.hooks
      BY <1>5, <3>3 DEF Serves, Unserved, Subscribes, Recopies
    <3>5. Batch(d, out', e)
      BY <2>2, <3>2, <3>3, <3>4, BatchOfThree
    <3> QED
      BY <3>4, <3>5
  <2>3. CASE ~IsFirst(g) /\ out' = <<GroupMod("MODIFY", id, bs)>>
    <3>1. Installed(g)
      BY <2>3 DEF IsFirst, Installed
    <3>2. /\ d.groups[id] = buckets[g] /\ buckets[g] \in Seq(Bucket)
          /\ \E f \in d.flows : f.ip = g
      BY <1>2, <1>3, <3>1 DEF AgentInv, TypeOK
    <3>3. PICK m, e : m = GroupMod("MODIFY", id, bs) /\ e = Switch!Apply(d, m)
      OBVIOUS
    <3>4. PICK old \in Seq(Bucket) : old = buckets[g]
      BY <3>2
    <3>5. IntfsDistinct =>
            \E x \in Bucket :
              \/ /\ Range(bs) = Range(old) \cup {x} /\ g \in d.hooks
                 /\ \A a \in Range(old) : a.out # x.out
              \/ Range(bs) = Range(old) \ {x} /\ x \in Range(old)
      BY <1>2, <1>5, <2>1, <3>4
    <3>6. Batch(d, <<m>>, e) /\ e.hooks = d.hooks
      <4>1. /\ SoundSwitch(d) /\ id \in 0..MaxGroupId /\ bs \in Seq(Bucket)
            /\ d.groups[id] = old /\ OwnGroup(d, id, g)
            /\ \E f \in d.flows : f.ip = g
        BY <1>2, <1>3, <1>5, <3>2, <3>4
      <4> QED
        BY <3>3, <3>5, <4>1, ModifyServes
    <3> QED
      BY <2>3, <3>3, <3>6
  <2> QED
    BY <1>5, <2>2, <2>3
<1>6. \/ out' = <<>>
      \/ /\ members[g][i] = NULL
         /\ \E b \in Bucket :
              /\ b.out = MemberIntf(i)
              /\ buckets' = [buckets EXCEPT ![g] = Append(@, b)]
         /\ buckets'[g] \in Seq(Bucket)
         /\ \/ /\ IsFirst(g)
               /\ out' = <<PacketOut(g, "join"),
                           GroupMod("ADD", id, buckets'[g]),
                           FlowMod("ADD", flow)>>
            \/ /\ ~IsFirst(g)
               /\ out' = <<GroupMod("MODIFY", id, buckets'[g])>>
  BY <1>1, <1>2, JoinOut
<1> QED
  BY <1>4, <1>5, <1>6

\* leave_member_from_group
LEMMA LeaveServes ==
  ASSUME NEW d, ServiceInv(d), AgentInv', Attached,
         NEW g \in GroupIPs, NEW i \in Intfs, store[g] # NULL, Leave(g, i)
  PROVE  \E e : Batch(d, out', e) /\ e.hooks = d.hooks
<1>1. PICK id, flow : id = store[g].groupid /\ flow = DownstreamFlow(g, store[g])
  OBVIOUS
<1>2. /\ AgentInv /\ SwInv(d) /\ SoundSwitch(d) /\ MembersAtTheirInterface
  BY DEF ServiceInv, SwInv
<1>3. /\ id \in 0..MaxGroupId
      /\ flow \in Flow /\ flow.group = id /\ flow.ip = g
      /\ OwnGroup(d, id, g)
      /\ \A f \in d.flows : f.ip = g => f = flow
      /\ Installed(g) => d.groups[id] = buckets[g] /\ flow \in d.flows
  BY <1>1, <1>2, SessionFacts
<1>4. CASE out' = <<>>
  BY <1>2, <1>4, QuietBatch
<1>5. ASSUME members[g][i] # NULL, Installed(g), RemoveMember(g, i),
             NEW bs, bs = buckets'[g], bs \in Seq(Bucket),
             \/ /\ \A j \in Intfs \ {i} : members[g][j] = NULL
                /\ out' = <<PacketOut(g, "leave"), FlowMod("DELETE", flow),
                            GroupMod("DELETE", id, bs)>>
             \/ out' = <<GroupMod("MODIFY", id, bs)>>
      PROVE  \E e : Batch(d, out', e) /\ e.hooks = d.hooks
  <2>1. PICK b : b = BucketOf(members[g][i])
    OBVIOUS
  <2>2. /\ b \in Bucket /\ b \in Range(buckets[g])
        /\ IntfsDistinct => Range(bs) = Range(buckets[g]) \ {b}
        /\ (\A j \in Intfs \ {i} : members[g][j] = NULL)
             => Range(buckets[g]) = {b}
    BY <1>2, <1>5, <2>1, LeaveBuckets
  <2>3. /\ d.groups[id] = buckets[g] /\ buckets[g] \in Seq(Bucket)
        /\ \E f \in d.flows : f.ip = g
    BY <1>2, <1>3, <1>5 DEF AgentInv, TypeOK
  <2>4. CASE /\ \A j \in Intfs \ {i} : members[g][j] = NULL
             /\ out' = <<PacketOut(g, "leave"), FlowMod("DELETE", flow),
                         GroupMod("DELETE", id, bs)>>
    <3>1. PICK d1, d2, e : /\ d1 = Switch!Apply(d, PacketOut(g, "leave"))
                           /\ d2 = Switch!Apply(d1, FlowMod("DELETE", flow))
                           /\ e = Switch!Apply(d2, GroupMod("DELETE", id, bs))
      OBVIOUS
    <3>2. CopiesMade(d, g) = {b}
      <4>1. d.groups[id] # NULL
        BY <2>3, NullAssumption
      <4>2. CopiesMade(d, g) = Range(d.groups[id])
        <5>1. \A f \in d.flows : f.ip = g => f.group = id
          BY <1>3 DEF OwnGroup
        <5> QED
          BY <2>3, <4>1, <5>1, CopiesOfGroup
      <4> QED
        BY <2>2, <2>3, <2>4, <4>2
    <3>3. /\ SoundSwitch(d1) /\ Unserved(d, d1)
          /\ SoundSwitch(d2) /\ SoundSwitch(e)
          /\ \/ Unserved(d1, d2) /\ Unsubscribes(d2, e, g, b)
             \/ Unsubscribes(d1, d2, g, b) /\ Unserved(d2, e)
      BY <1>2, <1>3, <3>1, <3>2, RemoveServes
    <3>4. /\ \/ Unserved(d1, d2) /\ Serves(d2, e)
             \/ Serves(d1, d2) /\ Unserved(d2, e)
          /\ e.hooks = d.hooks
      BY <2>2, <3>3 DEF Serves, Unserved, Unsubscribes, Recopies
    <3>5. Batch(d, out', e)
      BY <2>4, <3>1, <3>3, <3>4, BatchOfThree
    <3> QED
      BY <3>4, <3>5
  <2>5. CASE out' = <<GroupMod("MODIFY", id, bs)>>
    <3>1. PICK m, e : m = GroupMod("MODIFY", id, bs) /\ e = Switch!Apply(d, m)
      OBVIOUS
    <3>2. PICK old \in Seq(Bucket) : old = buckets[g]
      BY <2>3
    <3>3. Batch(d, <<m>>, e) /\ e.hooks = d.hooks
      BY <1>2, <1>3, <1>5, <2>2, <2>3, <3>1, <3>2, ModifyServes
    <3> QED
      BY <2>5, <3>1, <3>3
  <2> QED
    BY <1>5, <2>4, <2>5
<1>6. \/ out' = <<>>
      \/ /\ members[g][i] # NULL /\ Installed(g)
         /\ RemoveMember(g, i)
         /\ buckets'[g] \in Seq(Bucket)
         /\ \/ /\ \A j \in Intfs \ {i} : members[g][j] = NULL
               /\ out' = <<PacketOut(g, "leave"), FlowMod("DELETE", flow),
                           GroupMod("DELETE", id, buckets'[g])>>
            \/ out' = <<GroupMod("MODIFY", id, buckets'[g])>>
  BY <1>1, <1>2, LeaveOut
<1> QED
  BY <1>4, <1>5, <1>6

\* create_group
LEMMA CreateGroupServes ==
  ASSUME NEW d, ServiceInv(d), TypeOK', IdInv',
         NEW g \in GroupIPs, NEW dip \in DestIPs, NEW sport \in UdpPorts,
         NEW dport \in UdpPorts, NEW is_root \in BOOLEAN,
         CreateGroup(g, dip, sport, dport, is_root)
  PROVE  \E e : Batch(d, out', e) /\ Hooked(e)'
<1> DEFINE s == [sport |-> sport, dport |-> dport, is_root |-> is_root,
                 groupid |-> OFMsgGroupIdGen']
           flow == DownstreamFlow(g, s)
<1>1. /\ AgentInv /\ SwInv(d) /\ SoundSwitch(d) /\ Hooked(d)
      /\ Attached' <=> Attached
      /\ Attached => Mirror(d)
  BY DEF ServiceInv, SwInv, SwitchInv, Attached, CreateGroup
<1>2. CASE out' = <<>> /\ (UNCHANGED store \/ ~Attached)
  <2>1. Hooked(d)'
    BY <1>1, <1>2 DEF Hooked, CreateGroup
  <2> QED
    BY <1>1, <1>2, <2>1, QuietBatch
<1>3. CASE /\ Attached /\ store[g] = NULL /\ store' = [store EXCEPT ![g] = s]
           /\ \/ /\ is_root
                 /\ Send(<<GroupMod("ADD", s.groupid, groupmod[g].buckets),
                           FlowMod("ADD", flow), HookFlowMod(g)>>)
              \/ ~is_root /\ Send(<<HookFlowMod(g)>>)
  <2>1. PICK id : id = OFMsgGroupIdGen'
    OBVIOUS
  <2>2. /\ store'[g] = s /\ s.groupid = id
        /\ \A h \in GroupIPs \ {g} : store'[h] = store[h]
    BY <1>1, <1>3, <2>1 DEF AgentInv, TypeOK
  <2> HIDE DEF s
  <2>3. s # NULL /\ s \in Session
    BY <2>2, NullAssumption DEF TypeOK, s, Session
  <2>4. groupmod[g].buckets = <<>>
    BY <1>1, <1>3 DEF AgentInv, GroupModInStep
  <2>5. flow \in Flow /\ flow.group = id /\ flow.ip = g
    BY <2>2, <2>3 DEF DownstreamFlow, Flow, Session
  <2>6. id \in 0..MaxGroupId
    <3>1. OFMsgGroupIdGen' \in Nat
      BY BoundAssumption DEF TypeOK
    <3>2. OFMsgGroupIdGen' <= MaxGroupId
      BY DEF IdInv, GroupIdsDrawn
    <3> QED
      BY <2>1, <3>1, <3>2, BoundAssumption
  <2>7. d.groups[id] = NULL
    <3>1. SUFFICES ASSUME d.groups[id] # NULL PROVE FALSE
      OBVIOUS
    <3>2. PICK h \in GroupIPs : store[h] # NULL /\ store[h].groupid = id
      BY <1>1, <1>3, <2>6, <3>1 DEF Mirror
    <3>3. h # g /\ store'[h] = store[h]
      BY <1>3, <2>2, <3>2
    <3> QED
      BY <2>2, <2>3, <3>2, <3>3 DEF IdInv, GroupIdsDistinct
  <2>8. \A f \in d.flows : f.ip # g
    BY <1>1, <1>3 DEF Mirror, FlowOwned
  <2>9. \A e : e.hooks = d.hooks \cup {g} => Hooked(e)'
    BY <1>1, <1>3, <2>2, <2>3 DEF Hooked, CreateGroup
  <2>10. CASE Send(<<GroupMod("ADD", s.groupid, groupmod[g].buckets),
                     FlowMod("ADD", flow), HookFlowMod(g)>>)
    <3>1. PICK bs, fl : bs = groupmod[g].buckets /\ fl = flow
      OBVIOUS
    <3>2. out' = <<GroupMod("ADD", id, bs), FlowMod("ADD", fl), HookFlowMod(g)>>
      BY <1>3, <2>2, <2>10, <3>1 DEF Send, Attached
    <3>3. bs \in Seq(Bucket) /\ Range(bs) = {}
      <4>1. bs = <<>>
        BY <2>4, <3>1
      <4>2. bs \in Seq(Bucket) /\ DOMAIN bs = {}
        BY <4>1
      <4> QED
        BY <4>2 DEF Range
    <3>4. PICK d1, d2, e : /\ d1 = Switch!Apply(d, GroupMod("ADD", id, bs))
                           /\ d2 = Switch!Apply(d1, FlowMod("ADD", fl))
                           /\ e = Switch!Apply(d2, HookFlowMod(g))
      OBVIOUS
    <3>5. /\ SoundSwitch(d1) /\ Unserved(d, d1)
          /\ SoundSwitch(d2) /\ Unserved(d1, d2)
          /\ SoundSwitch(e) /\ Opens(d2, e, g)
      <4>1. fl \in Flow /\ fl.group = id /\ fl.ip = g
        BY <2>5, <3>1
      <4> QED
        BY <1>1, <2>6, <2>7, <2>8, <3>3, <3>4, <4>1, RootServes
    <3>6. Serves(d2, e) /\ e.hooks = d.hooks \cup {g}
      BY <3>5 DEF Serves, Unserved, Opens
    <3>7. Batch(d, out', e)
      BY <3>2, <3>4, <3>5, <3>6, BatchOfThree
    <3> QED
      BY <2>9, <3>6, <3>7
  <2>11. CASE Send(<<HookFlowMod(g)>>)
    <3>1. out' = <<HookFlowMod(g)>>
      BY <1>3, <2>11 DEF Send, Attached
    <3>2. PICK e : e = Switch!Apply(d, HookFlowMod(g))
      OBVIOUS
    <3>3. SoundSwitch(e) /\ Opens(d, e, g)
      BY <1>1, <3>2, ServeHook
    <3>4. Leads(d, e) /\ e.hooks = d.hooks \cup {g}
      BY <3>3 DEF Leads, Serves, Opens
    <3>5. Batch(d, out', e)
      BY <3>1, <3>2, <3>4 DEF Batch
    <3> QED
      BY <2>9, <3>4, <3>5
  <2> QED
    BY <1>3, <2>10, <2>11
<1>4. out' = <<>> \/ Attached
  BY DEF CreateGroup, Send, Attached
<1> QED
  BY <1>2, <1>3, <1>4 DEF CreateGroup, DownstreamFlow

\* Steps of a connection, and packet-ins that are dropped.
LEMMA ConnectionServes ==
  ASSUME NEW d, ServiceInv(d), NEW c \in Conns,
         \/ ConnectionStarted(c) \/ SwitchDown(c)
         \/ \E v \in {1, 4} : SwitchUp(c, v)
         \/ UnboundPacketIn(c) \/ ForeignPacketIn(c) \/ IGMPPacketIn(c)
  PROVE  \E e : Batch(d, out', e) /\ Hooked(e)'
<1>1. out' \in {<<>>, <<RoleRequest>>} /\ UNCHANGED state
  BY DEF ConnectionStarted, SwitchUp, SwitchDown, UnboundPacketIn,
         ForeignPacketIn, IGMPPacketIn
<1>2. conn \in [Conns -> {"none", "started", "up", "down"}] /\ BoundWasUp
  BY DEF ServiceInv, SwInv, AgentInv, TypeOK
<1>3. Attached' => Attached \/ ofconn \notin Conns
  BY <1>2, NullAssumption
     DEF ConnectionStarted, SwitchUp, SwitchDown, UnboundPacketIn,
         ForeignPacketIn, IGMPPacketIn, Attached, BoundWasUp, state
<1>4. ofconn \notin Conns => \A g \in GroupIPs : store[g] = NULL
  BY DEF ServiceInv, SwInv, SwitchInv, Untouched
<1>5. Hooked(d)'
  <2>1. ofconn \in Conns => ofconn' = ofconn
    BY NullAssumption
       DEF ConnectionStarted, SwitchUp, SwitchDown, UnboundPacketIn,
           ForeignPacketIn, IGMPPacketIn
  <2> QED
    BY <1>1, <1>3, <1>4, <2>1 DEF Hooked, ServiceInv, state
<1>6. Batch(d, <<>>, d) /\ SoundSwitch(d)
  BY QuietBatch DEF ServiceInv
<1>7. Batch(d, <<RoleRequest>>, d)
  <2>1. Switch!Apply(d, RoleRequest) = d
    BY DEF Switch!Apply, RoleRequest
  <2>2. Leads(d, d)
    BY <1>6 DEF Batch
  <2> QED
    BY <2>1, <2>2 DEF Batch
<1> QED
  BY <1>1, <1>5, <1>6, <1>7

\* Every handler sends a batch that serves, and keeps the invariant for the
\* state the batch leads to.
LEMMA HandlerServes ==
  ASSUME MaxGroupId < IdSpace, NEW d, ServiceInv(d), Next
  PROVE  \E e : Batch(d, out', e) /\ ServiceInv(e)'
<1>1. SwInv(d) /\ AgentInv /\ IdInv /\ TypeOK
  BY DEF ServiceInv, SwInv, AgentInv
<1>2. AgentInv' /\ IdInv' /\ TypeOK'
  BY <1>1, AgentInvStep, GroupIdsStep DEF AgentInv
<1>3. \E e : Batch(d, out', e) /\ Hooked(e)'
  <2>1. ASSUME NEW c \in Conns,
               \/ ConnectionStarted(c) \/ SwitchDown(c)
               \/ \E v \in {1, 4} : SwitchUp(c, v)
               \/ UnboundPacketIn(c) \/ ForeignPacketIn(c) \/ IGMPPacketIn(c)
        PROVE  \E e : Batch(d, out', e) /\ Hooked(e)'
    BY <2>1, ConnectionServes
  <2>2. ASSUME NEW c \in Conns, NEW ip \in GroupIPs, NEW us \in UdpPorts,
               NEW ud \in UdpPorts, NEW port \in InPorts, NEW h \in Hosts,
               UDPPacketIn(c, ip, us, ud, port, h)
        PROVE  \E e : Batch(d, out', e) /\ Hooked(e)'
    <3>1. InIntf(port) \in Intfs
      BY DEF Intfs
    <3>2. Attached /\ UNCHANGED <<conn, ofconn>>
      BY <2>2 DEF UDPPacketIn, Attached
    <3>3. \/ out' = <<>>
          \/ store[ip] # NULL /\ Join(ip, InIntf(port), h)
          \/ store[ip] # NULL /\ Leave(ip, InIntf(port))
      BY <2>2 DEF UDPPacketIn
    <3>4. store' = store
      BY <2>2 DEF UDPPacketIn, Join, Leave, state
    <3>5. \A e : e.hooks = d.hooks => Hooked(e)'
      BY <3>2, <3>4 DEF Hooked, Attached, ServiceInv
    <3>6. \E e : Batch(d, out', e) /\ e.hooks = d.hooks
      <4>1. CASE out' = <<>>
        BY <4>1, QuietBatch DEF ServiceInv
      <4>2. CASE store[ip] # NULL /\ Join(ip, InIntf(port), h)
        BY <1>2, <3>1, <3>2, <4>2, JoinServes
      <4>3. CASE store[ip] # NULL /\ Leave(ip, InIntf(port))
        BY <1>2, <3>1, <3>2, <4>3, LeaveServes
      <4> QED
        BY <3>3, <4>1, <4>2, <4>3
    <3> QED
      BY <3>5, <3>6
  <2>3. ASSUME NEW sip \in GroupIPs, NEW dip \in DestIPs,
               NEW sport \in UdpPorts, NEW dport \in UdpPorts,
               NEW is_root \in BOOLEAN,
               CreateGroup(sip, dip, sport, dport, is_root)
        PROVE  \E e : Batch(d, out', e) /\ Hooked(e)'
    BY <1>2, <2>3, CreateGroupServes
  <2> QED
    BY <2>1, <2>2, <2>3 DEF Next
<1>4. PICK e : Batch(d, out', e) /\ Hooked(e)'
  BY <1>3
<1>5. SwInv(e)'
  <2>1. e = AfterBatch(d, out')
    BY <1>4, BatchIsAfterBatch
  <2> QED
    BY <1>1, <2>1, HandlerInSwitch
<1>6. MembersAtTheirInterface'
  BY <1>1, InterfacesStep DEF ServiceInv
<1>7. SoundSwitch(e)
  BY <1>4 DEF Batch, Leads
<1>8. ServiceInv(e)'
  BY <1>4, <1>5, <1>6, <1>7 DEF ServiceInv, SoundSwitch
<1> QED
  BY <1>4, <1>8

\* A step that changes nothing in the agent.
LEMMA StutterServes ==
  ASSUME NEW d, ServiceInv(d), UNCHANGED vars
  PROVE  ServiceInv(d)'
  BY StutterInSwitch, InterfacesStep
     DEF ServiceInv, SwInv, AgentInv, vars, Hooked, Attached, SoundSwitch,
         MembersAtTheirInterface

(***************************************************************************)
(* The service                                                             *)
(***************************************************************************)

\* The agent and its switch start with no source open and no copy made.
LEMMA ServiceStart == SwInit => ServiceInv(dp) /\ Service!SInit
<1> SUFFICES ASSUME SwInit PROVE ServiceInv(dp) /\ Service!SInit
  OBVIOUS
<1>1. SwInv(dp)
  BY SwStart
<1>2. /\ dp.flows = {} /\ dp.hooks = {} /\ ~dp.refused /\ ~Attached
      /\ MembersAtTheirInterface
  BY NullAssumption, InitEmpty
     DEF SwInit, Init, Switch!EmptyDatapath, Attached, MembersAtTheirInterface,
         NoMembers
<1>3. SoundSwitch(dp)
  BY <1>1, <1>2 DEF SoundSwitch, SwInv, SwitchInv
<1>4. \A g \in GroupIPs : CopiesMade(dp, g) = {}
  BY <1>2, CopiesOfGroup
<1> QED
  BY <1>1, <1>2, <1>3, <1>4 DEF ServiceInv, Hooked, Service!SInit

\* What Serves says of two states of the switch is a step of the service.
LEMMA ServesIsService ==
  ASSUME NEW d, d = dp, NEW e, e = dp', Serves(d, e)
  PROVE  [Service!SNext]_(Service!svars)
<1> DEFINE was == [g \in GroupIPs |-> CopiesMade(d, g)]
           is  == [g \in GroupIPs |-> CopiesMade(e, g)]
<1>1. /\ dp.hooks = d.hooks /\ (dp.hooks)' = e.hooks
      /\ [g \in GroupIPs |-> CopiesMade(dp, g)] = was
      /\ [g \in GroupIPs |-> CopiesMade(dp, g)]' = is
  OBVIOUS
<1>2. ASSUME SameCopies(d, e) PROVE is = was
  BY <1>2 DEF SameCopies
<1>3. ASSUME NEW g \in GroupIPs, NEW bs, Recopies(d, e, g, bs)
      PROVE  is = [was EXCEPT ![g] = bs]
  BY <1>3 DEF Recopies
<1>4. CASE Unserved(d, e)
  BY <1>1, <1>2, <1>4 DEF Unserved, Service!svars
<1>5. ASSUME NEW g \in GroupIPs, Opens(d, e, g)
      PROVE  Service!Open(g)
  BY <1>1, <1>2, <1>5 DEF Opens, Service!Open
<1>6. ASSUME NEW g \in GroupIPs, NEW b \in Bucket, Subscribes(d, e, g, b)
      PROVE  Service!Subscribe(g, b)
  <2>1. is = [was EXCEPT ![g] = @ \cup {b}]
    BY <1>3, <1>6 DEF Subscribes
  <2>2. /\ e.hooks = d.hooks /\ g \in d.hooks
        /\ \A a \in was[g] : a.out # b.out
    BY <1>6 DEF Subscribes, Recopies
  <2> HIDE DEF is, was
  <2> QED
    BY <1>1, <2>1, <2>2 DEF Service!Subscribe
<1>7. ASSUME NEW g \in GroupIPs, NEW b \in Bucket, Unsubscribes(d, e, g, b)
      PROVE  Service!Unsubscribe(g, b)
  <2>1. is = [was EXCEPT ![g] = @ \ {b}]
    BY <1>3, <1>7 DEF Unsubscribes
  <2>2. e.hooks = d.hooks /\ b \in was[g]
    BY <1>7 DEF Unsubscribes, Recopies
  <2> HIDE DEF is, was
  <2> QED
    BY <1>1, <2>1, <2>2 DEF Service!Unsubscribe
<1> QED
  BY <1>4, <1>5, <1>6, <1>7 DEF Serves, Service!SNext

\* Every step of the agent with a switch that answers at once keeps the
\* invariant and is a step of the service.
LEMMA ServiceStep ==
  ASSUME MaxGroupId < IdSpace, IntfsDistinct
  PROVE  ServiceInv(dp) /\ [SwNext]_swvars
           => ServiceInv(dp)' /\ [Service!SNext]_(Service!svars)
<1> SUFFICES ASSUME ServiceInv(dp), [SwNext]_swvars
             PROVE  ServiceInv(dp)' /\ [Service!SNext]_(Service!svars)
  OBVIOUS
<1>1. PICK d, e : d = dp /\ e = dp'
  OBVIOUS
<1>2. ServiceInv(d)
  BY <1>1
<1>3. ServiceInv(e)' /\ Serves(d, e)
  <2>1. CASE UNCHANGED swvars
    <3>1. e = d /\ UNCHANGED vars
      BY <1>1, <2>1 DEF swvars
    <3> QED
      BY <1>2, <3>1, StutterServes DEF Serves, Unserved, SameCopies
  <2>2. CASE SwNext
    <3>1. PICK x : Batch(d, out', x) /\ ServiceInv(x)'
      BY <1>2, <2>2, HandlerServes DEF SwNext
    <3>2. e = x
      BY <1>1, <2>2, <3>1, BatchIsAfterBatch DEF SwNext
    <3> QED
      BY <3>1, <3>2 DEF Batch, Leads
  <2> QED
    BY <2>1, <2>2
<1>4. ServiceInv(dp)'
  BY <1>1, <1>3
     DEF ServiceInv, SwInv, SwitchInv, Mirror, Untouched, UpstreamKnows,
         InSwitch, SoundSwitch, Hooked
<1> QED
  BY <1>1, <1>3, <1>4, ServesIsService

(***************************************************************************)
(* Message by message, over a connection                                   *)
(***************************************************************************)

\* t lists the states the switch goes through from d as it processes ms: each
\* is sound, and each message is at most one step of the service.
IsTrail(t, d, ms) ==
  /\ t[1] = d
  /\ \A k \in 1..Len(ms) :
       t[k + 1] = Switch!Apply(t[k], ms[k]) /\ Leads(t[k], t[k + 1])

\* The inductive invariant.  The agent has decided as if the switch were in
\* the last state of the trail, which is where the messages in flight lead.
WireInv ==
  /\ SoundSwitch(dp)
  /\ wire \in Seq(Messages)
  /\ \E t : IsTrail(t, dp, wire) /\ ServiceInv(t[Len(wire) + 1])

\* A batch has a trail.
LEMMA BatchTrail ==
  ASSUME NEW d, NEW ms, NEW e, Batch(d, ms, e)
  PROVE  \E t : IsTrail(t, d, ms) /\ t[Len(ms) + 1] = e
<1>1. CASE ms = <<>> /\ e = d
  <2>1. PICK t : t = <<d>>
    OBVIOUS
  <2>2. t[1] = d /\ Len(ms) = 0
    BY <1>1, <2>1
  <2> QED
    BY <1>1, <2>2 DEF IsTrail
<1>2. ASSUME NEW a, ms = <<a>>, e = Switch!Apply(d, a)
      PROVE  \E t : IsTrail(t, d, ms) /\ t[Len(ms) + 1] = e
  <2>1. PICK t : t = <<d, e>>
    OBVIOUS
  <2>2. t[1] = d /\ t[2] = e /\ Len(ms) = 1 /\ ms[1] = a
    BY <1>2, <2>1
  <2>3. Leads(d, e)
    BY DEF Batch
  <2>4. \A k \in 1..Len(ms) : k = 1 /\ k + 1 = 2
    BY <2>2
  <2> QED
    BY <1>2, <2>2, <2>3, <2>4 DEF IsTrail
<1>3. ASSUME NEW a, NEW b, NEW c, NEW d1, NEW d2, ms = <<a, b, c>>,
             d1 = Switch!Apply(d, a), Leads(d, d1),
             d2 = Switch!Apply(d1, b), Leads(d1, d2),
             e = Switch!Apply(d2, c), Leads(d2, e)
      PROVE  \E t : IsTrail(t, d, ms) /\ t[Len(ms) + 1] = e
  <2>1. PICK t : t = <<d, d1, d2, e>>
    OBVIOUS
  <2>2. /\ t[1] = d /\ t[2] = d1 /\ t[3] = d2 /\ t[4] = e
        /\ Len(ms) = 3 /\ ms[1] = a /\ ms[2] = b /\ ms[3] = c
    BY <1>3, <2>1
  <2>3. ASSUME NEW k \in 1..Len(ms)
        PROVE  t[k + 1] = Switch!Apply(t[k], ms[k]) /\ Leads(t[k], t[k + 1])
    <3>1. \/ k = 1 /\ k + 1 = 2
          \/ k = 2 /\ k + 1 = 3
          \/ k = 3 /\ k + 1 = 4
      BY <2>2
    <3>2. CASE k = 1 /\ k + 1 = 2
      BY <1>3, <2>2, <3>2
    <3>3. CASE k = 2 /\ k + 1 = 3
      BY <1>3, <2>2, <3>3
    <3>4. CASE k = 3 /\ k + 1 = 4
      BY <1>3, <2>2, <3>4
    <3> QED
      BY <3>1, <3>2, <3>3, <3>4
  <2> QED
    BY <2>2, <2>3 DEF IsTrail
<1> QED
  BY <1>1, <1>2, <1>3 DEF Batch

\* A trail can be continued where it ends.
LEMMA TrailConcat ==
  ASSUME NEW S, NEW ms \in Seq(S), NEW ns \in Seq(S), NEW d, NEW t, NEW u,
         IsTrail(t, d, ms), IsTrail(u, t[Len(ms) + 1], ns)
  PROVE  \E v : /\ IsTrail(v, d, ms \o ns)
                /\ v[Len(ms \o ns) + 1] = u[Len(ns) + 1]
<1>1. PICK n, m : n = Len(ms) /\ m = Len(ns)
  OBVIOUS
<1>2. n \in Nat /\ m \in Nat
  BY <1>1
<1>3. PICK v : v = [k \in 1..(n + m + 1) |-> IF k <= n + 1 THEN t[k] ELSE u[k - n]]
  OBVIOUS
<1>4. PICK ws : ws = ms \o ns
  OBVIOUS
<1>5. /\ Len(ws) = n + m
      /\ \A k \in 1..n : ws[k] = ms[k]
      /\ \A k \in 1..(n + m) : k > n => ws[k] = ns[k - n]
  BY <1>1, <1>2, <1>4
<1>6. t[1] = d /\ u[1] = t[n + 1]
  BY <1>1 DEF IsTrail
<1>7. /\ \A k \in 1..(n + 1) : v[k] = t[k]
      /\ \A k \in 1..(n + m + 1) : k > n => v[k] = u[k - n]
  <2>1. \A k \in 1..(n + 1) : k \in 1..(n + m + 1) /\ k <= n + 1
    BY <1>2
  <2>2. \A k \in 1..(n + 1) : v[k] = t[k]
    BY <1>3, <2>1
  <2>3. ASSUME NEW k \in 1..(n + m + 1), k > n PROVE v[k] = u[k - n]
    <3>1. CASE k = n + 1
      <4>1. k - n = 1 /\ k \in 1..(n + 1)
        BY <1>2, <3>1
      <4> QED
        BY <1>6, <2>2, <3>1, <4>1
    <3>2. CASE k # n + 1
      <4>1. ~(k <= n + 1)
        BY <1>2, <2>3, <3>2
      <4> QED
        BY <1>3, <4>1
    <3> QED
      BY <3>1, <3>2
  <2> QED
    BY <2>2, <2>3
<1>8. ASSUME NEW k \in 1..Len(ws)
      PROVE  v[k + 1] = Switch!Apply(v[k], ws[k]) /\ Leads(v[k], v[k + 1])
  <2>1. CASE k <= n
    <3>1. k \in 1..n /\ k \in 1..(n + 1) /\ k + 1 \in 1..(n + 1)
      BY <1>2, <1>5, <2>1
    <3>2. t[k + 1] = Switch!Apply(t[k], ms[k]) /\ Leads(t[k], t[k + 1])
      BY <1>1, <3>1 DEF IsTrail
    <3> QED
      BY <1>5, <1>7, <3>1, <3>2
  <2>2. CASE ~(k <= n)
    <3>1. /\ k \in 1..(n + m) /\ k \in 1..(n + m + 1)
          /\ k + 1 \in 1..(n + m + 1) /\ k > n /\ k + 1 > n
          /\ k - n \in 1..m /\ (k + 1) - n = (k - n) + 1
      BY <1>2, <1>5, <2>2
    <3>2. /\ u[(k - n) + 1] = Switch!Apply(u[k - n], ns[k - n])
          /\ Leads(u[k - n], u[(k - n) + 1])
      BY <1>1, <3>1 DEF IsTrail
    <3>3. v[k] = u[k - n] /\ v[k + 1] = u[(k - n) + 1] /\ ws[k] = ns[k - n]
      BY <1>5, <1>7, <3>1
    <3> QED
      BY <3>2, <3>3
  <2> QED
    BY <2>1, <2>2
<1>9. v[1] = d
  BY <1>2, <1>6, <1>7
<1>10. v[Len(ws) + 1] = u[m + 1]
  <2>1. n + m + 1 \in 1..(n + m + 1) /\ n + m + 1 > n /\ (n + m + 1) - n = m + 1
    BY <1>2
  <2> QED
    BY <1>5, <1>7, <2>1
<1> QED
  BY <1>1, <1>4, <1>8, <1>9, <1>10 DEF IsTrail

\* When the first message has been processed the rest is still a trail.
LEMMA TrailTail ==
  ASSUME NEW S, NEW ms \in Seq(S), ms # <<>>, NEW d, NEW t, IsTrail(t, d, ms),
         NEW e, e = Switch!Apply(d, Head(ms))
  PROVE  /\ Leads(d, e)
         /\ \E v : /\ IsTrail(v, e, Tail(ms))
                   /\ v[Len(Tail(ms)) + 1] = t[Len(ms) + 1]
<1>1. PICK n : n = Len(ms)
  OBVIOUS
<1>2. n \in Nat \ {0} /\ 1 \in 1..n
  BY <1>1
<1>3. PICK ws : ws = Tail(ms)
  OBVIOUS
<1>4. /\ Head(ms) = ms[1] /\ Len(ws) = n - 1
      /\ \A k \in 1..(n - 1) : ws[k] = ms[k + 1]
  BY <1>1, <1>2, <1>3
<1>5. /\ t[1] = d
      /\ \A k \in 1..n :
           t[k + 1] = Switch!Apply(t[k], ms[k]) /\ Leads(t[k], t[k + 1])
  BY <1>1 DEF IsTrail
<1>6. t[2] = e /\ Leads(d, e)
  <2>1. t[1 + 1] = Switch!Apply(t[1], ms[1]) /\ Leads(t[1], t[1 + 1])
    BY <1>2, <1>5
  <2>2. 1 + 1 = 2
    OBVIOUS
  <2> QED
    BY <1>4, <1>5, <2>1, <2>2
<1>7. PICK v : v = [k \in 1..n |-> t[k + 1]]
  OBVIOUS
<1>8. \A k \in 1..n : v[k] = t[k + 1]
  BY <1>7
<1>9. ASSUME NEW k \in 1..Len(ws)
      PROVE  v[k + 1] = Switch!Apply(v[k], ws[k]) /\ Leads(v[k], v[k + 1])
  <2>1. k \in 1..(n - 1) /\ k \in 1..n /\ k + 1 \in 1..n
    BY <1>2, <1>4
  <2>2. v[k] = t[k + 1] /\ v[k + 1] = t[(k + 1) + 1] /\ ws[k] = ms[k + 1]
    BY <1>4, <1>8, <2>1
  <2> QED
    BY <1>5, <2>1, <2>2
<1>10. v[1] = e /\ v[Len(ws) + 1] = t[n + 1]
  <2>1. v[1] = t[1 + 1] /\ 1 + 1 = 2 /\ (n - 1) + 1 = n /\ n \in 1..n
    BY <1>2, <1>8
  <2> QED
    BY <1>4, <1>6, <1>8, <2>1
<1> QED
  BY <1>1, <1>3, <1>6, <1>9, <1>10 DEF IsTrail

\* The queue is empty at the start.
LEMMA WireStart == WInit => WireInv /\ Service!SInit
<1> SUFFICES ASSUME WInit PROVE WireInv /\ Service!SInit
  OBVIOUS
<1>1. ServiceInv(dp) /\ Service!SInit /\ wire = <<>>
  BY ServiceStart DEF WInit
<1>2. wire \in Seq(Messages) /\ Len(wire) = 0
  BY <1>1
<1>3. PICK d : d = dp
  OBVIOUS
<1>4. PICK t : t = <<d>>
  OBVIOUS
<1>5. t[1] = dp /\ ServiceInv(t[1])
  BY <1>1, <1>3, <1>4
<1>6. IsTrail(t, dp, wire) /\ ServiceInv(t[Len(wire) + 1])
  BY <1>2, <1>5 DEF IsTrail
<1> QED
  BY <1>1, <1>2, <1>6 DEF WireInv, ServiceInv

\* A handler's messages continue the trail; the switch follows it.
LEMMA WireStep ==
  ASSUME MaxGroupId < IdSpace
  PROVE  WireInv /\ [WNext]_wvars
           => /\ WireInv'
              /\ IntfsDistinct => [Service!SNext]_(Service!svars)
<1> SUFFICES ASSUME WireInv, [WNext]_wvars
             PROVE  /\ WireInv'
                    /\ IntfsDistinct => [Service!SNext]_(Service!svars)
  OBVIOUS
<1>1. PICK d, ms : d = dp /\ ms = wire
  OBVIOUS
<1>2. PICK t : IsTrail(t, d, ms) /\ ServiceInv(t[Len(ms) + 1])
  BY <1>1 DEF WireInv
<1>3. SoundSwitch(d) /\ ms \in Seq(Messages)
  BY <1>1 DEF WireInv
<1>4. PICK last : last = t[Len(ms) + 1]
  OBVIOUS
<1>5. CASE UNCHANGED wvars
  <2>1. UNCHANGED vars /\ dp' = d /\ wire' = ms
    BY <1>1, <1>5 DEF wvars, swvars
  <2>2. ServiceInv(last)'
    BY <1>2, <1>4, <2>1, StutterServes
  <2>3. WireInv'
    BY <1>2, <1>3, <1>4, <2>1, <2>2 DEF WireInv, ServiceInv, IsTrail
  <2>4. Serves(d, d)
    BY DEF Serves, Unserved, SameCopies
  <2>5. [Service!SNext]_(Service!svars)
    BY <1>1, <2>1, <2>4, ServesIsService
  <2> QED
    BY <2>3, <2>5
<1>6. CASE AgentStep
  <2>1. dp' = d
    BY <1>1, <1>6 DEF AgentStep
  <2>2. PICK e : Batch(last, out', e) /\ ServiceInv(e)'
    BY <1>2, <1>4, <1>6, HandlerServes DEF AgentStep
  <2>3. PICK ns : ns = out'
    OBVIOUS
  <2>4. wire' = ms \o ns
    BY <1>1, <1>6, <2>3 DEF AgentStep
  <2>5. ns \in Seq(Messages)
    BY <2>2, <2>3 DEF ServiceInv, SwInv, AgentInv, TypeOK
  <2>6. PICK u : IsTrail(u, last, ns) /\ u[Len(ns) + 1] = e
    BY <2>2, <2>3, BatchTrail
  <2>7. PICK v : IsTrail(v, d, ms \o ns) /\ v[Len(ms \o ns) + 1] = e
    BY <1>2, <1>3, <1>4, <2>5, <2>6, TrailConcat
  <2>8. ms \o ns \in Seq(Messages)
    BY <1>3, <2>5
  <2>9. WireInv'
    <3>1. PICK ws : ws = ms \o ns
      OBVIOUS
    <3>2. /\ ws = wire' /\ ws \in Seq(Messages)
          /\ IsTrail(v, d, ws) /\ v[Len(ws) + 1] = e
      BY <2>4, <2>7, <2>8, <3>1
    <3>3. SoundSwitch(dp)' /\ wire' \in Seq(Messages)
      BY <1>3, <2>1, <3>2 DEF SoundSwitch
    <3>4. IsTrail(v, dp, wire)' /\ ServiceInv(v[Len(wire) + 1])'
      BY <2>1, <2>2, <3>2 DEF IsTrail
    <3> QED
      BY <3>3, <3>4 DEF WireInv
  <2>10. Serves(d, d)
    BY DEF Serves, Unserved, SameCopies
  <2>11. [Service!SNext]_(Service!svars)
    BY <1>1, <2>1, <2>10, ServesIsService
  <2> QED
    BY <2>9, <2>11
<1>7. CASE Deliver
  <2>1. PICK e, ws : e = Switch!Apply(d, Head(ms)) /\ ws = Tail(ms)
    OBVIOUS
  <2>2. UNCHANGED vars /\ dp' = e /\ wire' = ws /\ ms # <<>>
    BY <1>1, <1>7, <2>1 DEF Deliver
  <2>3. Leads(d, e)
    BY <1>2, <1>3, <2>1, <2>2, TrailTail
  <2>4. PICK v : IsTrail(v, e, ws) /\ v[Len(ws) + 1] = last
    BY <1>2, <1>3, <1>4, <2>1, <2>2, TrailTail
  <2>5. ServiceInv(last)'
    BY <1>2, <1>4, <2>2, StutterServes
  <2>6. WireInv'
    <3>1. SoundSwitch(dp)' /\ wire' \in Seq(Messages)
      BY <1>3, <2>1, <2>2, <2>3 DEF SoundSwitch, Leads
    <3>2. IsTrail(v, dp, wire)' /\ ServiceInv(v[Len(wire) + 1])'
      BY <2>2, <2>4, <2>5 DEF IsTrail
    <3> QED
      BY <3>1, <3>2 DEF WireInv
  <2>7. IntfsDistinct => [Service!SNext]_(Service!svars)
    BY <1>1, <2>2, <2>3, ServesIsService DEF Leads
  <2> QED
    BY <2>6, <2>7
<1> QED
  BY <1>5, <1>6, <1>7 DEF WNext

\* At no instant does a flow in the switch point at a group that is not there,
\* however many messages are in flight and wherever a lost connection cuts
\* them off (MCApps.hh:352-359, 389-400).
THEOREM NeverDangling ==
  ASSUME MaxGroupId < IdSpace
  PROVE  WSpec => []NoDanglingFlow
<1>1. WireInv => NoDanglingFlow
  BY DEF WireInv, SoundSwitch, NoDanglingFlow
<1>2. WireInv /\ [WNext]_wvars => WireInv'
  BY WireStep
<1> QED
  BY <1>1, <1>2, WireStart, PTL DEF WSpec

\* Every single message, whatever handlers have run in the meantime, is at
\* most one step of the multicast service: the agent's decisions, taken from
\* its own copy of the switch's state, stay right for the switch that lags
\* behind it.
THEOREM ServiceMessageByMessage ==
  ASSUME MaxGroupId < IdSpace, IntfsDistinct
  PROVE  WSpec => ServiceAtEveryInstant
<1>1. WireInv /\ [WNext]_wvars
        => WireInv' /\ [Service!SNext]_(Service!svars)
  BY WireStep
<1> QED
  BY <1>1, WireStart, PTL DEF WSpec, ServiceAtEveryInstant, Service!SSpec

-----------------------------------------------------------------------------
(* An agent of a tree (MulticastTree): its connection is bound from the start  *)
(* and stays up.                                                               *)

\* nothing has happened since the connection was bound
FreshlyBound ==
  /\ conn \in [Conns -> {"none", "started", "up", "down"}]
  /\ Attached
  /\ store = [g \in GroupIPs |-> NULL]
  /\ members = [g \in GroupIPs |-> NoMembersYet]
  /\ buckets = [g \in GroupIPs |-> <<>>]
  /\ groupmod = [g \in GroupIPs |-> [group_id |-> 0, buckets |-> <<>>]]
  /\ OFMsgGroupIdGen = 0 /\ out = <<>> /\ crashed = FALSE
  /\ dp = Switch!EmptyDatapath

\* Nothing is asked for and nothing installed: the invariant holds.
LEMMA FreshInv == FreshlyBound => ServiceInv(dp)
<1> SUFFICES ASSUME FreshlyBound PROVE ServiceInv(dp)
  OBVIOUS
<1>1. /\ \A g \in GroupIPs : /\ store[g] = NULL /\ buckets[g] = <<>>
                             /\ groupmod[g].buckets = <<>> /\ NoMembers(g)
      /\ MembersAtTheirInterface
  BY DEF FreshlyBound, NoMembers, NoMembersYet, MembersAtTheirInterface
<1>2. TypeOK
  <2>1. <<>> \in Seq(Bucket) /\ <<>> \in Seq(Messages)
    OBVIOUS
  <2>2. members \in [GroupIPs -> [Intfs -> Member \cup {NULL}]]
    BY DEF FreshlyBound, NoMembersYet
  <2>3. /\ buckets \in [GroupIPs -> Seq(Bucket)]
        /\ groupmod \in [GroupIPs -> [group_id : Nat, buckets : Seq(Bucket)]]
    BY <2>1 DEF FreshlyBound
  <2>4. /\ store \in [GroupIPs -> Session \cup {NULL}]
        /\ OFMsgGroupIdGen \in 0..(IdSpace - 1)
    BY BoundAssumption DEF FreshlyBound
  <2> QED
    BY <2>1, <2>2, <2>3, <2>4 DEF FreshlyBound, Attached, TypeOK
<1>3. AgentInv
  BY <1>1, <1>2 DEF AgentInv, GroupModInStep, BucketsMatchMembers,
       IndexPointsAtBucket, IndexesDistinct, EveryBucketOwned, MemberIntfs,
       IsMember, NoMembers
<1>4. IdInv /\ BoundWasUp
  BY <1>1, BoundAssumption
     DEF FreshlyBound, IdInv, GroupIdsDrawn, GroupIdsDistinct, BoundWasUp, Attached
<1>5. /\ dp \in Datapath /\ ~dp.refused /\ dp.flows = {} /\ dp.hooks = {}
      /\ \A g \in GroupIPs : dp.upstream[g] = "none"
      /\ \A id \in 0..MaxGroupId : dp.groups[id] = NULL
  BY DEF FreshlyBound, Switch!EmptyDatapath, Datapath
<1>6. Mirror(dp)
  BY <1>1, <1>5 DEF Mirror, UpstreamKnows
<1>7. SwInv(dp) /\ SoundSwitch(dp)
  BY <1>3, <1>4, <1>5, <1>6 DEF SwInv, SwitchInv, SoundSwitch, FreshlyBound, Attached
<1> QED
  BY <1>1, <1>5, <1>7 DEF ServiceInv, Hooked, FreshlyBound, Attached

\* A bound agent's switch copies a source's traffic to its members, and to
\* nobody else.
LEMMA CopiesServeMembers ==
  ASSUME NEW d, ServiceInv(d), Attached, NEW g \in GroupIPs
  PROVE  /\ CopiesMade(d, g) # {} <=> ~NoMembers(g)
         /\ IntfsDistinct => \A i \in Intfs :
              (\E b \in CopiesMade(d, g) : b.out = MemberIntf(i)) <=> IsMember(g, i)
<1>1. /\ TypeOK /\ BucketsMatchMembers /\ GroupModInStep /\ MembersAtTheirInterface
      /\ Mirror(d) /\ d \in Datapath
  BY DEF ServiceInv, SwInv, AgentInv, SwitchInv
<1>2. CopiesMade(d, g) = IF store[g] # NULL /\ Installed(g)
                         THEN Range(buckets[g]) ELSE {}
  <2>1. CASE store[g] # NULL /\ Installed(g)
    <3>1. /\ d.groups[store[g].groupid] = buckets[g]
          /\ DownstreamFlow(g, store[g]) \in d.flows
      BY <1>1, <2>1 DEF Mirror, InSwitch
    <3>2. buckets[g] # NULL
      BY <1>1, NullAssumption DEF TypeOK
    <3>3. \A f \in d.flows : f.ip = g => f.group = store[g].groupid
      BY <1>1 DEF Mirror, FlowOwned, DownstreamFlow
    <3>4. DownstreamFlow(g, store[g]).ip = g
      BY DEF DownstreamFlow
    <3> QED
      BY <2>1, <3>1, <3>2, <3>3, <3>4, CopiesOfGroup
  <2>2. CASE ~(store[g] # NULL /\ Installed(g))
    <3>1. \A f \in d.flows : f.ip # g
      BY <1>1, <2>2 DEF Mirror, FlowOwned
    <3> QED
      BY <2>2, <3>1, CopiesOfGroup
  <2> QED
    BY <2>1, <2>2
<1>3. ~(store[g] # NULL /\ Installed(g)) => NoMembers(g)
  BY <1>1 DEF Installed, GroupModInStep
<1>4. \A b \in Range(buckets[g]) :
        \E j \in Intfs : members[g][j] # NULL /\ b.out = MemberIntf(j)
  BY <1>1, BucketsOfMembers DEF Range
<1>5. \A j \in Intfs : members[g][j] # NULL =>
        \E b \in Range(buckets[g]) : b.out = MemberIntf(j)
  <2> SUFFICES ASSUME NEW j \in Intfs, members[g][j] # NULL
               PROVE  \E b \in Range(buckets[g]) : b.out = MemberIntf(j)
    OBVIOUS
  <2>1. PICK k \in DOMAIN buckets[g] : buckets[g][k] = BucketOf(members[g][j])
                                       /\ BucketOf(members[g][j]).out = MemberIntf(j)
    BY <1>1, BucketsOfMembers
  <2> QED
    BY <2>1 DEF Range
<1>6. CASE store[g] # NULL /\ Installed(g)
  <2>1. CopiesMade(d, g) = Range(buckets[g])
    BY <1>2, <1>6
  <2>2. CopiesMade(d, g) # {} <=> ~NoMembers(g)
    BY <1>4, <1>5, <2>1 DEF NoMembers
  <2>3. ASSUME IntfsDistinct, NEW i \in Intfs
        PROVE (\E b \in CopiesMade(d, g) : b.out = MemberIntf(i)) <=> IsMember(g, i)
    BY <1>4, <1>5, <2>1, <2>3 DEF IntfsDistinct, IsMember
  <2> QED
    BY <2>2, <2>3
<1>7. CASE ~(store[g] # NULL /\ Installed(g))
  BY <1>2, <1>3, <1>7 DEF NoMembers, IsMember
<1> QED
  BY <1>6, <1>7

\* the step makes interface i a member of g, or makes it none, and no other
Admits(g, i) ==
  \A f \in GroupIPs, j \in Intfs :
    IsMember(f, j)' <=> (f = g /\ j = i) \/ IsMember(f, j)
Dismisses(g, i) ==
  \A f \in GroupIPs, j \in Intfs :
    IsMember(f, j)' <=> ~(f = g /\ j = i) /\ IsMember(f, j)

\* The messages of a step ask upstream, first, what g's membership has become;
\* a step that does not ask has left a branch with members one with members.
AsksWhatIs(g) ==
  /\ out' # <<>> /\ Head(out').type = "packet_out" =>
       \/ Head(out') = PacketOut(g, "join") /\ ~NoMembers(g)'
       \/ Head(out') = PacketOut(g, "leave") /\ NoMembers(g)'
  /\ ~(out' # <<>> /\ Head(out').type = "packet_out") =>
       store[g] = NULL \/ store[g].is_root \/ (NoMembers(g)' <=> NoMembers(g))

\* A step without a message asks for nothing, and rightly so.
LEMMA SilentAsk ==
  ASSUME NEW g \in GroupIPs, out' = <<>>, UNCHANGED members
  PROVE  AsksWhatIs(g)
<1>1. (NoMembers(g)' <=> NoMembers(g))
  BY DEF NoMembers
<1> QED
  BY <1>1 DEF AsksWhatIs

\* A join makes its interface a member; the first one of a branch asks upstream
\* (MCApps.hh:345).
LEMMA JoinAsks ==
  ASSUME TypeOK, Attached, NEW g \in GroupIPs, NEW i \in Intfs, NEW h \in Hosts,
         store[g] # NULL, Join(g, i, h)
  PROVE  store' = store /\ Admits(g, i) /\ AsksWhatIs(g)
<1> DEFINE m == [host |-> h, intf |-> MemberIntf(i), bucket_index |-> Len(buckets[g])]
           gm == groupmod'[g]
<1>0. store' = store
  BY DEF Join
<1>1. CASE IsMember(g, i) /\ out' = <<>> /\ UNCHANGED members
  BY <1>1, SilentAsk DEF Admits, IsMember, Join
<1>2. CASE /\ ~IsMember(g, i) /\ AddMember(g, i, m)
           /\ \/ IsFirst(g) /\ Send(InstallMessages(g, gm))
              \/ ~IsFirst(g) /\ Send(<<GroupMod("MODIFY", gm.group_id, gm.buckets)>>)
  <2>1. m # NULL
    BY NewMemberType, NullAssumption
  <2> HIDE DEF m
  <2>2. \A f \in GroupIPs, j \in Intfs :
          members'[f][j] = IF f = g /\ j = i THEN m ELSE members[f][j]
    BY <1>2 DEF AddMember, TypeOK
  <2>3. Admits(g, i)
    BY <2>1, <2>2 DEF Admits, IsMember
  <2>4. ~NoMembers(g)'
    BY <2>1, <2>2 DEF NoMembers
  <2>5. CASE IsFirst(g) /\ Send(InstallMessages(g, gm))
    <3>1. out' # <<>> /\ Head(out') = PacketOut(g, "join")
      BY <2>5 DEF Send, Attached, InstallMessages
    <3>2. Head(out').type = "packet_out"
      BY <3>1 DEF PacketOut
    <3> QED
      BY <1>0, <2>3, <2>4, <3>1, <3>2 DEF AsksWhatIs
  <2>6. CASE ~IsFirst(g) /\ Send(<<GroupMod("MODIFY", gm.group_id, gm.buckets)>>)
    <3>1. Head(out').type = "group"
      BY <2>6 DEF Send, Attached, GroupMod
    <3>2. store[g].is_root \/ ~NoMembers(g)
      BY <2>6 DEF IsFirst
    <3> QED
      BY <1>0, <2>3, <2>4, <3>1, <3>2 DEF AsksWhatIs
  <2> QED
    BY <1>2, <2>5, <2>6
<1> QED
  BY <1>1, <1>2 DEF Join

\* A leave makes its interface none; the last one of a branch asks upstream
\* (MCApps.hh:384).
LEMMA LeaveAsks ==
  ASSUME TypeOK, Attached, NEW g \in GroupIPs, NEW i \in Intfs,
         store[g] # NULL, Leave(g, i)
  PROVE  store' = store /\ Dismisses(g, i) /\ AsksWhatIs(g)
<1> DEFINE gm == groupmod'[g]
<1>0. store' = store
  BY DEF Leave
<1>1. CASE ~IsMember(g, i) /\ out' = <<>> /\ UNCHANGED members
  BY <1>1, SilentAsk DEF Dismisses, IsMember, Leave
<1>2. CASE /\ IsMember(g, i) /\ RemoveMember(g, i)
           /\ \/ IsLast(g, i) /\ Send(RemoveMessages(g, gm))
              \/ ~IsLast(g, i) /\ Send(<<GroupMod("MODIFY", gm.group_id, gm.buckets)>>)
  <2>1. PICK ms \in [Intfs -> Member \cup {NULL}] : ms = members[g]
    BY DEF TypeOK
  <2>2. /\ members'[g] = Reindexed(ms, i)
        /\ \A f \in GroupIPs \ {g} : members'[f] = members[f]
    BY <1>2, <2>1 DEF RemoveMember, TypeOK
  <2>3. ms[i] # NULL
    BY <1>2, <2>1 DEF IsMember
  <2>4. \A j \in Intfs : members'[g][j] = NULL <=> j = i \/ ms[j] = NULL
    BY <2>2, <2>3, ReindexedEmpties
  <2>5. Dismisses(g, i)
    BY <2>1, <2>2, <2>4 DEF Dismisses, IsMember
  <2>6. /\ ~NoMembers(g)
        /\ NoMembers(g)' <=> \A j \in Intfs \ {i} : members[g][j] = NULL
    BY <2>1, <2>3, <2>4 DEF NoMembers
  <2>7. CASE IsLast(g, i) /\ Send(RemoveMessages(g, gm))
    <3>1. out' # <<>> /\ Head(out') = PacketOut(g, "leave")
      BY <2>7 DEF Send, Attached, RemoveMessages
    <3>2. Head(out').type = "packet_out"
      BY <3>1 DEF PacketOut
    <3> QED
      BY <1>0, <2>5, <2>6, <2>7, <3>1, <3>2 DEF AsksWhatIs, IsLast
  <2>8. CASE ~IsLast(g, i) /\ Send(<<GroupMod("MODIFY", gm.group_id, gm.buckets)>>)
    <3>1. Head(out').type = "group"
      BY <2>8 DEF Send, Attached, GroupMod
    <3> QED
      BY <1>0, <2>5, <2>6, <2>8, <3>1 DEF AsksWhatIs, IsLast
  <2> QED
    BY <1>2, <2>7, <2>8
<1> QED
  BY <1>1, <1>2 DEF Leave

\* A packet makes its sender's interface a member, or makes it none, or
\* changes no membership; a switch that is not the root passes on exactly the
\* first join and the last leave.
LEMMA PacketAsks ==
  ASSUME TypeOK, NEW c, NEW g \in GroupIPs, NEW us, NEW ud,
         NEW port \in InPorts, NEW h \in Hosts, c \in Conns,
         UDPPacketIn(c, g, us, ud, port, h)
  PROVE  /\ store' = store /\ AsksWhatIs(g)
         /\ \/ /\ store[g] # NULL /\ Mflag(store[g], us, ud) = 1
               /\ Admits(g, InIntf(port))
            \/ /\ store[g] # NULL /\ Mflag(store[g], us, ud) = 2
               /\ Dismisses(g, InIntf(port))
            \/ /\ store[g] = NULL \/ Mflag(store[g], us, ud) = 0
               /\ UNCHANGED members
<1>1. Attached /\ InIntf(port) \in Intfs
  BY DEF UDPPacketIn, Attached, Intfs
<1>2. CASE /\ out' = <<>> /\ UNCHANGED state
           /\ store[g] = NULL \/ Mflag(store[g], us, ud) = 0
  BY <1>2, SilentAsk DEF state
<1>3. CASE store[g] # NULL /\ Mflag(store[g], us, ud) = 1 /\ Join(g, InIntf(port), h)
  BY <1>1, <1>3, JoinAsks
<1>4. CASE store[g] # NULL /\ Mflag(store[g], us, ud) = 2 /\ Leave(g, InIntf(port))
  BY <1>1, <1>4, LeaveAsks
<1> QED
  BY <1>2, <1>3, <1>4 DEF UDPPacketIn

-----------------------------------------------------------------------------
(* Whom a handler serves                                                       *)

\* Nobody's copies come or go in a step that leaves the datapath alone.
LEMMA FrozenServesNobody ==
  ASSUME dp' = dp, NEW g \in GroupIPs, NEW i \in Intfs
  PROVE  OnlyForAsker(g, i)
<1>1. Reaches(dp', g, i) <=> Reaches(dp, g, i)
  OBVIOUS
<1> QED
  BY <1>1 DEF OnlyForAsker

\* While the agent is attached, an interface is reached when it has a member.
Served ==
  Attached => \A g \in GroupIPs, i \in Intfs : Reaches(dp, g, i) <=> IsMember(g, i)

LEMMA ServedMembers ==
  ASSUME IntfsDistinct, ServiceInv(dp)
  PROVE  Served
<1>1. PICK d : d = dp
  OBVIOUS
<1>2. ServiceInv(d)
  BY <1>1
<1>3. Attached => \A g \in GroupIPs, i \in Intfs : Reaches(d, g, i) <=> IsMember(g, i)
  BY <1>2, CopiesServeMembers DEF Reaches
<1> QED
  BY <1>1, <1>3 DEF Served

\* So copies begin and end with memberships, and a membership of interface i
\* begins with a join from i and ends with a leave from i.
LEMMA PacketServesAsker ==
  ASSUME TypeOK, Attached, Attached', Served, Served',
         NEW c \in Conns, NEW ip \in GroupIPs, NEW us \in UdpPorts,
         NEW ud \in UdpPorts, NEW port \in InPorts, NEW h \in Hosts,
         UDPPacketIn(c, ip, us, ud, port, h),
         NEW g \in GroupIPs, NEW i \in Intfs
  PROVE  OnlyForAsker(g, i)
<1>1. /\ Reaches(dp, g, i) <=> IsMember(g, i)
      /\ Reaches(dp', g, i) <=> IsMember(g, i)'
  BY DEF Served
<1>2. CASE /\ store[ip] # NULL /\ Mflag(store[ip], us, ud) = 1
           /\ Admits(ip, InIntf(port))
  <2>1. ASSUME ~IsMember(g, i), IsMember(g, i)' PROVE Asks(g, i, 1)
    <3>1. g = ip /\ i = InIntf(port)
      BY <1>2, <2>1 DEF Admits
    <3> QED
      BY <1>2, <3>1 DEF Asks
  <2>2. IsMember(g, i) => IsMember(g, i)'
    BY <1>2 DEF Admits
  <2> QED
    BY <1>1, <2>1, <2>2 DEF OnlyForAsker
<1>3. CASE /\ store[ip] # NULL /\ Mflag(store[ip], us, ud) = 2
           /\ Dismisses(ip, InIntf(port))
  <2>1. ASSUME IsMember(g, i), ~IsMember(g, i)' PROVE Asks(g, i, 2)
    <3>1. g = ip /\ i = InIntf(port)
      BY <1>3, <2>1 DEF Dismisses
    <3> QED
      BY <1>3, <3>1 DEF Asks
  <2>2. IsMember(g, i)' => IsMember(g, i)
    BY <1>3 DEF Dismisses
  <2> QED
    BY <1>1, <2>1, <2>2 DEF OnlyForAsker
<1>4. CASE UNCHANGED members
  BY <1>1, <1>4 DEF OnlyForAsker, IsMember
<1> QED
  BY <1>2, <1>3, <1>4, PacketAsks

\* Every step of the agent and its switch.
LEMMA StepServesAsker ==
  ASSUME TypeOK, Served, Served', [SwNext]_swvars,
         NEW g \in GroupIPs, NEW i \in Intfs
  PROVE  OnlyForAsker(g, i)
<1>1. CASE UNCHANGED swvars
  BY <1>1, FrozenServesNobody DEF swvars
<1>2. CASE SwNext /\ out' \in {<<>>, <<RoleRequest>>}
  <2>1. AfterBatch(dp, out') = dp
    <3>1. Switch!Apply(dp, RoleRequest) = dp
      BY DEF Switch!Apply, RoleRequest
    <3>2. AfterBatch(dp, <<RoleRequest>>) = dp
      BY <3>1, OneMessage
    <3> QED
      BY <1>2, <3>2, NoMessage
  <2> QED
    BY <1>2, <2>1, FrozenServesNobody DEF SwNext
<1>3. ASSUME SwNext, NEW c \in Conns,
             \/ ConnectionStarted(c) \/ SwitchDown(c)
             \/ \E v \in {1, 4} : SwitchUp(c, v)
             \/ UnboundPacketIn(c) \/ ForeignPacketIn(c) \/ IGMPPacketIn(c)
      PROVE  OnlyForAsker(g, i)
  <2>1. out' \in {<<>>, <<RoleRequest>>}
    BY <1>3 DEF ConnectionStarted, SwitchUp, SwitchDown, UnboundPacketIn,
                ForeignPacketIn, IGMPPacketIn
  <2> QED
    BY <1>2, <1>3, <2>1
<1>4. ASSUME SwNext, NEW c \in Conns, NEW ip \in GroupIPs, NEW us \in UdpPorts,
             NEW ud \in UdpPorts, NEW port \in InPorts, NEW h \in Hosts,
             UDPPacketIn(c, ip, us, ud, port, h)
      PROVE  OnlyForAsker(g, i)
  <2>1. Attached /\ Attached'
    BY <1>4 DEF UDPPacketIn, Attached
  <2> QED
    BY <1>4, <2>1, PacketServesAsker
<1>5. ASSUME SwNext, NEW sip \in GroupIPs, NEW dip \in DestIPs,
             NEW sport \in UdpPorts, NEW dport \in UdpPorts,
             NEW is_root \in BOOLEAN,
             CreateGroup(sip, dip, sport, dport, is_root)
      PROVE  OnlyForAsker(g, i)
  <2>1. UNCHANGED members /\ (Attached' <=> Attached)
    BY <1>5 DEF CreateGroup, Attached
  <2>2. CASE Attached
    <3>1. /\ Reaches(dp, g, i) <=> IsMember(g, i)
          /\ Reaches(dp', g, i) <=> IsMember(g, i)'
      BY <2>1, <2>2 DEF Served
    <3> QED
      BY <2>1, <3>1 DEF OnlyForAsker, IsMember
  <2>3. CASE ~Attached
    <3>1. out' = <<>>
      BY <1>5, <2>3 DEF CreateGroup, Send, Attached
    <3> QED
      BY <1>2, <1>5, <3>1
  <2> QED
    BY <2>2, <2>3
<1> QED
  BY <1>1, <1>3, <1>4, <1>5 DEF SwNext, Next

\* Agent and switch implement the multicast service, for any number of
\* sources, receivers and interfaces: whatever handlers run and in whatever
\* order, the copies of a source change by at most one receiver at a time,
\* only once the source has been opened, and no interface gets two; and the
\* receiver that gains or loses a copy is the one whose join or leave of that
\* source the handler handles.  It takes port numbers that still differ in
\* 8 bits: otherwise two receivers share a port and the second one's join is a
\* second copy.
THEOREM ServiceImplemented ==
  ASSUME MaxGroupId < IdSpace, IntfsDistinct
  PROVE  SwSpec => ImplementsService
<1>1. ServiceInv(dp) /\ [SwNext]_swvars
        => ServiceInv(dp)' /\ [Service!SNext]_(Service!svars)
  BY ServiceStep
<1>2. ServiceInv(dp) => TypeOK /\ Served
  BY ServedMembers DEF ServiceInv, SwInv, AgentInv
<1> DEFINE ForAsker == \A g \in GroupIPs, i \in Intfs : OnlyForAsker(g, i)
<1>3. TypeOK /\ Served /\ Served' /\ [SwNext]_swvars => [ForAsker]_swvars
  BY StepServesAsker
<1>4. SwSpec => [][ForAsker]_swvars
  BY <1>1, <1>2, <1>3, ServiceStart, PTL DEF SwSpec
<1>5. SwSpec => Service!SSpec
  BY <1>1, ServiceStart, PTL DEF SwSpec, Service!SSpec
<1> QED
  BY <1>4, <1>5 DEF ImplementsService

=============================================================================
