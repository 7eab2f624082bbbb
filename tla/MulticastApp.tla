---------------------------- MODULE MulticastApp ----------------------------
(***************************************************************************)
(* The multicast agent that runs on a switch                               *)
(* (examples/controller/mc-agent).  It binds to the first OpenFlow         *)
(* connection that reports a datapath, is told by the network controller   *)
(* which multicast groups exist, and turns the UDP join and leave packets  *)
(* of receivers into group-table and flow-table messages.                  *)
(*                                                                         *)
(* Every handler is one action: the two threads that run them are not      *)
(* interleaved here.  The messages a handler passes to ofconn->send are    *)
(* left in "out"; the modules that compose the agent with its switch       *)
(* (MulticastSwitch, MulticastWire) take them from there.                  *)
(***************************************************************************)
EXTENDS Integers, FiniteSets, SequencesExt

CONSTANTS
  Conns,        \* OpenFlow connections the controller accepts, by id
  GroupIPs,     \* addresses of the sources of groups (groupip_)
  DestIPs,      \* destination addresses the network controller names: octets
  Hosts,        \* receivers, as (MAC, IP) pairs
  InPorts,      \* OpenFlow port numbers (32 bits) packet-ins arrive from
  UdpPorts,     \* UDP ports of sources and receivers
  IdSpace,      \* number of values of OFMsgGroupIdGen, 2^32 in the code
  MaxGroupId,   \* BOUND: no MCGroup is constructed once the counter is here
  NULL,         \* a null pointer, or no entry in a map
  Garbage       \* the value of a pointer that no constructor set

\* in_intf is a uint16_t: the 32-bit port number is truncated on assignment
InIntf(port) == port % 65536

\* the member's in_intf_ is a uint8_t: truncated again by the constructor
MemberIntf(intf) == intf % 256

Intfs == { InIntf(p) : p \in InPorts }

Bucket == [host : Hosts, out : { MemberIntf(i) : i \in Intfs }]

Member == [host : Hosts, intf : { MemberIntf(i) : i \in Intfs },
           bucket_index : Nat]

\* An MCGroup in the session store.
Session == [sport : UdpPorts, dport : UdpPorts, is_root : BOOLEAN,
            groupid : Nat]

Flow == [ip : GroupIPs, sport : UdpPorts, dport : UdpPorts, group : Nat]

ASSUME PortsAssumption == InPorts \subseteq Nat
ASSUME BoundAssumption == MaxGroupId \in Nat /\ IdSpace \in Nat \ {0}
ASSUME NullAssumption ==
  /\ NULL \notin Conns /\ NULL \notin Session /\ NULL \notin Member
  /\ NULL \notin Seq(Bucket)
  /\ NULL # Garbage /\ Garbage \notin Conns

VARIABLES
  conn,      \* conn[c]: "none", "started", "up" (datapath reported), "down"
  ofconn,    \* the connection the agent sends to
  store,     \* multicast_session_store_: the session of each group address
  members,   \* members[g][i]: the MCGroupMember of interface i, or NULL
  buckets,   \* buckets[g]: member_of13_buckets of g's context
  groupmod,  \* groupmod[g]: the reusable ofgroupmod of g's context
  OFMsgGroupIdGen, \* the last group id drawn
  out,       \* messages the last step put on the bound connection
  crashed    \* the process has been killed by undefined behaviour

state == <<store, members, buckets, groupmod>>
vars  == <<conn, ofconn, store, members, buckets, groupmod,
           OFMsgGroupIdGen, out, crashed>>

NoMembersYet == [i \in Intfs |-> NULL]

Init ==
  /\ conn = [c \in Conns |-> "none"]
  /\ ofconn \in {NULL, Garbage}
  /\ store = [g \in GroupIPs |-> NULL]
  /\ members = [g \in GroupIPs |-> NoMembersYet]
  /\ buckets = [g \in GroupIPs |-> <<>>]
  /\ groupmod = [g \in GroupIPs |-> [group_id |-> 0, buckets |-> <<>>]]
  /\ OFMsgGroupIdGen = 0
  /\ out = <<>>
  /\ crashed = FALSE

-----------------------------------------------------------------------------
(* Messages to the switch *)

RoleRequest == [type |-> "role"]

GroupMod(command, id, bs) ==
  [type |-> "group", command |-> command, group |-> id, buckets |-> bs]

FlowMod(command, flow) ==
  [type |-> "flow", command |-> command, flow |-> flow]

\* punts every UDP packet addressed to the source to the controller
HookFlowMod(ip) == [type |-> "hook", ip |-> ip]

\* re-emits a join or leave packet on the group's upstream interface
PacketOut(ip, request) ==
  [type |-> "packet_out", ip |-> ip, request |-> request]

\* the downstream flow of session s of group address ip
DownstreamFlow(ip, s) ==
  [ip |-> ip, sport |-> s.sport, dport |-> s.dport, group |-> s.groupid]

\* ofconn->send: what is sent on a connection that is closed goes nowhere
Send(msgs) == out' = IF conn[ofconn] = "up" THEN msgs ELSE <<>>

-----------------------------------------------------------------------------
(* Pieces of the handlers.  Those named Mutant... are the same piece with a *)
(* plausible mistake; nothing refers to them.                              *)

\* the counter is read without being incremented
MutantSameGroupId(n) == n

NextGroupId(n) == (n + 1) % IdSpace

\* Every MCGroup constructed draws an id, the temporaries included.
DrawGroupId ==
  /\ OFMsgGroupIdGen < MaxGroupId
  /\ OFMsgGroupIdGen' = NextGroupId(OFMsgGroupIdGen)

\* What a packet with UDP ports us -> ud asks of session s: 1 is a join,
\* 2 a leave, and the second test overrides the first.
Mflag(s, us, ud) ==
  IF s.sport = ud /\ s.dport = us THEN 2
  ELSE IF s.sport = us /\ s.dport = ud THEN 1
  ELSE 0

NoMembers(g) == \A i \in Intfs : members[g][i] = NULL

IsMember(g, i) == members[g][i] # NULL

\* a root's group, which exists already, is added again
MutantFirstOnAnySwitch(g) == NoMembers(g)

\* the join of the first member of a group the switch is not the root of
IsFirst(g) == NoMembers(g) /\ ~store[g].is_root

\* the size of the map is tested as if the member were already erased
MutantLastAfterErase(g, i) == NoMembers(g) /\ ~store[g].is_root

\* the leave of its last member
IsLast(g, i) ==
  (\A j \in Intfs \ {i} : members[g][j] = NULL) /\ ~store[g].is_root

\* the bucket add_bucket_of13_group builds for member m
BucketOf(m) == [host |-> m.host, out |-> m.intf]

\* clear() and pop_back() in place of erase(begin() + bi)
MutantWithoutAll(bs, bi) == <<>>
MutantWithoutLast(bs, bi) == IF Len(bs) <= bi THEN bs ELSE RemoveAt(bs, Len(bs))

\* erase(begin() + bi), or nothing when bi is past the end
WithoutBucket(bs, bi) == IF Len(bs) <= bi THEN bs ELSE RemoveAt(bs, bi + 1)

\* the other members keep their indexes
MutantNotReindexed(ms, i) == [j \in Intfs |-> IF j = i THEN NULL ELSE ms[j]]

\* the members in front of the erased one are renumbered
MutantReindexedInFront(ms, i) ==
  [j \in Intfs |->
     IF j = i THEN NULL
     ELSE IF ms[j] # NULL /\ ms[j].bucket_index < ms[i].bucket_index
          THEN [ms[j] EXCEPT !.bucket_index = @ - 1]
          ELSE ms[j]]

\* the members after the one of interface i is erased: those whose bucket
\* was behind its bucket move up by one
Reindexed(ms, i) ==
  [j \in Intfs |->
     IF j = i THEN NULL
     ELSE IF ms[j] # NULL /\ ms[j].bucket_index > ms[i].bucket_index
          THEN [ms[j] EXCEPT !.bucket_index = @ - 1]
          ELSE ms[j]]

\* create_group refuses class-D sessions by the top four bits of the 32-bit
\* destination.  It was copied from the network as it stands, so on the
\* little-endian machines the agent is built for they are the last octet's.
LooksClassD(dip) == dip[4] \div 16 = 14

-----------------------------------------------------------------------------
(* Connections *)

Running == ~crashed

\* a switch connects and negotiates the version
ConnectionStarted(c) ==
  /\ Running
  /\ conn[c] = "none"
  /\ conn' = [conn EXCEPT ![c] = "started"]
  /\ out' = <<>>
  /\ UNCHANGED <<ofconn, state, OFMsgGroupIdGen, crashed>>

\* the latest connection is bound
MutantSwitchUpRebinds(c, ofversion) ==
  /\ Running
  /\ conn[c] = "started"
  /\ conn' = [conn EXCEPT ![c] = "up"]
  /\ ofconn' = IF ofversion = 4 THEN c ELSE ofconn
  /\ out' = <<>>
  /\ UNCHANGED <<state, OFMsgGroupIdGen, crashed>>

\* EVENT_SWITCH_UP: only a NULL ofconn is ever bound, and only to a switch
\* that speaks OpenFlow 1.3
SwitchUp(c, ofversion) ==
  /\ Running
  /\ conn[c] = "started"
  /\ conn' = [conn EXCEPT ![c] = "up"]
  /\ \/ /\ ofversion = 4 /\ ofconn = NULL
        /\ ofconn' = c
        /\ out' = <<RoleRequest>>
     \/ /\ ofversion # 4 \/ ofconn # NULL
        /\ ofconn' = ofconn
        /\ out' = <<>>
  /\ UNCHANGED <<state, OFMsgGroupIdGen, crashed>>

\* EVENT_SWITCH_DOWN is only logged: the agent stays bound
SwitchDown(c) ==
  /\ Running
  /\ conn[c] \in {"started", "up"}
  /\ conn' = [conn EXCEPT ![c] = "down"]
  /\ out' = <<>>
  /\ UNCHANGED <<ofconn, state, OFMsgGroupIdGen, crashed>>

-----------------------------------------------------------------------------
(* Packet-ins *)

\* The id comparison dereferences ofconn: NULL stops the process, a garbage
\* pointer may or may not.
UnboundPacketIn(c) ==
  /\ Running
  /\ conn[c] \in {"started", "up"}
  /\ ofconn \in {NULL, Garbage}
  /\ crashed' \in (IF ofconn = NULL THEN {TRUE} ELSE BOOLEAN)
  /\ out' = <<>>
  /\ UNCHANGED <<conn, ofconn, state, OFMsgGroupIdGen>>

\* a packet-in of another connection than the bound one is dropped
ForeignPacketIn(c) ==
  /\ Running
  /\ conn[c] \in {"started", "up"}
  /\ ofconn \in Conns \ {c}
  /\ out' = <<>>
  /\ UNCHANGED <<conn, ofconn, state, OFMsgGroupIdGen, crashed>>

\* handle_IGMP_packet looks its group up and does nothing with it
IGMPPacketIn(c) ==
  /\ Running
  /\ ofconn = c
  /\ conn[c] = "up"
  /\ DrawGroupId
  /\ out' = <<>>
  /\ UNCHANGED <<conn, ofconn, state, crashed>>

\* add_bucket_of13_group for member m, and its entry in the map of members
AddMember(g, i, m) ==
  /\ members' = [members EXCEPT ![g][i] = m]
  /\ buckets' = [buckets EXCEPT ![g] = Append(@, BucketOf(m))]
  /\ groupmod' = [groupmod EXCEPT
       ![g] = [group_id |-> store[g].groupid,
               buckets |-> Append(@.buckets, BucketOf(m))]]

\* the flow is sent before the group it points at, or not at all
MutantFlowBeforeGroup(g, gm) ==
  <<PacketOut(g, "join"),
    FlowMod("ADD", DownstreamFlow(g, store[g])),
    GroupMod("ADD", gm.group_id, gm.buckets)>>
MutantGroupOnly(g, gm) ==
  <<PacketOut(g, "join"), GroupMod("ADD", gm.group_id, gm.buckets)>>

\* what is sent when the group comes to the switch; gm is the group-mod
InstallMessages(g, gm) ==
  <<PacketOut(g, "join"),
    GroupMod("ADD", gm.group_id, gm.buckets),
    FlowMod("ADD", DownstreamFlow(g, store[g]))>>

\* what is sent when it goes
RemoveMessages(g, gm) ==
  <<PacketOut(g, "leave"),
    FlowMod("DELETE", DownstreamFlow(g, store[g])),
    GroupMod("DELETE", gm.group_id, gm.buckets)>>

\* join_member_to_group
Join(g, i, h) ==
  LET m == [host |-> h, intf |-> MemberIntf(i),
            bucket_index |-> Len(buckets[g])]
      gm == groupmod'[g]
  IN  /\ UNCHANGED <<store, crashed>>
      /\ \/ /\ IsMember(g, i)
            /\ out' = <<>>
            /\ UNCHANGED <<members, buckets, groupmod>>
         \/ /\ ~IsMember(g, i)
            /\ IsFirst(g)
            /\ AddMember(g, i, m)
            /\ Send(InstallMessages(g, gm))
         \/ /\ ~IsMember(g, i)
            /\ ~IsFirst(g)
            /\ AddMember(g, i, m)
            /\ Send(<<GroupMod("MODIFY", gm.group_id, gm.buckets)>>)

\* the bucket stays in the group-mod that is sent
MutantRemoveFromVectorOnly(g, i) ==
  /\ members' = [members EXCEPT ![g] = Reindexed(@, i)]
  /\ buckets' = [buckets EXCEPT
       ![g] = WithoutBucket(@, members[g][i].bucket_index)]
  /\ groupmod' = groupmod

\* remove_bucket_of13_group, and the loop that renumbers the other members
RemoveMember(g, i) ==
  LET bi == members[g][i].bucket_index
  IN  /\ members' = [members EXCEPT ![g] = Reindexed(@, i)]
      /\ buckets' = [buckets EXCEPT ![g] = WithoutBucket(@, bi)]
      /\ groupmod' = [groupmod EXCEPT ![g].buckets =
           IF Len(buckets[g]) <= bi THEN @ ELSE WithoutBucket(@, bi)]

\* leave_member_from_group.  Its last statement deletes through an iterator
\* that erase() has invalidated: the process survives or dies there.
Leave(g, i) ==
  LET gm == groupmod'[g]
  IN  /\ UNCHANGED store
      /\ \/ /\ ~IsMember(g, i)
            /\ out' = <<>>
            /\ UNCHANGED <<members, buckets, groupmod, crashed>>
         \/ /\ IsMember(g, i)
            /\ IsLast(g, i)
            /\ RemoveMember(g, i)
            /\ Send(RemoveMessages(g, gm))
            /\ crashed' \in BOOLEAN
         \/ /\ IsMember(g, i)
            /\ ~IsLast(g, i)
            /\ RemoveMember(g, i)
            /\ Send(<<GroupMod("MODIFY", gm.group_id, gm.buckets)>>)
            /\ crashed' \in BOOLEAN

\* handle_UDP_packet for a packet from receiver h on the given port, sent to
\* address ip with UDP ports us -> ud
UDPPacketIn(c, ip, us, ud, port, h) ==
  /\ Running
  /\ ofconn = c
  /\ conn[c] = "up"
  /\ DrawGroupId
  /\ UNCHANGED <<conn, ofconn>>
  /\ \/ /\ store[ip] = NULL                \* random traffic
        /\ out' = <<>>
        /\ UNCHANGED <<state, crashed>>
     \/ /\ store[ip] # NULL
        /\ Mflag(store[ip], us, ud) = 0
        /\ out' = <<>>
        /\ UNCHANGED <<state, crashed>>
     \/ /\ store[ip] # NULL
        /\ Mflag(store[ip], us, ud) = 1
        /\ Join(ip, InIntf(port), h)
     \/ /\ store[ip] # NULL
        /\ Mflag(store[ip], us, ud) = 2
        /\ Leave(ip, InIntf(port))

-----------------------------------------------------------------------------
(* Groups *)

\* create_group, called with a message of the network controller.  main()
\* starts that client once a datapath is bound.  The id is drawn before the
\* store is searched; sessions are found by source address alone.
CreateGroup(sip, dip, sport, dport, is_root) ==
  LET s == [sport |-> sport, dport |-> dport, is_root |-> is_root,
            groupid |-> OFMsgGroupIdGen']
  IN  /\ Running
      /\ ofconn \in Conns
      /\ UNCHANGED <<conn, ofconn, members, buckets, crashed>>
      /\ \/ /\ LooksClassD(dip)
            /\ out' = <<>>
            /\ UNCHANGED <<store, groupmod, OFMsgGroupIdGen>>
         \/ /\ ~LooksClassD(dip)
            /\ DrawGroupId
            /\ store[sip] # NULL           \* group already exists
            /\ out' = <<>>
            /\ UNCHANGED <<store, groupmod>>
         \/ /\ ~LooksClassD(dip)
            /\ DrawGroupId
            /\ store[sip] = NULL
            /\ store' = [store EXCEPT ![sip] = s]
            /\ \/ /\ is_root
                  /\ groupmod' = [groupmod EXCEPT ![sip].group_id = s.groupid]
                  /\ Send(<<GroupMod("ADD", s.groupid, groupmod[sip].buckets),
                            FlowMod("ADD", DownstreamFlow(sip, s)),
                            HookFlowMod(sip)>>)
               \/ /\ ~is_root
                  /\ groupmod' = groupmod
                  /\ Send(<<HookFlowMod(sip)>>)

-----------------------------------------------------------------------------
Next ==
  \/ \E c \in Conns :
       \/ ConnectionStarted(c)
       \/ \E ofversion \in {1, 4} : SwitchUp(c, ofversion)
       \/ SwitchDown(c)
       \/ UnboundPacketIn(c)
       \/ ForeignPacketIn(c)
       \/ IGMPPacketIn(c)
       \/ \E ip \in GroupIPs, us, ud \in UdpPorts, port \in InPorts, h \in Hosts :
            UDPPacketIn(c, ip, us, ud, port, h)
  \/ \E sip \in GroupIPs, dip \in DestIPs, sport, dport \in UdpPorts,
       is_root \in BOOLEAN : CreateGroup(sip, dip, sport, dport, is_root)

Spec == Init /\ [][Next]_vars

-----------------------------------------------------------------------------
(* Properties *)

GroupMods == [type : {"group"}, command : {"ADD", "MODIFY", "DELETE"},
              group : Nat, buckets : Seq(Bucket)]
FlowMods == [type : {"flow"}, command : {"ADD", "DELETE"}, flow : Flow]
Hooks == [type : {"hook"}, ip : GroupIPs]
PacketOuts == [type : {"packet_out"}, ip : GroupIPs, request : {"join", "leave"}]
Messages == {RoleRequest} \cup GroupMods \cup FlowMods \cup Hooks \cup PacketOuts

\* The type invariant of the agent's variables.
TypeOK ==
  /\ conn \in [Conns -> {"none", "started", "up", "down"}]
  /\ ofconn \in Conns \cup {NULL, Garbage}
  /\ store \in [GroupIPs -> Session \cup {NULL}]
  /\ members \in [GroupIPs -> [Intfs -> Member \cup {NULL}]]
  /\ buckets \in [GroupIPs -> Seq(Bucket)]
  /\ groupmod \in [GroupIPs -> [group_id : Nat, buckets : Seq(Bucket)]]
  /\ OFMsgGroupIdGen \in 0..(IdSpace - 1)
  /\ out \in Seq(Messages)
  /\ crashed \in BOOLEAN

\* interfaces of g that have a member
MemberIntfs(g) == { i \in Intfs : IsMember(g, i) }

\* Every member's bucket_index points at the bucket that was built for it.
IndexPointsAtBucket ==
  \A g \in GroupIPs : \A i \in MemberIntfs(g) :
    LET m == members[g][i]
    IN  m.bucket_index < Len(buckets[g])
        /\ buckets[g][m.bucket_index + 1] = BucketOf(m)

\* No two members of a group point at the same bucket.
IndexesDistinct ==
  \A g \in GroupIPs : \A i, j \in MemberIntfs(g) :
    members[g][i].bucket_index = members[g][j].bucket_index => i = j

\* No bucket is left behind without a member.
EveryBucketOwned ==
  \A g \in GroupIPs : \A k \in 1..Len(buckets[g]) :
    \E i \in MemberIntfs(g) : members[g][i].bucket_index + 1 = k

\* The index a member keeps into the vector of buckets survives every sequence
\* of joins and leaves of other members (MCApps.hh:392-398): the indexes are
\* always a one-to-one correspondence between the members of a group and its
\* buckets, so a leave removes the leaver's bucket and nobody else's.
BucketsMatchMembers ==
  IndexPointsAtBucket /\ IndexesDistinct /\ EveryBucketOwned

\* The group-mod that is reused for every message of a group holds the same
\* buckets as the vector the indexes refer to, and the id of the session, as
\* soon as it has been sent once (MCGroup.cc:22-73).
GroupModInStep ==
  \A g \in GroupIPs :
    /\ groupmod[g].buckets = buckets[g]
    /\ store[g] = NULL => buckets[g] = <<>> /\ NoMembers(g)
    /\ store[g] # NULL /\ (store[g].is_root \/ ~NoMembers(g))
         => groupmod[g].group_id = store[g].groupid

\* Two sessions never share an OpenFlow group id, although every temporary
\* MCGroup that a packet-in or a refused create_group builds also draws one
\* (MCGroup.hh:85).
GroupIdsDistinct ==
  \A g, h \in GroupIPs :
    store[g] # NULL /\ store[h] # NULL /\ store[g].groupid = store[h].groupid
      => g = h

\* The bucket a member's index points at sends to the interface the member
\* is attached to, the one its join arrived on (MCGroupMember.hh:70), as far
\* as that is a number of 8 bits: the constructor takes no more (MemberIntf).
BucketReachesInterface ==
  \A g \in GroupIPs : \A i \in MemberIntfs(g) :
    \A k \in 1..Len(buckets[g]) :
      i < 256 /\ k = members[g][i].bucket_index + 1 => buckets[g][k].out = i

=============================================================================
