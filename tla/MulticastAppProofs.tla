------------------------- MODULE MulticastAppProofs -------------------------
(***************************************************************************)
(* Type correctness of the multicast agent and the correspondence between  *)
(* members and buckets, for every value of the constants.                  *)
(***************************************************************************)
EXTENDS MulticastApp, SequenceTheorems, TLAPS

(***************************************************************************)
(* Removing an element from a sequence                                     *)
(***************************************************************************)

\* What RemoveAt returns: a sequence one shorter, in which the elements in
\* front of the removed one keep their place and those behind move up.
LEMMA RemoveAtProperties ==
  ASSUME NEW S, NEW s \in Seq(S), NEW k \in 1..Len(s)
  PROVE  /\ RemoveAt(s, k) \in Seq(S)
         /\ Len(RemoveAt(s, k)) = Len(s) - 1
         /\ \A n \in 1..(Len(s) - 1) :
              RemoveAt(s, k)[n] = IF n < k THEN s[n] ELSE s[n + 1]
<1> DEFINE front == SubSeq(s, 1, k - 1)
           back  == SubSeq(s, k + 1, Len(s))
<1>1. \A n \in 1..Len(s) : s[n] \in S
  OBVIOUS
<1>2. /\ front \in Seq(S)
      /\ Len(front) = k - 1
      /\ \A n \in 1..(k - 1) : front[n] = s[n]
  <2>1. \A n \in 1..(k - 1) : s[n] \in S
    BY <1>1
  <2>2. /\ front \in Seq(S)
        /\ Len(front) = IF 1 <= k - 1 THEN (k - 1) - 1 + 1 ELSE 0
        /\ \A n \in 1..((k - 1) - 1 + 1) : front[n] = s[1 + n - 1]
    BY <2>1, SubSeqProperties
  <2> QED
    BY <2>2
<1>3. /\ back \in Seq(S)
      /\ Len(back) = Len(s) - k
      /\ \A n \in 1..(Len(s) - k) : back[n] = s[n + k]
  <2>1. \A n \in (k + 1)..Len(s) : s[n] \in S
    BY <1>1
  <2>2. /\ back \in Seq(S)
        /\ Len(back) = IF k + 1 <= Len(s) THEN Len(s) - (k + 1) + 1 ELSE 0
        /\ \A n \in 1..(Len(s) - (k + 1) + 1) : back[n] = s[(k + 1) + n - 1]
    BY <2>1, SubSeqProperties
  <2> QED
    BY <2>2
<1>4. RemoveAt(s, k) = front \o back
  BY DEF RemoveAt
<1> HIDE DEF front, back
<1>5. /\ front \o back \in Seq(S)
      /\ Len(front \o back) = Len(front) + Len(back)
      /\ \A n \in 1..(Len(front) + Len(back)) :
           (front \o back)[n] = IF n <= Len(front) THEN front[n]
                                ELSE back[n - Len(front)]
  BY <1>2, <1>3, ConcatProperties
<1>6. Len(front) + Len(back) = Len(s) - 1
  BY <1>2, <1>3
<1>7. ASSUME NEW n \in 1..(Len(s) - 1)
      PROVE  (front \o back)[n] = IF n < k THEN s[n] ELSE s[n + 1]
  <2>1. CASE n < k
    BY <1>2, <1>5, <1>6, <2>1
  <2>2. CASE ~(n < k)
    <3>1. n - Len(front) \in 1..(Len(s) - k) /\ n - Len(front) = n - (k - 1)
      BY <1>2, <2>2
    <3>2. (front \o back)[n] = back[n - Len(front)]
      BY <1>2, <1>5, <1>6, <2>2
    <3>3. back[n - Len(front)] = s[(n - Len(front)) + k]
      BY <1>3, <3>1
    <3>4. (n - Len(front)) + k = n + 1
      BY <3>1
    <3> QED
      BY <2>2, <3>2, <3>3, <3>4
  <2> QED
    BY <2>1, <2>2
<1> QED
  BY <1>4, <1>5, <1>6, <1>7

\* Erasing a bucket by its index keeps a list of buckets one.
LEMMA WithoutBucketType ==
  ASSUME NEW bs \in Seq(Bucket), NEW bi \in Nat
  PROVE  WithoutBucket(bs, bi) \in Seq(Bucket)
<1>1. CASE Len(bs) <= bi
  BY <1>1 DEF WithoutBucket
<1>2. CASE ~(Len(bs) <= bi)
  <2>1. bi + 1 \in 1..Len(bs)
    BY <1>2
  <2>2. RemoveAt(bs, bi + 1) \in Seq(Bucket)
    BY <2>1, RemoveAtProperties
  <2> QED
    BY <1>2, <2>2 DEF WithoutBucket
<1> QED
  BY <1>1, <1>2

(***************************************************************************)
(* Type correctness                                                        *)
(***************************************************************************)

\* The four kinds of message are built from their parts.
LEMMA MessageTypes ==
  /\ RoleRequest \in Messages
  /\ \A c \in {"ADD", "MODIFY", "DELETE"}, id \in Nat, bs \in Seq(Bucket) :
       GroupMod(c, id, bs) \in Messages
  /\ \A c \in {"ADD", "DELETE"}, g \in GroupIPs, s \in Session :
       FlowMod(c, DownstreamFlow(g, s)) \in Messages
  /\ \A g \in GroupIPs : HookFlowMod(g) \in Messages
  /\ \A g \in GroupIPs, r \in {"join", "leave"} : PacketOut(g, r) \in Messages
<1>1. RoleRequest \in Messages
  BY DEF Messages
<1>2. \A c \in {"ADD", "MODIFY", "DELETE"}, id \in Nat, bs \in Seq(Bucket) :
        GroupMod(c, id, bs) \in Messages
  BY DEF Messages, GroupMods, GroupMod
<1>3. ASSUME NEW c \in {"ADD", "DELETE"}, NEW g \in GroupIPs, NEW s \in Session
      PROVE  FlowMod(c, DownstreamFlow(g, s)) \in Messages
  <2>1. DownstreamFlow(g, s) \in Flow
    BY DEF DownstreamFlow, Flow, Session
  <2> QED
    BY <2>1 DEF Messages, FlowMods, FlowMod
<1>4. \A g \in GroupIPs : HookFlowMod(g) \in Messages
  BY DEF Messages, Hooks, HookFlowMod
<1>5. \A g \in GroupIPs, r \in {"join", "leave"} : PacketOut(g, r) \in Messages
  BY DEF Messages, PacketOuts, PacketOut
<1> QED
  BY <1>1, <1>2, <1>3, <1>4, <1>5

\* A batch of one or three messages, sent or dropped, is a batch of messages.
LEMMA SendType ==
  /\ \A a \in Messages : Send(<<a>>) => out' \in Seq(Messages)
  /\ \A a, b, c \in Messages : Send(<<a, b, c>>) => out' \in Seq(Messages)
<1>1. <<>> \in Seq(Messages)
  OBVIOUS
<1>2. \A a \in Messages : <<a>> \in Seq(Messages)
  OBVIOUS
<1>3. \A a, b, c \in Messages : <<a, b, c>> \in Seq(Messages)
  OBVIOUS
<1>4. ASSUME NEW ms \in Seq(Messages), Send(ms)
      PROVE  out' \in Seq(Messages)
  BY <1>1, <1>4 DEF Send
<1> QED
  BY <1>2, <1>3, <1>4

\* Drawing an id keeps the counter within its width.
LEMMA DrawType ==
  ASSUME OFMsgGroupIdGen \in 0..(IdSpace - 1), DrawGroupId
  PROVE  OFMsgGroupIdGen' \in 0..(IdSpace - 1)
  BY BoundAssumption DEF DrawGroupId, NextGroupId

\* A new member is one.
LEMMA NewMemberType ==
  ASSUME TypeOK, NEW g \in GroupIPs, NEW i \in Intfs, NEW h \in Hosts
  PROVE  LET m == [host |-> h, intf |-> MemberIntf(i),
                   bucket_index |-> Len(buckets[g])]
         IN  m \in Member /\ BucketOf(m) \in Bucket
<1>1. Len(buckets[g]) \in Nat
  BY DEF TypeOK
<1> QED
  BY <1>1 DEF Member, Bucket, BucketOf

\* Adding a member keeps the types of what it changes.
LEMMA AddMemberType ==
  ASSUME TypeOK, NEW g \in GroupIPs, NEW i \in Intfs, NEW m \in Member,
         BucketOf(m) \in Bucket, store[g] # NULL, AddMember(g, i, m)
  PROVE  /\ members' \in [GroupIPs -> [Intfs -> Member \cup {NULL}]]
         /\ buckets' \in [GroupIPs -> Seq(Bucket)]
         /\ groupmod' \in [GroupIPs -> [group_id : Nat, buckets : Seq(Bucket)]]
<1>1. store[g].groupid \in Nat
  BY DEF TypeOK, Session
<1>2. /\ Append(buckets[g], BucketOf(m)) \in Seq(Bucket)
      /\ Append(groupmod[g].buckets, BucketOf(m)) \in Seq(Bucket)
  BY AppendProperties DEF TypeOK
<1>3. members' \in [GroupIPs -> [Intfs -> Member \cup {NULL}]]
  BY DEF TypeOK, AddMember
<1>4. buckets' \in [GroupIPs -> Seq(Bucket)]
  BY <1>2 DEF TypeOK, AddMember
<1>5. groupmod' \in [GroupIPs -> [group_id : Nat, buckets : Seq(Bucket)]]
  BY <1>1, <1>2 DEF TypeOK, AddMember
<1> QED
  BY <1>3, <1>4, <1>5

\* The members left after one is erased are members.
LEMMA ReindexedType ==
  ASSUME NEW ms \in [Intfs -> Member \cup {NULL}], NEW i \in Intfs, ms[i] # NULL
  PROVE  Reindexed(ms, i) \in [Intfs -> Member \cup {NULL}]
<1> SUFFICES ASSUME NEW j \in Intfs, j # i, ms[j] # NULL,
                    ms[j].bucket_index > ms[i].bucket_index
             PROVE  [ms[j] EXCEPT !.bucket_index = @ - 1] \in Member
  BY DEF Reindexed
<1>1. ms[i] \in Member /\ ms[j] \in Member
  OBVIOUS
<1>2. ms[j].bucket_index - 1 \in Nat
  BY <1>1 DEF Member
<1> QED
  BY <1>1, <1>2 DEF Member

\* The interfaces that have no member after one is erased.
LEMMA ReindexedEmpties ==
  ASSUME NEW ms \in [Intfs -> Member \cup {NULL}], NEW i \in Intfs, ms[i] # NULL
  PROVE  \A j \in Intfs : Reindexed(ms, i)[j] = NULL <=> j = i \/ ms[j] = NULL
<1> SUFFICES ASSUME NEW j \in Intfs
             PROVE  Reindexed(ms, i)[j] = NULL <=> j = i \/ ms[j] = NULL
  OBVIOUS
<1>1. CASE j # i /\ ms[j] # NULL /\ ms[j].bucket_index > ms[i].bucket_index
  <2>1. ms[j] \in Member /\ ms[i] \in Member
    BY <1>1
  <2>2. ms[j].bucket_index - 1 \in Nat
    BY <1>1, <2>1 DEF Member
  <2>3. [ms[j] EXCEPT !.bucket_index = @ - 1] \in Member
    BY <2>1, <2>2 DEF Member
  <2> QED
    BY <1>1, <2>3, NullAssumption DEF Reindexed
<1>2. CASE ~(j # i /\ ms[j] # NULL /\ ms[j].bucket_index > ms[i].bucket_index)
  BY <1>2 DEF Reindexed
<1> QED
  BY <1>1, <1>2

\* Removing a member keeps the types of what it changes.
LEMMA RemoveMemberType ==
  ASSUME TypeOK, NEW g \in GroupIPs, NEW i \in Intfs, IsMember(g, i),
         RemoveMember(g, i)
  PROVE  /\ members' \in [GroupIPs -> [Intfs -> Member \cup {NULL}]]
         /\ buckets' \in [GroupIPs -> Seq(Bucket)]
         /\ groupmod' \in [GroupIPs -> [group_id : Nat, buckets : Seq(Bucket)]]
<1> DEFINE bi == members[g][i].bucket_index
<1>1. members[g] \in [Intfs -> Member \cup {NULL}] /\ members[g][i] # NULL
  BY DEF TypeOK, IsMember
<1>2. bi \in Nat
  BY <1>1 DEF Member
<1>3. Reindexed(members[g], i) \in [Intfs -> Member \cup {NULL}]
  BY <1>1, ReindexedType
<1>4. /\ WithoutBucket(buckets[g], bi) \in Seq(Bucket)
      /\ WithoutBucket(groupmod[g].buckets, bi) \in Seq(Bucket)
  BY <1>2, WithoutBucketType DEF TypeOK
<1>5. members' \in [GroupIPs -> [Intfs -> Member \cup {NULL}]]
  BY <1>3 DEF TypeOK, RemoveMember
<1>6. buckets' \in [GroupIPs -> Seq(Bucket)]
  BY <1>4 DEF TypeOK, RemoveMember
<1>7. groupmod' \in [GroupIPs -> [group_id : Nat, buckets : Seq(Bucket)]]
  BY <1>4 DEF TypeOK, RemoveMember
<1> QED
  BY <1>5, <1>6, <1>7

\* join_member_to_group keeps the types of what it changes.
LEMMA JoinType ==
  ASSUME TypeOK, NEW g \in GroupIPs, NEW i \in Intfs, NEW h \in Hosts,
         store[g] # NULL, Join(g, i, h), conn' = conn, ofconn' = ofconn,
         OFMsgGroupIdGen' \in 0..(IdSpace - 1)
  PROVE  TypeOK'
<1> DEFINE m == [host |-> h, intf |-> MemberIntf(i),
                 bucket_index |-> Len(buckets[g])]
           gm == groupmod'[g]
<1>1. CASE out' = <<>> /\ UNCHANGED <<store, members, buckets, groupmod, crashed>>
  BY <1>1 DEF TypeOK
<1>2. CASE /\ AddMember(g, i, m)
           /\ UNCHANGED <<store, crashed>>
           /\ \/ Send(InstallMessages(g, gm))
              \/ Send(<<GroupMod("MODIFY", gm.group_id, gm.buckets)>>)
  <2>1. m \in Member /\ BucketOf(m) \in Bucket
    BY NewMemberType
  <2> HIDE DEF m
  <2>2. /\ members' \in [GroupIPs -> [Intfs -> Member \cup {NULL}]]
        /\ buckets' \in [GroupIPs -> Seq(Bucket)]
        /\ groupmod' \in [GroupIPs -> [group_id : Nat, buckets : Seq(Bucket)]]
    BY <1>2, <2>1, AddMemberType
  <2>3. gm.group_id \in Nat /\ gm.buckets \in Seq(Bucket)
    BY <2>2
  <2>4. store[g] \in Session
    BY DEF TypeOK
  <2>5. /\ PacketOut(g, "join") \in Messages
        /\ GroupMod("ADD", gm.group_id, gm.buckets) \in Messages
        /\ GroupMod("MODIFY", gm.group_id, gm.buckets) \in Messages
        /\ FlowMod("ADD", DownstreamFlow(g, store[g])) \in Messages
    BY <2>3, <2>4, MessageTypes
  <2>6. out' \in Seq(Messages)
    BY <1>2, <2>5, SendType DEF InstallMessages
  <2> QED
    BY <1>2, <2>2, <2>6 DEF TypeOK
<1> QED
  BY <1>1, <1>2 DEF Join

\* leave_member_from_group keeps the types of what it changes.
LEMMA LeaveType ==
  ASSUME TypeOK, NEW g \in GroupIPs, NEW i \in Intfs, store[g] # NULL,
         Leave(g, i), conn' = conn, ofconn' = ofconn,
         OFMsgGroupIdGen' \in 0..(IdSpace - 1)
  PROVE  TypeOK'
<1> DEFINE gm == groupmod'[g]
<1>1. CASE out' = <<>> /\ UNCHANGED <<store, members, buckets, groupmod, crashed>>
  BY <1>1 DEF TypeOK
<1>2. CASE /\ IsMember(g, i)
           /\ RemoveMember(g, i)
           /\ UNCHANGED store
           /\ crashed' \in BOOLEAN
           /\ \/ Send(RemoveMessages(g, gm))
              \/ Send(<<GroupMod("MODIFY", gm.group_id, gm.buckets)>>)
  <2>1. /\ members' \in [GroupIPs -> [Intfs -> Member \cup {NULL}]]
        /\ buckets' \in [GroupIPs -> Seq(Bucket)]
        /\ groupmod' \in [GroupIPs -> [group_id : Nat, buckets : Seq(Bucket)]]
    BY <1>2, RemoveMemberType
  <2>2. gm.group_id \in Nat /\ gm.buckets \in Seq(Bucket)
    BY <2>1
  <2>3. store[g] \in Session
    BY DEF TypeOK
  <2>4. /\ PacketOut(g, "leave") \in Messages
        /\ GroupMod("DELETE", gm.group_id, gm.buckets) \in Messages
        /\ GroupMod("MODIFY", gm.group_id, gm.buckets) \in Messages
        /\ FlowMod("DELETE", DownstreamFlow(g, store[g])) \in Messages
    BY <2>2, <2>3, MessageTypes
  <2>5. out' \in Seq(Messages)
    BY <1>2, <2>4, SendType DEF RemoveMessages
  <2> QED
    BY <1>2, <2>1, <2>5 DEF TypeOK
<1> QED
  BY <1>1, <1>2 DEF Leave

\* create_group keeps the types of what it changes.
LEMMA CreateGroupType ==
  ASSUME TypeOK, NEW sip \in GroupIPs, NEW dip \in DestIPs,
         NEW sport \in UdpPorts, NEW dport \in UdpPorts, NEW is_root \in BOOLEAN,
         CreateGroup(sip, dip, sport, dport, is_root)
  PROVE  TypeOK'
<1> DEFINE s == [sport |-> sport, dport |-> dport, is_root |-> is_root,
                 groupid |-> OFMsgGroupIdGen']
<1>1. OFMsgGroupIdGen' \in 0..(IdSpace - 1)
  BY DrawType DEF TypeOK, CreateGroup
<1>2. CASE out' = <<>> /\ UNCHANGED <<store, groupmod>>
  BY <1>1, <1>2 DEF TypeOK, CreateGroup
<1>3. CASE /\ store' = [store EXCEPT ![sip] = s]
           /\ \/ /\ groupmod' = [groupmod EXCEPT ![sip].group_id = s.groupid]
                 /\ Send(<<GroupMod("ADD", s.groupid, groupmod[sip].buckets),
                           FlowMod("ADD", DownstreamFlow(sip, s)),
                           HookFlowMod(sip)>>)
              \/ /\ groupmod' = groupmod
                 /\ Send(<<HookFlowMod(sip)>>)
  <2>1. s \in Session /\ s.groupid \in Nat
    BY <1>1, BoundAssumption DEF Session
  <2> HIDE DEF s
  <2>2. /\ GroupMod("ADD", s.groupid, groupmod[sip].buckets) \in Messages
        /\ FlowMod("ADD", DownstreamFlow(sip, s)) \in Messages
        /\ HookFlowMod(sip) \in Messages
    BY <2>1, MessageTypes DEF TypeOK
  <2>3. out' \in Seq(Messages)
    BY <1>3, <2>2, SendType
  <2>4. store' \in [GroupIPs -> Session \cup {NULL}]
    BY <1>3, <2>1 DEF TypeOK
  <2>5. groupmod' \in [GroupIPs -> [group_id : Nat, buckets : Seq(Bucket)]]
    BY <1>3, <2>1 DEF TypeOK
  <2> QED
    BY <1>1, <2>3, <2>4, <2>5 DEF TypeOK, CreateGroup
<1> QED
  BY <1>2, <1>3 DEF CreateGroup

\* Every step of the agent keeps its type invariant.
LEMMA TypeStep == TypeOK /\ [Next]_vars => TypeOK'
<1> SUFFICES ASSUME TypeOK, [Next]_vars PROVE TypeOK'
  OBVIOUS
<1> USE DEF state
<1>1. ASSUME NEW c \in Conns, ConnectionStarted(c)
      PROVE  TypeOK'
  BY <1>1 DEF TypeOK, ConnectionStarted
<1>2. ASSUME NEW c \in Conns, (\E v \in {1, 4} : SwitchUp(c, v))
      PROVE  TypeOK'
  <2>1. out' \in Seq(Messages)
    <3>1. <<>> \in Seq(Messages) /\ <<RoleRequest>> \in Seq(Messages)
      BY MessageTypes
    <3> QED
      BY <1>2, <3>1 DEF SwitchUp
  <2>2. /\ conn' \in [Conns -> {"none", "started", "up", "down"}]
        /\ ofconn' \in Conns \cup {NULL, Garbage}
    BY <1>2 DEF SwitchUp, TypeOK
  <2> QED
    BY <1>2, <2>1, <2>2 DEF TypeOK, SwitchUp
<1>3. ASSUME NEW c \in Conns, SwitchDown(c)
      PROVE  TypeOK'
  BY <1>3 DEF TypeOK, SwitchDown
<1>4. ASSUME NEW c \in Conns, UnboundPacketIn(c)
      PROVE  TypeOK'
  <2>1. crashed' \in BOOLEAN
    <3>1. crashed' \in {TRUE} \/ crashed' \in BOOLEAN
      BY <1>4 DEF UnboundPacketIn
    <3> QED
      BY <3>1
  <2>2. out' \in Seq(Messages)
    BY <1>4 DEF UnboundPacketIn
  <2> QED
    BY <1>4, <2>1, <2>2 DEF TypeOK, UnboundPacketIn
<1>5. ASSUME NEW c \in Conns, ForeignPacketIn(c)
      PROVE  TypeOK'
  BY <1>5 DEF TypeOK, ForeignPacketIn
<1>6. ASSUME NEW c \in Conns, IGMPPacketIn(c)
      PROVE  TypeOK'
  <2>1. OFMsgGroupIdGen' \in 0..(IdSpace - 1)
    BY <1>6, DrawType DEF TypeOK, IGMPPacketIn
  <2> QED
    BY <1>6, <2>1 DEF TypeOK, IGMPPacketIn
<1>7. ASSUME NEW c \in Conns, NEW ip \in GroupIPs, NEW us \in UdpPorts,
             NEW ud \in UdpPorts, NEW port \in InPorts, NEW h \in Hosts,
             UDPPacketIn(c, ip, us, ud, port, h)
      PROVE  TypeOK'
  <2> DEFINE i == InIntf(port)
  <2>1. i \in Intfs
    BY DEF Intfs
  <2>2. OFMsgGroupIdGen' \in 0..(IdSpace - 1)
    BY <1>7, DrawType DEF TypeOK, UDPPacketIn
  <2>3. conn' = conn /\ ofconn' = ofconn
    BY <1>7 DEF UDPPacketIn
  <2> HIDE DEF i
  <2>4. CASE out' = <<>> /\ UNCHANGED <<state, crashed>>
    BY <2>2, <2>3, <2>4 DEF TypeOK
  <2>5. CASE store[ip] # NULL /\ Join(ip, i, h)
    BY <2>1, <2>2, <2>3, <2>5, JoinType
  <2>6. CASE store[ip] # NULL /\ Leave(ip, i)
    BY <2>1, <2>2, <2>3, <2>6, LeaveType
  <2> QED
    BY <1>7, <2>4, <2>5, <2>6 DEF UDPPacketIn, i
<1>8. ASSUME NEW sip \in GroupIPs, NEW dip \in DestIPs, NEW sport \in UdpPorts,
             NEW dport \in UdpPorts, NEW is_root \in BOOLEAN,
             CreateGroup(sip, dip, sport, dport, is_root)
      PROVE  TypeOK'
  BY <1>8, CreateGroupType
<1>9. CASE UNCHANGED vars
  BY <1>9 DEF TypeOK, vars
<1> QED
  BY <1>1, <1>2, <1>3, <1>4, <1>5, <1>6, <1>7, <1>8, <1>9 DEF Next

\* The variables start with their types.
LEMMA InitTypes == Init => TypeOK
<1> SUFFICES ASSUME Init PROVE TypeOK
  OBVIOUS
<1>1. <<>> \in Seq(Bucket) /\ <<>> \in Seq(Messages)
  OBVIOUS
<1>2. OFMsgGroupIdGen \in 0..(IdSpace - 1)
  BY BoundAssumption DEF Init
<1>3. /\ conn \in [Conns -> {"none", "started", "up", "down"}]
      /\ ofconn \in Conns \cup {NULL, Garbage}
      /\ store \in [GroupIPs -> Session \cup {NULL}]
      /\ members \in [GroupIPs -> [Intfs -> Member \cup {NULL}]]
      /\ buckets \in [GroupIPs -> Seq(Bucket)]
  BY <1>1 DEF Init, NoMembersYet
<1>4. groupmod \in [GroupIPs -> [group_id : Nat, buckets : Seq(Bucket)]]
  BY <1>1 DEF Init
<1>5. out \in Seq(Messages) /\ crashed \in BOOLEAN
  BY <1>1 DEF Init
<1> QED
  BY <1>2, <1>3, <1>4, <1>5 DEF TypeOK

\* The agent's variables always have their types.
THEOREM TypeCorrect == Spec => []TypeOK
<1>1. Init => TypeOK
  BY InitTypes
<1>2. TypeOK /\ [Next]_vars => TypeOK'
  BY TypeStep
<1> QED
  BY <1>1, <1>2, PTL DEF Spec

(***************************************************************************)
(* Members and buckets                                                     *)
(***************************************************************************)

\* BucketsMatchMembers for one group: ms are its members, bs its buckets
Matches(ms, bs) ==
  /\ \A i \in Intfs : ms[i] # NULL =>
       ms[i].bucket_index < Len(bs)
         /\ bs[ms[i].bucket_index + 1] = BucketOf(ms[i])
  /\ \A i, j \in Intfs : ms[i] # NULL /\ ms[j] # NULL =>
       (ms[i].bucket_index = ms[j].bucket_index => i = j)
  /\ \A k \in 1..Len(bs) : \E i \in Intfs :
       ms[i] # NULL /\ ms[i].bucket_index + 1 = k

\* BucketsMatchMembers says it of every group.
LEMMA MatchesEveryGroup ==
  BucketsMatchMembers <=> \A g \in GroupIPs : Matches(members[g], buckets[g])
  BY DEF BucketsMatchMembers, IndexPointsAtBucket, IndexesDistinct,
         EveryBucketOwned, MemberIntfs, IsMember, Matches

\* Appending the bucket of a new member whose index is the old length.
LEMMA AppendMatches ==
  ASSUME NEW ms \in [Intfs -> Member \cup {NULL}], NEW bs \in Seq(Bucket),
         NEW i \in Intfs, NEW m \in Member, BucketOf(m) \in Bucket,
         Matches(ms, bs), ms[i] = NULL, m.bucket_index = Len(bs)
  PROVE  Matches([ms EXCEPT ![i] = m], Append(bs, BucketOf(m)))
<1> DEFINE ms2 == [ms EXCEPT ![i] = m]
           bs2 == Append(bs, BucketOf(m))
<1>1. /\ Len(bs) \in Nat
      /\ Len(bs2) = Len(bs) + 1
      /\ \A k \in 1..Len(bs) : bs2[k] = bs[k]
      /\ bs2[Len(bs) + 1] = BucketOf(m)
  BY AppendProperties
<1>2. ms2[i] = m /\ \A j \in Intfs : j # i => ms2[j] = ms[j]
  OBVIOUS
<1>3. \A j \in Intfs : ms[j] # NULL =>
        ms[j].bucket_index \in Nat /\ ms[j].bucket_index < Len(bs)
  BY DEF Matches, Member
<1>4. m # NULL
  BY NullAssumption
<1> HIDE DEF ms2, bs2
<1>5. ASSUME NEW j \in Intfs, ms2[j] # NULL
      PROVE  ms2[j].bucket_index < Len(bs2)
               /\ bs2[ms2[j].bucket_index + 1] = BucketOf(ms2[j])
  <2>1. CASE j = i
    BY <1>1, <1>2, <2>1
  <2>2. CASE j # i
    <3>1. ms2[j] = ms[j] /\ ms[j] # NULL
      BY <1>2, <1>5, <2>2
    <3>2. ms[j].bucket_index + 1 \in 1..Len(bs)
      BY <1>1, <1>3, <3>1
    <3>3. bs[ms[j].bucket_index + 1] = BucketOf(ms[j])
      BY <3>1 DEF Matches
    <3> QED
      BY <1>1, <1>3, <3>1, <3>2, <3>3
  <2> QED
    BY <2>1, <2>2
<1>6. ASSUME NEW j \in Intfs, NEW l \in Intfs, ms2[j] # NULL, ms2[l] # NULL,
             ms2[j].bucket_index = ms2[l].bucket_index
      PROVE  j = l
  <2>1. \A n \in Intfs : n # i /\ ms2[n] # NULL => ms2[n].bucket_index # Len(bs)
    BY <1>1, <1>2, <1>3
  <2>2. ms2[i].bucket_index = Len(bs)
    BY <1>2
  <2>3. CASE j # i /\ l # i
    BY <1>2, <1>6, <2>3 DEF Matches
  <2> QED
    BY <1>6, <2>1, <2>2, <2>3
<1>7. ASSUME NEW k \in 1..Len(bs2)
      PROVE  \E j \in Intfs : ms2[j] # NULL /\ ms2[j].bucket_index + 1 = k
  <2>1. CASE k = Len(bs) + 1
    BY <1>2, <1>4, <2>1
  <2>2. CASE k \in 1..Len(bs)
    <3>1. PICK j \in Intfs : ms[j] # NULL /\ ms[j].bucket_index + 1 = k
      BY <2>2 DEF Matches
    <3>2. j # i
      BY <3>1
    <3> QED
      BY <1>2, <3>1, <3>2
  <2> QED
    BY <1>1, <2>1, <2>2
<1>8. Matches(ms2, bs2)
  BY <1>5, <1>6, <1>7 DEF Matches
<1> QED
  BY <1>8 DEF ms2, bs2

\* Erasing a member and its bucket, and renumbering the members behind it.
LEMMA EraseMatches ==
  ASSUME NEW ms \in [Intfs -> Member \cup {NULL}], NEW bs \in Seq(Bucket),
         NEW i \in Intfs, Matches(ms, bs), ms[i] # NULL
  PROVE  Matches(Reindexed(ms, i), WithoutBucket(bs, ms[i].bucket_index))
<1> DEFINE bi == ms[i].bucket_index
           ms2 == Reindexed(ms, i)
           bs2 == WithoutBucket(bs, bi)
<1>1. \A j \in Intfs : ms[j] # NULL =>
        /\ ms[j].bucket_index \in Nat
        /\ ms[j].bucket_index < Len(bs)
        /\ bs[ms[j].bucket_index + 1] = BucketOf(ms[j])
  BY DEF Matches, Member
<1>2. /\ bi \in Nat
      /\ bi + 1 \in 1..Len(bs)
      /\ Len(bs) \in Nat
  BY <1>1
<1>3. /\ Len(bs2) = Len(bs) - 1
      /\ \A k \in 1..(Len(bs) - 1) :
           bs2[k] = IF k < bi + 1 THEN bs[k] ELSE bs[k + 1]
  <2>1. bs2 = RemoveAt(bs, bi + 1)
    BY <1>2 DEF WithoutBucket
  <2> HIDE DEF bi
  <2> QED
    BY <1>2, <2>1, RemoveAtProperties
<1>4. ms2[i] = NULL
  BY DEF Reindexed
<1>5. ASSUME NEW j \in Intfs, j # i, ms[j] # NULL
      PROVE  /\ ms2[j] # NULL
             /\ BucketOf(ms2[j]) = BucketOf(ms[j])
             /\ ms[j].bucket_index # bi
             /\ ms2[j].bucket_index = IF ms[j].bucket_index > bi
                                      THEN ms[j].bucket_index - 1
                                      ELSE ms[j].bucket_index
  <2>1. ms[j].bucket_index # bi
    BY <1>5 DEF Matches
  <2>2. ms[j] \in Member
    BY <1>5
  <2>3. CASE ms[j].bucket_index > bi
    <3>1. ms2[j] = [ms[j] EXCEPT !.bucket_index = @ - 1]
      BY <1>5, <2>3 DEF Reindexed
    <3>2. /\ ms2[j].host = ms[j].host
          /\ ms2[j].intf = ms[j].intf
          /\ ms2[j].bucket_index = ms[j].bucket_index - 1
      BY <2>2, <3>1 DEF Member
    <3>3. [ms[j] EXCEPT !.bucket_index = @ - 1] \in Member
      <4>1. ms[j].bucket_index - 1 \in Nat
        BY <1>1, <1>2, <1>5, <2>3
      <4> QED
        BY <2>2, <4>1 DEF Member
    <3>4. ms2[j] # NULL
      BY <3>1, <3>3, NullAssumption
    <3> QED
      BY <2>1, <2>3, <3>2, <3>4 DEF BucketOf
  <2>4. CASE ~(ms[j].bucket_index > bi)
    <3>1. ms2[j] = ms[j]
      BY <1>5, <2>4 DEF Reindexed
    <3> QED
      BY <1>5, <2>1, <2>4, <3>1
  <2> QED
    BY <2>3, <2>4
<1>6. \A j \in Intfs : ms2[j] # NULL => j # i /\ ms[j] # NULL
  <2> SUFFICES ASSUME NEW j \in Intfs, j # i, ms[j] = NULL PROVE ms2[j] = NULL
    BY <1>4
  <2> QED
    BY DEF Reindexed
<1> HIDE DEF bi, ms2, bs2
<1>7. ASSUME NEW j \in Intfs, ms2[j] # NULL
      PROVE  ms2[j].bucket_index < Len(bs2)
               /\ bs2[ms2[j].bucket_index + 1] = BucketOf(ms2[j])
  <2>1. j # i /\ ms[j] # NULL
    BY <1>6, <1>7
  <2>2. CASE ms[j].bucket_index > bi
    <3>1. ms2[j].bucket_index + 1 = ms[j].bucket_index
      BY <1>1, <1>5, <2>1, <2>2
    <3>2. /\ ms[j].bucket_index \in 1..(Len(bs) - 1)
          /\ ~(ms[j].bucket_index < bi + 1)
      BY <1>1, <1>2, <2>1, <2>2
    <3>3. bs2[ms[j].bucket_index] = bs[ms[j].bucket_index + 1]
      BY <1>3, <3>2
    <3> QED
      BY <1>1, <1>2, <1>3, <1>5, <2>1, <2>2, <3>1, <3>3
  <2>3. CASE ms[j].bucket_index < bi
    <3>1. ms2[j].bucket_index = ms[j].bucket_index
      BY <1>1, <1>2, <1>5, <2>1, <2>3
    <3>2. /\ ms[j].bucket_index + 1 \in 1..(Len(bs) - 1)
          /\ ms[j].bucket_index + 1 < bi + 1
      BY <1>1, <1>2, <2>1, <2>3
    <3>3. bs2[ms[j].bucket_index + 1] = bs[ms[j].bucket_index + 1]
      BY <1>3, <3>2
    <3> QED
      BY <1>1, <1>2, <1>3, <1>5, <2>1, <3>1, <3>2, <3>3
  <2> QED
    BY <1>1, <1>2, <1>5, <2>1, <2>2, <2>3
<1>8. ASSUME NEW j \in Intfs, NEW l \in Intfs, ms2[j] # NULL, ms2[l] # NULL,
             ms2[j].bucket_index = ms2[l].bucket_index
      PROVE  j = l
  <2>1. j # i /\ ms[j] # NULL /\ l # i /\ ms[l] # NULL
    BY <1>6, <1>8
  <2>2. ms[j].bucket_index = ms[l].bucket_index
    BY <1>1, <1>2, <1>5, <1>8, <2>1
  <2> QED
    BY <2>1, <2>2 DEF Matches
<1>9. ASSUME NEW k \in 1..Len(bs2)
      PROVE  \E j \in Intfs : ms2[j] # NULL /\ ms2[j].bucket_index + 1 = k
  <2> DEFINE k1 == IF k < bi + 1 THEN k ELSE k + 1
  <2>1. k1 \in 1..Len(bs) /\ k1 # bi + 1
    BY <1>2, <1>3
  <2>2. PICK j \in Intfs : ms[j] # NULL /\ ms[j].bucket_index + 1 = k1
    BY <2>1 DEF Matches
  <2>3. j # i
    BY <2>1, <2>2 DEF bi
  <2>4. ms2[j] # NULL /\ ms2[j].bucket_index + 1 = k
    BY <1>1, <1>2, <1>5, <2>2, <2>3
  <2> QED
    BY <2>4
<1>10. Matches(ms2, bs2)
  BY <1>7, <1>8, <1>9 DEF Matches
<1> QED
  BY <1>10 DEF ms2, bs2, bi

(***************************************************************************)
(* The invariant of the agent                                              *)
(***************************************************************************)

\* The inductive invariant of the agent's data.  A join or a leave can only be
\* shown to keep members and buckets in step when the types of what it touches
\* are known, and a leave sends the right buckets only because the index of the
\* member that goes is within the list (the early return of
\* remove_bucket_of13_group is never taken).
AgentInv ==
  /\ TypeOK
  /\ BucketsMatchMembers
  /\ GroupModInStep

StateInv == BucketsMatchMembers /\ GroupModInStep

\* Every session's id has been drawn, and the counter is within its bound:
\* what makes a freshly drawn id differ from those in the store.
GroupIdsDrawn ==
  /\ OFMsgGroupIdGen <= MaxGroupId
  /\ \A g \in GroupIPs : store[g] # NULL =>
       store[g].groupid \in 1..OFMsgGroupIdGen

IdInv == GroupIdsDrawn /\ GroupIdsDistinct

\* A join keeps buckets, indexes and group-mods in step.
LEMMA JoinState ==
  ASSUME AgentInv, NEW g \in GroupIPs, NEW i \in Intfs, NEW h \in Hosts,
         store[g] # NULL, Join(g, i, h)
  PROVE  StateInv'
<1> DEFINE m == [host |-> h, intf |-> MemberIntf(i),
                 bucket_index |-> Len(buckets[g])]
<1> USE DEF AgentInv
<1>1. CASE UNCHANGED <<store, members, buckets, groupmod>>
  BY <1>1 DEF StateInv, BucketsMatchMembers, IndexPointsAtBucket,
       IndexesDistinct, EveryBucketOwned, MemberIntfs, IsMember,
       GroupModInStep, NoMembers
<1>2. CASE ~IsMember(g, i) /\ AddMember(g, i, m) /\ UNCHANGED store
  <2>1. m \in Member /\ BucketOf(m) \in Bucket
    BY NewMemberType
  <2>2. m.bucket_index = Len(buckets[g])
    OBVIOUS
  <2> HIDE DEF m
  <2>3. /\ members' = [members EXCEPT ![g][i] = m]
        /\ buckets' = [buckets EXCEPT ![g] = Append(@, BucketOf(m))]
        /\ groupmod' = [groupmod EXCEPT
             ![g] = [group_id |-> store[g].groupid,
                     buckets |-> Append(@.buckets, BucketOf(m))]]
    BY <1>2 DEF AddMember
  <2>4. /\ members \in [GroupIPs -> [Intfs -> Member \cup {NULL}]]
        /\ buckets \in [GroupIPs -> Seq(Bucket)]
        /\ groupmod \in [GroupIPs -> [group_id : Nat, buckets : Seq(Bucket)]]
    BY DEF TypeOK
  <2>5. /\ members'[g] = [members[g] EXCEPT ![i] = m]
        /\ buckets'[g] = Append(buckets[g], BucketOf(m))
        /\ groupmod'[g].group_id = store[g].groupid
        /\ groupmod'[g].buckets = Append(groupmod[g].buckets, BucketOf(m))
    BY <2>3, <2>4
  <2>6. \A f \in GroupIPs \ {g} :
          members'[f] = members[f] /\ buckets'[f] = buckets[f]
            /\ groupmod'[f] = groupmod[f]
    BY <2>3, <2>4
  <2>7. \A f \in GroupIPs : Matches(members[f], buckets[f])
    BY MatchesEveryGroup
  <2>8. members[g][i] = NULL
    BY <1>2 DEF IsMember
  <2>9. Matches(members'[g], buckets'[g])
    <3>1. /\ members[g] \in [Intfs -> Member \cup {NULL}]
          /\ buckets[g] \in Seq(Bucket)
          /\ Matches(members[g], buckets[g])
      BY <2>4, <2>7
    <3>2. Matches([members[g] EXCEPT ![i] = m], Append(buckets[g], BucketOf(m)))
      BY <2>1, <2>2, <2>8, <3>1, AppendMatches
    <3> QED
      BY <2>5, <3>2
  <2>10. \A f \in GroupIPs : Matches(members'[f], buckets'[f])
    BY <2>6, <2>7, <2>9
  <2>11. BucketsMatchMembers'
    BY <2>10 DEF BucketsMatchMembers, IndexPointsAtBucket, IndexesDistinct,
         EveryBucketOwned, MemberIntfs, IsMember, Matches
  <2>12. groupmod'[g].buckets = buckets'[g]
    BY <2>5 DEF GroupModInStep
  <2>13. GroupModInStep'
    BY <1>2, <2>5, <2>6, <2>12 DEF GroupModInStep, NoMembers
  <2> QED
    BY <2>11, <2>13 DEF StateInv
<1> QED
  BY <1>1, <1>2 DEF Join

\* So does a leave.
LEMMA LeaveState ==
  ASSUME AgentInv, NEW g \in GroupIPs, NEW i \in Intfs, store[g] # NULL,
         Leave(g, i)
  PROVE  StateInv'
<1> DEFINE bi == members[g][i].bucket_index
<1> USE DEF AgentInv
<1>1. CASE UNCHANGED <<store, members, buckets, groupmod>>
  BY <1>1 DEF StateInv, BucketsMatchMembers, IndexPointsAtBucket,
       IndexesDistinct, EveryBucketOwned, MemberIntfs, IsMember,
       GroupModInStep, NoMembers
<1>2. CASE IsMember(g, i) /\ RemoveMember(g, i) /\ UNCHANGED store
  <2>1. /\ members \in [GroupIPs -> [Intfs -> Member \cup {NULL}]]
        /\ buckets \in [GroupIPs -> Seq(Bucket)]
        /\ groupmod \in [GroupIPs -> [group_id : Nat, buckets : Seq(Bucket)]]
    BY DEF TypeOK
  <2>2. members[g][i] # NULL
    BY <1>2 DEF IsMember
  <2>3. \A f \in GroupIPs : Matches(members[f], buckets[f])
    BY MatchesEveryGroup
  <2>4. bi \in Nat /\ bi < Len(buckets[g]) /\ Len(buckets[g]) \in Nat
    <3>1. members[g][i] \in Member
      BY <2>1, <2>2
    <3> QED
      BY <2>1, <2>2, <2>3, <3>1 DEF Matches, Member
  <2>5. /\ members'[g] = Reindexed(members[g], i)
        /\ buckets'[g] = WithoutBucket(buckets[g], bi)
        /\ groupmod'[g].group_id = groupmod[g].group_id
    BY <1>2, <2>1 DEF RemoveMember
  <2>6. groupmod'[g].buckets = WithoutBucket(groupmod[g].buckets, bi)
    <3>1. ~(Len(buckets[g]) <= bi)
      BY <2>4
    <3> QED
      BY <1>2, <2>1, <3>1 DEF RemoveMember
  <2>7. \A f \in GroupIPs \ {g} :
          members'[f] = members[f] /\ buckets'[f] = buckets[f]
            /\ groupmod'[f] = groupmod[f]
    BY <1>2, <2>1 DEF RemoveMember
  <2>8. Matches(members'[g], buckets'[g])
    BY <2>1, <2>2, <2>3, <2>5, EraseMatches
  <2>9. \A f \in GroupIPs : Matches(members'[f], buckets'[f])
    BY <2>3, <2>7, <2>8
  <2>10. BucketsMatchMembers'
    BY <2>9 DEF BucketsMatchMembers, IndexPointsAtBucket, IndexesDistinct,
         EveryBucketOwned, MemberIntfs, IsMember, Matches
  <2>11. groupmod'[g].buckets = buckets'[g]
    BY <2>5, <2>6 DEF GroupModInStep
  <2>12. groupmod'[g].group_id = store[g].groupid
    BY <2>2, <2>5 DEF GroupModInStep, NoMembers
  <2>13. GroupModInStep'
    BY <1>2, <2>7, <2>11, <2>12 DEF GroupModInStep, NoMembers
  <2> QED
    BY <2>10, <2>13 DEF StateInv
<1> QED
  BY <1>1, <1>2 DEF Leave

\* A group that is created has no members, and the group-mod of a root's
\* group takes the id of its session.
LEMMA CreateGroupState ==
  ASSUME AgentInv, NEW sip \in GroupIPs, NEW dip \in DestIPs,
         NEW sport \in UdpPorts, NEW dport \in UdpPorts, NEW is_root \in BOOLEAN,
         CreateGroup(sip, dip, sport, dport, is_root)
  PROVE  StateInv'
<1> DEFINE s == [sport |-> sport, dport |-> dport, is_root |-> is_root,
                 groupid |-> OFMsgGroupIdGen']
<1> USE DEF AgentInv
<1>1. UNCHANGED <<members, buckets>>
  BY DEF CreateGroup
<1>2. BucketsMatchMembers'
  BY <1>1 DEF BucketsMatchMembers, IndexPointsAtBucket, IndexesDistinct,
       EveryBucketOwned, MemberIntfs, IsMember
<1>3. CASE UNCHANGED <<store, groupmod>>
  BY <1>1, <1>2, <1>3 DEF StateInv, GroupModInStep, NoMembers
<1>4. CASE /\ store[sip] = NULL
           /\ store' = [store EXCEPT ![sip] = s]
           /\ \/ is_root /\ groupmod' = [groupmod EXCEPT ![sip].group_id = s.groupid]
              \/ ~is_root /\ groupmod' = groupmod
  <2>1. s.groupid = OFMsgGroupIdGen' /\ s.is_root = is_root
    OBVIOUS
  <2> HIDE DEF s
  <2>2. /\ store \in [GroupIPs -> Session \cup {NULL}]
        /\ groupmod \in [GroupIPs -> [group_id : Nat, buckets : Seq(Bucket)]]
    BY DEF TypeOK
  <2>3. /\ store'[sip] = s
        /\ groupmod'[sip].buckets = groupmod[sip].buckets
        /\ is_root => groupmod'[sip].group_id = s.groupid
    BY <1>4, <2>2
  <2>4. \A f \in GroupIPs \ {sip} :
          store'[f] = store[f] /\ groupmod'[f] = groupmod[f]
    BY <1>4, <2>2
  <2>5. buckets[sip] = <<>> /\ NoMembers(sip)
    BY <1>4 DEF GroupModInStep
  <2>6. \A f \in GroupIPs : NoMembers(f)' <=> NoMembers(f)
    BY <1>1 DEF NoMembers
  <2>7. GroupModInStep'
    <3> SUFFICES ASSUME NEW f \in GroupIPs
                 PROVE  /\ groupmod'[f].buckets = buckets'[f]
                        /\ store'[f] = NULL => buckets'[f] = <<>> /\ NoMembers(f)'
                        /\ store'[f] # NULL /\ (store'[f].is_root \/ ~NoMembers(f)')
                             => groupmod'[f].group_id = store'[f].groupid
      BY DEF GroupModInStep
    <3>1. CASE f = sip
      BY <1>1, <2>1, <2>3, <2>5, <2>6, <3>1 DEF GroupModInStep
    <3>2. CASE f # sip
      BY <1>1, <2>4, <2>6, <3>2 DEF GroupModInStep
    <3> QED
      BY <3>1, <3>2
  <2> QED
    BY <1>2, <2>7 DEF StateInv
<1> QED
  BY <1>3, <1>4 DEF CreateGroup

\* Ids: drawn ids stay drawn, and a session that is added has a fresh one.
LEMMA GroupIdsStep ==
  ASSUME TypeOK, IdInv, [Next]_vars, MaxGroupId < IdSpace
  PROVE  IdInv'
<1> USE DEF IdInv, state
<1>1. OFMsgGroupIdGen \in Nat
  BY BoundAssumption DEF TypeOK
<1>2. DrawGroupId => /\ OFMsgGroupIdGen' = OFMsgGroupIdGen + 1
                     /\ OFMsgGroupIdGen' <= MaxGroupId
  BY <1>1, BoundAssumption DEF DrawGroupId, NextGroupId
<1>3. CASE store' = store /\ (DrawGroupId \/ OFMsgGroupIdGen' = OFMsgGroupIdGen)
  BY <1>1, <1>2, <1>3 DEF GroupIdsDrawn, GroupIdsDistinct
<1>4. ASSUME NEW sip \in GroupIPs, NEW s, DrawGroupId,
             s.groupid = OFMsgGroupIdGen', store' = [store EXCEPT ![sip] = s]
      PROVE  IdInv'
  <2>1. /\ store'[sip].groupid = OFMsgGroupIdGen + 1
        /\ \A g \in GroupIPs \ {sip} : store'[g] = store[g]
    BY <1>2, <1>4 DEF TypeOK
  <2>2. \A g \in GroupIPs \ {sip} : store[g] # NULL =>
          store[g].groupid \in 1..OFMsgGroupIdGen
    BY DEF GroupIdsDrawn
  <2>3. GroupIdsDrawn'
    BY <1>1, <1>2, <1>4, <2>1, <2>2 DEF GroupIdsDrawn
  <2>4. GroupIdsDistinct'
    <3> SUFFICES ASSUME NEW g \in GroupIPs, NEW h \in GroupIPs,
                        store'[g] # NULL, store'[h] # NULL,
                        store'[g].groupid = store'[h].groupid
                 PROVE  g = h
      BY DEF GroupIdsDistinct
    <3>1. CASE g # sip /\ h # sip
      BY <2>1, <3>1 DEF GroupIdsDistinct
    <3>2. CASE g = sip /\ h # sip
      BY <1>1, <2>1, <2>2, <3>2
    <3>3. CASE g # sip /\ h = sip
      BY <1>1, <2>1, <2>2, <3>3
    <3> QED
      BY <3>1, <3>2, <3>3
  <2> QED
    BY <2>3, <2>4
<1>5. ASSUME NEW sip \in GroupIPs, NEW dip \in DestIPs, NEW sport \in UdpPorts,
             NEW dport \in UdpPorts, NEW is_root \in BOOLEAN,
             CreateGroup(sip, dip, sport, dport, is_root)
      PROVE  IdInv'
  <2> DEFINE s == [sport |-> sport, dport |-> dport, is_root |-> is_root,
                   groupid |-> OFMsgGroupIdGen']
  <2>1. s.groupid = OFMsgGroupIdGen'
    OBVIOUS
  <2>2. CASE store' = store /\ (DrawGroupId \/ OFMsgGroupIdGen' = OFMsgGroupIdGen)
    BY <1>3, <2>2
  <2>3. CASE DrawGroupId /\ store' = [store EXCEPT ![sip] = s]
    <3> HIDE DEF s
    <3> QED
      BY <1>4, <2>1, <2>3
  <2> QED
    BY <1>5, <2>2, <2>3 DEF CreateGroup
<1>6. ASSUME NEW c \in Conns, NEW ip \in GroupIPs, NEW us \in UdpPorts,
             NEW ud \in UdpPorts, NEW port \in InPorts, NEW h \in Hosts,
             UDPPacketIn(c, ip, us, ud, port, h)
      PROVE  store' = store /\ DrawGroupId
  BY <1>6 DEF UDPPacketIn, Join, Leave
<1>7. ASSUME NEW c \in Conns,
             \/ ConnectionStarted(c) \/ SwitchDown(c)
             \/ \E v \in {1, 4} : SwitchUp(c, v)
             \/ UnboundPacketIn(c) \/ ForeignPacketIn(c) \/ IGMPPacketIn(c)
      PROVE  store' = store /\ (DrawGroupId \/ OFMsgGroupIdGen' = OFMsgGroupIdGen)
  BY <1>7 DEF ConnectionStarted, SwitchUp, SwitchDown, UnboundPacketIn,
       ForeignPacketIn, IGMPPacketIn
<1>8. CASE UNCHANGED vars
  BY <1>3, <1>8 DEF vars
<1> QED
  BY <1>3, <1>5, <1>6, <1>7, <1>8 DEF Next

\* Every step keeps members, buckets and group-mods in step.
LEMMA StateStep ==
  ASSUME AgentInv, [Next]_vars
  PROVE  StateInv'
<1> USE DEF AgentInv, state
<1>1. CASE UNCHANGED state
  BY <1>1 DEF StateInv, BucketsMatchMembers, IndexPointsAtBucket,
       IndexesDistinct, EveryBucketOwned, MemberIntfs, IsMember,
       GroupModInStep, NoMembers
<1>2. ASSUME NEW c \in Conns,
             \/ ConnectionStarted(c) \/ SwitchDown(c)
             \/ \E v \in {1, 4} : SwitchUp(c, v)
             \/ UnboundPacketIn(c) \/ ForeignPacketIn(c) \/ IGMPPacketIn(c)
      PROVE  UNCHANGED state
  BY <1>2 DEF ConnectionStarted, SwitchUp, SwitchDown, UnboundPacketIn,
       ForeignPacketIn, IGMPPacketIn
<1>3. ASSUME NEW c \in Conns, NEW ip \in GroupIPs, NEW us \in UdpPorts,
             NEW ud \in UdpPorts, NEW port \in InPorts, NEW h \in Hosts,
             UDPPacketIn(c, ip, us, ud, port, h)
      PROVE  StateInv'
  <2> DEFINE i == InIntf(port)
  <2>1. i \in Intfs
    BY DEF Intfs
  <2> HIDE DEF i
  <2>2. CASE store[ip] # NULL /\ Join(ip, i, h)
    BY <2>1, <2>2, JoinState
  <2>3. CASE store[ip] # NULL /\ Leave(ip, i)
    BY <2>1, <2>3, LeaveState
  <2>4. CASE UNCHANGED state
    BY <1>1, <2>4
  <2> QED
    BY <1>3, <2>2, <2>3, <2>4 DEF UDPPacketIn, i
<1>4. ASSUME NEW sip \in GroupIPs, NEW dip \in DestIPs, NEW sport \in UdpPorts,
             NEW dport \in UdpPorts, NEW is_root \in BOOLEAN,
             CreateGroup(sip, dip, sport, dport, is_root)
      PROVE  StateInv'
  BY <1>4, CreateGroupState
<1>5. CASE UNCHANGED vars
  BY <1>1, <1>5 DEF vars
<1> QED
  BY <1>1, <1>2, <1>3, <1>4, <1>5 DEF Next

\* No sessions, no members, no buckets.
LEMMA InitEmpty ==
  ASSUME Init
  PROVE  \A g \in GroupIPs : /\ store[g] = NULL
                             /\ buckets[g] = <<>>
                             /\ groupmod[g].buckets = <<>>
                             /\ NoMembers(g)
  BY DEF Init, NoMembers, NoMembersYet

\* The invariant holds of an agent without sessions.
LEMMA AgentInit == Init => AgentInv
<1> SUFFICES ASSUME Init PROVE AgentInv
  OBVIOUS
<1>1. BucketsMatchMembers
  BY InitEmpty DEF BucketsMatchMembers, IndexPointsAtBucket, IndexesDistinct,
       EveryBucketOwned, MemberIntfs, IsMember, NoMembers
<1> QED
  BY <1>1, InitTypes, InitEmpty DEF AgentInv, GroupModInStep

\* Every handler keeps it.
LEMMA AgentInvStep == AgentInv /\ [Next]_vars => AgentInv'
  BY TypeStep, StateStep DEF AgentInv, StateInv

\* The indexes that members keep into the list of buckets are always a one to
\* one correspondence, for any number of interfaces, groups and receivers.
THEOREM BucketsAlwaysMatch == Spec => []BucketsMatchMembers
<1>1. AgentInv => BucketsMatchMembers
  BY DEF AgentInv
<1> QED
  BY <1>1, AgentInit, AgentInvStep, PTL DEF Spec

\* The group-mod that is sent always holds the buckets of its group.
THEOREM GroupModAlwaysInStep == Spec => []GroupModInStep
<1>1. AgentInv => GroupModInStep
  BY DEF AgentInv
<1> QED
  BY <1>1, AgentInit, AgentInvStep, PTL DEF Spec

\* Two sessions never share a group id, provided that fewer MCGroups are
\* constructed than there are ids.  The run id_wrap shows what happens otherwise.
THEOREM GroupIdsAlwaysDistinct ==
  ASSUME MaxGroupId < IdSpace
  PROVE  Spec => []GroupIdsDistinct
<1>1. Init => TypeOK /\ IdInv
  BY InitTypes, InitEmpty, BoundAssumption
     DEF Init, IdInv, GroupIdsDrawn, GroupIdsDistinct
<1>2. (TypeOK /\ IdInv) /\ [Next]_vars => (TypeOK /\ IdInv)'
  BY TypeStep, GroupIdsStep
<1>3. IdInv => GroupIdsDistinct
  BY DEF IdInv
<1> QED
  BY <1>1, <1>2, <1>3, PTL DEF Spec


(***************************************************************************)
(* Members and interfaces                                                  *)
(***************************************************************************)

\* A member keeps the interface it joined on, in the 8 bits it has for it.
MembersAtTheirInterface ==
  \A g \in GroupIPs, i \in Intfs :
    members[g][i] # NULL => members[g][i].intf = MemberIntf(i)

\* Every handler leaves each member at the interface it joined on.
LEMMA InterfacesStep ==
  ASSUME TypeOK, MembersAtTheirInterface, [Next]_vars
  PROVE  MembersAtTheirInterface'
<1>1. CASE UNCHANGED members
  BY <1>1 DEF MembersAtTheirInterface
<1>2. ASSUME NEW g \in GroupIPs, NEW i \in Intfs, NEW h \in Hosts, Join(g, i, h),
             ~UNCHANGED members
      PROVE  MembersAtTheirInterface'
  <2> DEFINE m == [host |-> h, intf |-> MemberIntf(i), bucket_index |-> Len(buckets[g])]
  <2>1. members' = [members EXCEPT ![g][i] = m]
    BY <1>2 DEF Join, AddMember
  <2>2. m.intf = MemberIntf(i)
    OBVIOUS
  <2> HIDE DEF m
  <2>3. \A f \in GroupIPs, j \in Intfs :
          members'[f][j] = IF f = g /\ j = i THEN m ELSE members[f][j]
    BY <2>1 DEF TypeOK
  <2> QED BY <2>2, <2>3 DEF MembersAtTheirInterface
<1>3. ASSUME NEW g \in GroupIPs, NEW i \in Intfs, Leave(g, i), ~UNCHANGED members
      PROVE  MembersAtTheirInterface'
  <2>1. members' = [members EXCEPT ![g] = Reindexed(members[g], i)]
    BY <1>3 DEF Leave, RemoveMember
  <2>2. \A f \in GroupIPs \ {g} : members'[f] = members[f]
    BY <2>1 DEF TypeOK
  <2>3. members'[g] = Reindexed(members[g], i)
    BY <2>1 DEF TypeOK
  <2>4. ASSUME NEW j \in Intfs, members'[g][j] # NULL
        PROVE  members'[g][j].intf = MemberIntf(j)
    <3>1. /\ j # i /\ members[g][j] # NULL
          /\ \/ members'[g][j] = members[g][j]
             \/ members'[g][j] = [members[g][j] EXCEPT !.bucket_index = @ - 1]
      BY <2>3, <2>4 DEF Reindexed
    <3>2. members[g][j] \in Member /\ members[g][j].intf = MemberIntf(j)
      BY <3>1 DEF TypeOK, MembersAtTheirInterface
    <3> QED BY <3>1, <3>2 DEF Member
  <2> QED BY <2>2, <2>4 DEF MembersAtTheirInterface
<1>4. ASSUME NEW c \in Conns, NEW ip \in GroupIPs, NEW us \in UdpPorts,
             NEW ud \in UdpPorts, NEW port \in InPorts, NEW h \in Hosts,
             UDPPacketIn(c, ip, us, ud, port, h)
      PROVE  MembersAtTheirInterface'
  <2>1. InIntf(port) \in Intfs
    BY DEF Intfs
  <2>2. UNCHANGED members \/ Join(ip, InIntf(port), h) \/ Leave(ip, InIntf(port))
    BY <1>4 DEF UDPPacketIn, state
  <2> QED BY <1>1, <1>2, <1>3, <2>1, <2>2
<1> QED
  BY <1>1, <1>4 DEF Next, ConnectionStarted, SwitchUp, SwitchDown, UnboundPacketIn,
     ForeignPacketIn, IGMPPacketIn, CreateGroup, state, vars

\* Whatever other receivers join and leave, the bucket a member's index points
\* at sends to the interface the member joined on, if that is a number of 8
\* bits (MCGroupMember.hh:70).  It takes both invariants: which bucket is the
\* member's, and which interface the member is at.
THEOREM BucketsAlwaysReach == Spec => []BucketReachesInterface
<1>1. Init => MembersAtTheirInterface
  BY InitEmpty DEF MembersAtTheirInterface, NoMembers
<1>2. AgentInv /\ MembersAtTheirInterface => BucketReachesInterface
  <2> SUFFICES ASSUME AgentInv, MembersAtTheirInterface,
                      NEW g \in GroupIPs, NEW i \in MemberIntfs(g),
                      NEW k \in 1..Len(buckets[g]), i < 256,
                      k = members[g][i].bucket_index + 1
               PROVE  buckets[g][k].out = i
    BY DEF BucketReachesInterface
  <2>1. i \in Intfs /\ members[g][i] # NULL
    BY DEF MemberIntfs, IsMember
  <2>2. buckets[g][k] = BucketOf(members[g][i]) /\ members[g][i].intf = MemberIntf(i)
    BY <2>1 DEF AgentInv, BucketsMatchMembers, IndexPointsAtBucket,
                MembersAtTheirInterface
  <2>3. i \in Nat
    <3>1. PICK p \in InPorts : i = InIntf(p)
      BY <2>1 DEF Intfs
    <3> QED BY <3>1, PortsAssumption DEF InIntf
  <2>4. MemberIntf(i) = i
    BY <2>3 DEF MemberIntf
  <2> QED BY <2>2, <2>4 DEF BucketOf
<1>3. AgentInv => TypeOK
  BY DEF AgentInv
<1> QED
  BY <1>1, <1>2, <1>3, AgentInit, AgentInvStep, InterfacesStep, PTL DEF Spec

=============================================================================
