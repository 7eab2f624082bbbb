------------------------- MODULE AgentThreadsProofs -------------------------
(***************************************************************************)
(* The agent with its threads interleaved, for every number of connections *)
(* and of groups, every stream of records and every size of arrival: the   *)
(* client's thread never runs before the agent is bound, no worker ever    *)
(* serves a packet that the hook of a half made group has punted, and no   *)
(* switch refuses a message but for one of three races.                    *)
(*                                                                         *)
(* An invariant of each is proved action by action: where every thread may *)
(* stand while dpid and ofconn are set one after the other, where the hook *)
(* of a group may be while the client is still sending its messages, and   *)
(* where the messages on the connection lead the groups in the switch.     *)
(***************************************************************************)
EXTENDS AgentThreads, MulticastAppProofs, FiniteSetTheorems

(***************************************************************************)
(* The invariants                                                          *)
(***************************************************************************)

MainSteps == {"poll", "wait", "stop_client", "done"}

WorkerSteps == {"idle", "bind", "identify", "load", "store", "find", "key", "act"}

ClientSteps == {"none", "connect", "loop", "lost", "read", "load", "store", "find",
                "insert", "send"}

ThreadState == [pc : MainSteps \cup WorkerSteps \cup ClientSteps,
                id : 0..(IdSpace - 1),
                job : {NULL} \cup Record \cup Packet,
                todo : Seq(Messages),
                key : GroupIPs \cup {NULL}]

\* What each thread may be doing, and for what.
ThreadsTyped ==
  /\ thread \in [Threads -> ThreadState]
  /\ thread[Main].pc \in MainSteps
  /\ \A c \in Conns :
       /\ thread[c].pc \in WorkerSteps
       /\ thread[c].job # NULL => thread[c].job \in Packet
       /\ thread[c].pc \in {"load", "store", "find", "key", "act"} => thread[c].job \in Packet
  /\ thread[Client].pc \in ClientSteps
  /\ thread[Client].pc \in {"load", "store", "find", "insert", "send"} =>
       thread[Client].job \in Record

StreamTyped ==
  /\ switches \subseteq Conns
  /\ stream \in Seq(Record)
  /\ taken \in Nat /\ arrived \in Nat
  /\ taken <= arrived /\ arrived <= 2 * Len(stream)
  /\ packets \subseteq Packet
  /\ merged \in BOOLEAN

DatapathType == [groups : [0..MaxGroupId -> Seq(Bucket) \cup {NULL}],
                 flows : SUBSET Flow,
                 hooks : SUBSET GroupIPs,
                 upstream : [GroupIPs -> {"none", "join", "leave"}],
                 refused : BOOLEAN]

\* The type invariant of the process: the iterator is never at a session that
\* is not in the store.
ProcessTyped ==
  /\ TypeOK
  /\ ThreadsTyped
  /\ StreamTyped
  /\ iterator # NULL => iterator \in GroupIPs /\ store[iterator] # NULL
  /\ dpid \in Conns \cup {NULL}
  /\ bound \subseteq Conns
  /\ early \in BOOLEAN

\* A worker that is about to serve a packet has read a session that is stored.
KeysTyped ==
  \A c \in Conns :
    thread[c].pc = "act" =>
      /\ thread[c].job.protocol = "UDP"
      /\ thread[c].key \in GroupIPs /\ store[thread[c].key] # NULL

ATypeOK ==
  /\ ProcessTyped
  /\ wire \in [Conns -> Seq(Messages)]
  /\ dp \in [Conns -> DatapathType]

\* A worker between "ofconn = c" and "dpid = c" has bound its connection, one
\* in front of "ofconn = c" is about to; whoever was overtaken, dpid is never
\* set while ofconn is not.
BoundInv ==
  /\ bound # {} => ofconn \in bound
  /\ dpid # NULL => dpid \in bound
  /\ \A c \in Conns : thread[c].pc = "identify" => c \in bound
  /\ \A c \in Conns :
       c \in bound \/ thread[c].pc = "bind" => conn[c] \in {"up", "down"}
  /\ thread[Client].pc # "none" => dpid # NULL

\* create_group has finished with the group of address ip
Finished(ip) ==
  /\ store[ip] # NULL
  /\ ~(thread[Client].pc = "send" /\ thread[Client].job.sip = ip)

IsHook(m) == m.type = "hook"

\* Wherever a hook has come to, in the switch, on the connection, or as a packet
\* it let through, its group is finished.
HooksFinished ==
  \A c \in Conns : \A ip \in dp[c].hooks : Finished(ip)

WireFinished ==
  \A c \in Conns : \A k \in 1..Len(wire[c]) :
    IsHook(wire[c][k]) => Finished(wire[c][k].ip)

\* p is what a worker keeps of a packet that a hook of the agent has punted
IsHooked(p) == p # NULL /\ p.protocol = "UDP" /\ p.hooked

JobsFinished ==
  \A c \in Conns : IsHooked(thread[c].job) => Finished(thread[c].job.ip)

\* A group that is about to be inserted is not there yet; one that is being sent
\* is, and what the client has still to send has the hook of the group at its end.
CreationInv ==
  LET todo == thread[Client].todo
      sip  == thread[Client].job.sip
  IN  /\ thread[Client].pc = "insert" => store[sip] = NULL
      /\ thread[Client].pc = "send" =>
           /\ store[sip] # NULL
           /\ todo # <<>>
           /\ \A k \in 1..Len(todo) :
                IsHook(todo[k]) => k = Len(todo) /\ todo[k].ip = sip

HookInv == HooksFinished /\ WireFinished /\ JobsFinished /\ CreationInv

\* every hook that the last step has sent is one of a finished group
OutFinished ==
  \A k \in 1..Len(out) : IsHook(out[k]) => Finished(out[k].ip)

AInv == ATypeOK /\ KeysTyped /\ BoundInv /\ HookInv

(***************************************************************************)
(* Types                                                                   *)
(***************************************************************************)

\* The threads are different ones.
LEMMA ThreadNames ==
  /\ Main \in Threads /\ Client \in Threads /\ Main # Client
  /\ \A c \in Conns : c \in Threads /\ c # Main /\ c # Client
  /\ NULL \notin Conns
  BY ThreadsAssumption DEF Threads

\* A step that changes nothing of the agent but its connections and the id
\* counter, and sends nothing, keeps the agent's types.
LEMMA QuietType ==
  ASSUME TypeOK, Silent, state' = state, crashed' \in BOOLEAN,
         conn' \in [Conns -> {"none", "started", "up", "down"}],
         ofconn' \in Conns \cup {NULL, Garbage},
         OFMsgGroupIdGen' \in 0..(IdSpace - 1)
  PROVE  TypeOK'
  BY DEF TypeOK, Silent, state

\* A race leaves the process alive or dead.
LEMMA RacingType ==
  \A t, step : crashed' \in Racing(t, step) => crashed' \in BOOLEAN
  BY DEF Racing

\* One thread t moves to a step of its own, for the same job.
LEMMA GotoTyped ==
  ASSUME ThreadsTyped, NEW t \in Threads, NEW step, Goto(t, step),
         \/ t = Main /\ step \in MainSteps
         \/ /\ t \in Conns /\ step \in WorkerSteps
            /\ step \in {"load", "store", "find", "key", "act"} =>
                 thread[t].pc \in {"load", "store", "find", "key", "act"}
         \/ /\ t = Client /\ step \in ClientSteps
            /\ step \in {"load", "store", "find", "insert", "send"} =>
                 thread[Client].pc \in {"load", "store", "find", "insert", "send"}
  PROVE  ThreadsTyped'
<1>1. thread' \in [Threads -> ThreadState]
  <2>1. thread[t] \in ThreadState
    BY DEF ThreadsTyped
  <2>2. step \in MainSteps \cup WorkerSteps \cup ClientSteps
    OBVIOUS
  <2>3. [thread[t] EXCEPT !.pc = step] \in ThreadState
    BY <2>1, <2>2 DEF ThreadState
  <2> QED
    BY <2>3 DEF ThreadsTyped, Goto
<1>2. /\ thread'[t].pc = step /\ thread'[t].job = thread[t].job
      /\ \A u \in Threads \ {t} : thread'[u] = thread[u]
  <2>1. thread[t] \in ThreadState
    BY DEF ThreadsTyped
  <2> QED
    BY <2>1 DEF ThreadsTyped, Goto, ThreadState
<1>3. CASE t = Main
  BY <1>1, <1>2, <1>3, ThreadNames DEF ThreadsTyped
<1>4. CASE t \in Conns
  BY <1>1, <1>2, <1>4, ThreadNames DEF ThreadsTyped
<1>5. CASE t = Client
  BY <1>1, <1>2, <1>5, ThreadNames DEF ThreadsTyped
<1> QED
  BY <1>3, <1>4, <1>5

\* A worker's thread is given a state that is one of a worker.
LEMMA WorkerSetTyped ==
  ASSUME ThreadsTyped, NEW c \in Conns, NEW s \in ThreadState,
         thread' = [thread EXCEPT ![c] = s],
         s.pc \in WorkerSteps,
         s.job # NULL => s.job \in Packet,
         s.pc \in {"load", "store", "find", "key", "act"} => s.job \in Packet
  PROVE  ThreadsTyped'
<1>1. thread' \in [Threads -> ThreadState] /\ thread'[c] = s
  BY ThreadNames DEF ThreadsTyped
<1>2. \A u \in Threads \ {c} : thread'[u] = thread[u]
  BY DEF ThreadsTyped
<1> QED
  BY <1>1, <1>2, ThreadNames DEF ThreadsTyped

\* The client's thread is given a state that is one of the client.
LEMMA ClientSetTyped ==
  ASSUME ThreadsTyped, NEW s \in ThreadState,
         thread' = [thread EXCEPT ![Client] = s],
         s.pc \in ClientSteps,
         s.pc \in {"load", "store", "find", "insert", "send"} => s.job \in Record
  PROVE  ThreadsTyped'
<1>1. thread' \in [Threads -> ThreadState] /\ thread'[Client] = s
  BY ThreadNames DEF ThreadsTyped
<1>2. \A u \in Threads \ {Client} : thread'[u] = thread[u]
  BY DEF ThreadsTyped
<1> QED
  BY <1>1, <1>2, ThreadNames DEF ThreadsTyped

\* No thread that does nothing has anything to do.
LEMMA IdleType == Idle \in ThreadState /\ Idle.pc = "idle" /\ Idle.job = NULL
  BY BoundAssumption DEF Idle, ThreadState, WorkerSteps

\* The fields of a packet, and what punting adds to it.
LEMMA PacketFields ==
  ASSUME NEW p \in Packet
  PROVE  /\ p.ip \in GroupIPs /\ p.protocol \in {"UDP", "IGMP"}
         /\ p.protocol = "UDP" => p.intf \in Intfs /\ p.host \in Hosts
  BY DEF Packet, UDPPacket, IGMPPacket

LEMMA PuntedType ==
  ASSUME NEW c \in Conns, NEW p \in Packet
  PROVE  /\ Punted(c, p) \in Packet /\ Punted(c, p) # NULL
         /\ Punted(c, p).ip = p.ip
         /\ IsHooked(Punted(c, p)) => p.ip \in dp[c].hooks
<1>1. CASE p \in UDPPacket
  <2> DEFINE h == p.ip \in dp[c].hooks
             q == [p EXCEPT !.hooked = h]
  <2>1. p.protocol = "UDP" /\ Punted(c, p) = q
    BY <1>1 DEF UDPPacket, Punted
  <2>2. h \in BOOLEAN
    OBVIOUS
  <2> HIDE DEF h
  <2>3. q \in UDPPacket /\ q.ip = p.ip /\ q.hooked = h
    BY <1>1, <2>2 DEF UDPPacket
  <2> HIDE DEF q
  <2>4. q # NULL
    BY <2>3, ThreadsAssumption DEF Packet
  <2> QED
    BY <2>1, <2>3, <2>4 DEF Packet, IsHooked, h
<1>2. CASE p \in IGMPPacket
  <2>1. p.protocol = "IGMP" /\ Punted(c, p) = p
    BY <1>2 DEF IGMPPacket, Punted
  <2> QED
    BY <2>1, ThreadsAssumption DEF IsHooked
<1> QED
  BY <1>1, <1>2 DEF Packet

-----------------------------------------------------------------------------
(* The actions of a worker, and those of any thread *)

\* The steps that bind a connection keep the types.
LEMMA ConnectionTypes ==
  ASSUME ProcessTyped, NEW c \in Conns,
         \/ Connect(c)
         \/ \E ofversion \in {1, 4} : SwitchIsUp(c, ofversion)
         \/ Bind(c) \/ Identify(c) \/ Disconnect(c)
  PROVE  ProcessTyped'
<1> USE DEF sessions, state, network
<1>1. CASE Connect(c) \/ Disconnect(c)
  <2>1. TypeOK'
    <3>1. conn' \in [Conns -> {"none", "started", "up", "down"}]
      BY <1>1 DEF ProcessTyped, TypeOK, Connect, Disconnect
    <3> QED
      BY <1>1, <3>1, QuietType DEF ProcessTyped, TypeOK, Connect, Disconnect
  <2>2. UNCHANGED <<early, thread, iterator, store, dpid, bound, network, packets>>
    BY <1>1 DEF Connect, Disconnect
  <2> QED
    BY <2>1, <2>2 DEF ProcessTyped, ThreadsTyped, StreamTyped
<1>2. ASSUME NEW v \in {1, 4}, SwitchIsUp(c, v)
      PROVE  ProcessTyped'
  <2>1. TypeOK'
    <3>1. conn' \in [Conns -> {"none", "started", "up", "down"}]
      BY <1>2 DEF ProcessTyped, TypeOK, SwitchIsUp
    <3> QED
      BY <1>2, <3>1, QuietType DEF ProcessTyped, TypeOK, SwitchIsUp
  <2>2. UNCHANGED <<early, iterator, store, dpid, bound, network, packets>>
    BY <1>2 DEF SwitchIsUp
  <2>3. ThreadsTyped'
    <3>1. PICK step \in {"bind", "idle"} : Goto(c, step)
      BY <1>2 DEF SwitchIsUp
    <3> QED
      BY <3>1, GotoTyped, ThreadNames DEF ProcessTyped, WorkerSteps
  <2> QED
    BY <2>1, <2>2, <2>3 DEF ProcessTyped, StreamTyped
<1>3. CASE Bind(c)
  <2>1. TypeOK'
    BY <1>3, QuietType DEF ProcessTyped, TypeOK, Bind
  <2>2. UNCHANGED <<early, iterator, store, dpid, network, packets>>
        /\ bound' = bound \cup {c}
    BY <1>3 DEF Bind
  <2>3. ThreadsTyped'
    <3>1. Goto(c, "identify")
      BY <1>3 DEF Bind
    <3> QED
      BY <3>1, GotoTyped, ThreadNames DEF ProcessTyped, WorkerSteps
  <2> QED
    BY <2>1, <2>2, <2>3 DEF ProcessTyped, StreamTyped
<1>4. CASE Identify(c)
  <2>1. TypeOK'
    <3>1. out' \in Seq(Messages)
      <4>1. Send(<<RoleRequest>>)
        BY <1>4 DEF Identify
      <4> QED
        BY <4>1, SendType, MessageTypes
    <3> QED
      BY <1>4, <3>1 DEF ProcessTyped, TypeOK, Identify
  <2>2. UNCHANGED <<early, iterator, store, bound, network, packets>> /\ dpid' = c
    BY <1>4 DEF Identify
  <2>3. ThreadsTyped'
    <3>1. Goto(c, "idle")
      BY <1>4 DEF Identify
    <3> QED
      BY <3>1, GotoTyped, ThreadNames DEF ProcessTyped, WorkerSteps
  <2> QED
    BY <2>1, <2>2, <2>3 DEF ProcessTyped, StreamTyped
<1> QED
  BY <1>1, <1>2, <1>3, <1>4

\* The two steps of ++OFMsgGroupIdGen keep the types.
LEMMA GroupIdTypes ==
  ASSUME ProcessTyped, NEW t \in Conns \cup {Client},
         LoadGroupId(t) \/ StoreGroupId(t)
  PROVE  ProcessTyped'
<1> USE DEF sessions, state, network, binding
<1>0. t \in Threads /\ thread[t] \in ThreadState
  BY ThreadNames DEF ProcessTyped, ThreadsTyped
<1>1. CASE LoadGroupId(t)
  <2>1. TypeOK'
    BY <1>1, QuietType DEF ProcessTyped, TypeOK, LoadGroupId
  <2>2. UNCHANGED <<early, iterator, store, dpid, bound, network, packets>>
    BY <1>1 DEF LoadGroupId
  <2>3. NextGroupId(OFMsgGroupIdGen) \in 0..(IdSpace - 1)
    BY BoundAssumption DEF NextGroupId, ProcessTyped, TypeOK
  <2>4. PICK n \in 0..(IdSpace - 1) :
          thread' = [thread EXCEPT ![t].pc = "store", ![t].id = n]
    BY <1>1, <2>3 DEF LoadGroupId
  <2> DEFINE s == [thread[t] EXCEPT !.pc = "store", !.id = n]
  <2>5. /\ s \in ThreadState
        /\ s.pc = "store" /\ s.job = thread[t].job
    BY <1>0, <2>4 DEF ThreadState, WorkerSteps
  <2>6. thread' = [thread EXCEPT ![t] = s]
    BY <2>4
  <2>7. thread[t].pc = "load"
    BY <1>1 DEF LoadGroupId, At
  <2> HIDE DEF s
  <2>8. ThreadsTyped'
    <3>1. CASE t \in Conns
      <4>1. s.job # NULL => s.job \in Packet
        BY <2>5, <3>1 DEF ProcessTyped, ThreadsTyped
      <4>2. s.job \in Packet
        BY <2>5, <2>7, <3>1 DEF ProcessTyped, ThreadsTyped
      <4> QED
        BY <2>5, <2>6, <3>1, <4>1, <4>2, WorkerSetTyped DEF WorkerSteps, ProcessTyped
    <3>2. CASE t = Client
      <4>1. s.job \in Record
        BY <2>5, <2>7, <3>2 DEF ProcessTyped, ThreadsTyped
      <4> QED
        BY <2>5, <2>6, <3>2, <4>1, ClientSetTyped DEF ClientSteps, ProcessTyped
    <3> QED
      BY <3>1, <3>2
  <2> QED
    BY <2>1, <2>2, <2>8 DEF ProcessTyped, StreamTyped
<1>2. CASE StoreGroupId(t)
  <2>1. TypeOK'
    <3>1. OFMsgGroupIdGen' \in 0..(IdSpace - 1)
      BY <1>0, <1>2 DEF StoreGroupId, ThreadState
    <3> QED
      BY <1>2, <3>1, QuietType DEF ProcessTyped, TypeOK, StoreGroupId
  <2>2. UNCHANGED <<early, iterator, store, dpid, bound, network, packets>>
    BY <1>2 DEF StoreGroupId
  <2>3. ThreadsTyped'
    <3>1. Goto(t, "find") /\ thread[t].pc = "store"
      BY <1>2 DEF StoreGroupId, At
    <3> QED
      BY <3>1, GotoTyped, ThreadNames DEF ProcessTyped, WorkerSteps, ClientSteps
  <2> QED
    BY <2>1, <2>2, <2>3 DEF ProcessTyped, StreamTyped
<1> QED
  BY <1>1, <1>2

\* Taking a packet, looking its session up and serving it keep the types.
LEMMA PacketTypes ==
  ASSUME ProcessTyped, KeysTyped, NEW c \in Conns,
         \/ \E p \in packets : PacketIn(c, p)
         \/ FindSession(c) \/ ReadKey(c) \/ JoinOrLeave(c)
  PROVE  ProcessTyped'
<1> USE DEF sessions, state, network, binding
<1>1. ASSUME NEW p \in packets, PacketIn(c, p)
      PROVE  ProcessTyped'
  <2>0. p \in Packet
    BY DEF ProcessTyped, StreamTyped
  <2>1. TypeOK'
    <3>1. crashed' \in BOOLEAN
      BY <1>1 DEF PacketIn, ProcessTyped, TypeOK
    <3> QED
      BY <1>1, <3>1, QuietType DEF ProcessTyped, TypeOK, PacketIn
  <2>2. /\ UNCHANGED <<iterator, store, dpid, bound, early, network>>
        /\ packets' \subseteq Packet
    BY <1>1 DEF PacketIn, ProcessTyped, StreamTyped
  <2> DEFINE q == Punted(c, p)
             s == [Idle EXCEPT !.pc = "load", !.job = q]
  <2>3. q \in Packet
    BY <2>0, PuntedType
  <2>4. thread' = thread \/ thread' = [thread EXCEPT ![c] = s]
    BY <1>1 DEF PacketIn
  <2> HIDE DEF q
  <2>5. s \in ThreadState /\ s.pc = "load" /\ s.job = q
    BY <2>3, IdleType DEF ThreadState, WorkerSteps
  <2> HIDE DEF s
  <2>6. ThreadsTyped'
    <3>1. CASE thread' = thread
      BY <3>1 DEF ProcessTyped, ThreadsTyped
    <3>2. CASE thread' = [thread EXCEPT ![c] = s]
      BY <2>3, <2>5, <3>2, WorkerSetTyped DEF WorkerSteps, ProcessTyped
    <3> QED
      BY <2>4, <3>1, <3>2
  <2> QED
    BY <2>1, <2>2, <2>6 DEF ProcessTyped, StreamTyped
<1>2. CASE FindSession(c)
  <2>1. TypeOK'
    <3>1. crashed' \in BOOLEAN
      BY <1>2, RacingType DEF FindSession
    <3> QED
      BY <1>2, <3>1, QuietType DEF ProcessTyped, TypeOK, FindSession
  <2>2. UNCHANGED <<store, dpid, bound, early, network, packets>>
    BY <1>2 DEF FindSession
  <2>3. Goto(c, "key") /\ thread[c].pc = "find"
    BY <1>2 DEF FindSession, At
  <2>4. ThreadsTyped'
    BY <2>3, GotoTyped, ThreadNames DEF ProcessTyped, WorkerSteps
  <2>5. thread[c].job.ip \in GroupIPs
    BY <2>3, PacketFields DEF ProcessTyped, ThreadsTyped
  <2>6. iterator' # NULL => iterator' \in GroupIPs /\ store'[iterator'] # NULL
    BY <1>2, <2>2, <2>5 DEF FindSession
  <2> QED
    BY <2>1, <2>2, <2>4, <2>6 DEF ProcessTyped, StreamTyped
<1>3. CASE ReadKey(c)
  <2>1. TypeOK'
    BY <1>3, QuietType DEF ProcessTyped, TypeOK, ReadKey
  <2>2. UNCHANGED <<iterator, store, dpid, bound, early, network, packets>>
    BY <1>3 DEF ReadKey
  <2> DEFINE s == [thread[c] EXCEPT !.pc = "act", !.key = iterator]
  <2>3. \/ thread' = [thread EXCEPT ![c] = Idle]
        \/ Asked(thread[c].job) # 0 /\ thread' = [thread EXCEPT ![c] = s]
    BY <1>3 DEF ReadKey
  <2>4. thread[c] \in ThreadState /\ thread[c].job \in Packet
    BY <1>3, ThreadNames DEF ReadKey, At, ProcessTyped, ThreadsTyped
  <2>5. iterator \in GroupIPs \cup {NULL}
    BY DEF ProcessTyped
  <2>6. s \in ThreadState /\ s.pc = "act" /\ s.job = thread[c].job
    BY <2>4, <2>5 DEF ThreadState, WorkerSteps
  <2> HIDE DEF s
  <2>7. ThreadsTyped'
    <3>1. CASE thread' = [thread EXCEPT ![c] = Idle]
      BY <3>1, IdleType, WorkerSetTyped DEF WorkerSteps, ProcessTyped
    <3>2. CASE thread' = [thread EXCEPT ![c] = s]
      BY <2>4, <2>6, <3>2, WorkerSetTyped DEF WorkerSteps, ProcessTyped
    <3> QED
      BY <2>3, <3>1, <3>2
  <2> QED
    BY <2>1, <2>2, <2>7 DEF ProcessTyped, StreamTyped
<1>4. CASE JoinOrLeave(c)
  <2>0. /\ thread[c].job \in Packet /\ thread[c].job.protocol = "UDP"
        /\ thread[c].key \in GroupIPs /\ store[thread[c].key] # NULL
    BY <1>4 DEF JoinOrLeave, At, ProcessTyped, ThreadsTyped, KeysTyped
  <2>1. PICK p \in Packet : p = thread[c].job
    BY <2>0
  <2>2. PICK g \in GroupIPs : g = thread[c].key
    BY <2>0
  <2>3. /\ \/ Join(g, p.intf, p.host)
           \/ Leave(g, p.intf)
           \/ Silent /\ UNCHANGED state /\ crashed' \in BOOLEAN
        /\ UNCHANGED <<conn, ofconn, dpid, bound, OFMsgGroupIdGen, iterator,
                       network, packets>>
        /\ thread' = [thread EXCEPT ![c] = Idle]
        /\ early' = early \/ early' = (early \/ Pending(g))
    BY <1>4, <2>1, <2>2 DEF JoinOrLeave
  <2>4. store[g] # NULL
    BY <2>0, <2>2
  <2>5. p.intf \in Intfs /\ p.host \in Hosts
    BY <2>0, <2>1, PacketFields
  <2>6. store' = store
    BY <2>3 DEF Join, Leave
  <2>7. TypeOK'
    <3>1. OFMsgGroupIdGen' \in 0..(IdSpace - 1) /\ TypeOK
      BY <2>3 DEF ProcessTyped, TypeOK
    <3>2. CASE Join(g, p.intf, p.host)
      BY <2>3, <2>4, <2>5, <3>1, <3>2, JoinType
    <3>3. CASE Leave(g, p.intf)
      BY <2>3, <2>4, <2>5, <3>1, <3>3, LeaveType
    <3>4. CASE Silent /\ UNCHANGED state /\ crashed' \in BOOLEAN
      BY <2>3, <3>1, <3>4, QuietType DEF TypeOK
    <3> QED
      BY <2>3, <3>2, <3>3, <3>4
  <2>8. ThreadsTyped'
    BY <2>3, IdleType, WorkerSetTyped DEF WorkerSteps, ProcessTyped
  <2>9. early' \in BOOLEAN
    <3>1. early \in BOOLEAN
      BY DEF ProcessTyped
    <3>2. (early \/ Pending(g)) \in BOOLEAN
      OBVIOUS
    <3> QED
      BY <2>3, <3>1, <3>2, Zenon
  <2> QED
    BY <2>3, <2>6, <2>7, <2>8, <2>9 DEF ProcessTyped, StreamTyped
<1> QED
  BY <1>1, <1>2, <1>3, <1>4

-----------------------------------------------------------------------------
(* The actions of the client and of main *)

\* The record that read_cb hands on is one.
LEMMA RecordType ==
  ASSUME StreamTyped, arrived - taken >= 2
  PROVE  RecordAt(taken) \in Record
<1>1. CASE taken % 2 = 0
  <2>1. taken \div 2 + 1 \in 1..Len(stream)
    BY <1>1 DEF StreamTyped
  <2>2. stream[taken \div 2 + 1] \in Record
    BY <2>1 DEF StreamTyped
  <2> QED
    BY <1>1, <2>2 DEF RecordAt
<1>2. CASE taken % 2 # 0
  BY <1>2, ThreadsAssumption DEF RecordAt
<1> QED
  BY <1>1, <1>2

\* Connecting, losing the connection and the arrival of records keep the types.
LEMMA StreamTypes ==
  ASSUME ProcessTyped,
         \/ ClientConnects \/ ClientDisconnected
         \/ \E n \in Arrivals : Arrive(n)
         \/ Read
  PROVE  ProcessTyped'
<1> USE DEF sessions, state, network, binding
<1>1. CASE ClientConnects \/ ClientDisconnected
  <2>1. TypeOK'
    BY <1>1, QuietType DEF ProcessTyped, TypeOK, ClientConnects, ClientDisconnected
  <2>2. UNCHANGED <<early, iterator, store, dpid, bound, network, packets>>
    BY <1>1 DEF ClientConnects, ClientDisconnected
  <2>3. PICK step \in {"loop", "lost"} : Goto(Client, step)
    BY <1>1 DEF ClientConnects, ClientDisconnected
  <2>4. ThreadsTyped'
    BY <2>3, GotoTyped, ThreadNames DEF ProcessTyped, ClientSteps
  <2> QED
    BY <2>1, <2>2, <2>4 DEF ProcessTyped, StreamTyped
<1>2. ASSUME NEW n \in Arrivals, Arrive(n)
      PROVE  ProcessTyped'
  <2>1. TypeOK'
    BY <1>2, QuietType DEF ProcessTyped, TypeOK, Arrive
  <2>2. UNCHANGED <<early, iterator, store, dpid, bound, switches, stream, taken, packets>>
    BY <1>2 DEF Arrive
  <2>3. ThreadsTyped'
    <3>1. Goto(Client, "read")
      BY <1>2 DEF Arrive
    <3> QED
      BY <3>1, GotoTyped, ThreadNames DEF ProcessTyped, ClientSteps
  <2>4. StreamTyped'
    <3>1. n \in Nat
      BY ThreadsAssumption
    <3>2. /\ arrived' = arrived + n /\ arrived + n <= 2 * Len(stream)
          /\ merged' \in BOOLEAN
      BY <1>2 DEF Arrive, ProcessTyped, StreamTyped
    <3> QED
      BY <2>2, <3>1, <3>2 DEF ProcessTyped, StreamTyped
  <2> QED
    BY <2>1, <2>2, <2>3, <2>4 DEF ProcessTyped
<1>3. CASE Read
  <2>1. TypeOK'
    BY <1>3, QuietType DEF ProcessTyped, TypeOK, Read
  <2>2. UNCHANGED <<early, iterator, store, dpid, bound, switches, stream, arrived,
                    merged, packets>>
    BY <1>3 DEF Read
  <2>3. StreamTyped'
    BY <1>3, <2>2 DEF Read, ProcessTyped, StreamTyped
  <2>4. ThreadsTyped'
    <3>1. CASE arrived - taken >= 2
               /\ thread' = [thread EXCEPT ![Client] = Begin(RecordAt(taken))]
      <4>1. PICK r \in Record : r = RecordAt(taken)
        BY <3>1, RecordType DEF ProcessTyped
      <4> DEFINE s == Begin(r)
      <4>2. s \in ThreadState /\ s.pc \in {"loop", "load"} /\ s.job = r
        BY IdleType DEF Begin, ThreadState, ClientSteps
      <4>3. thread' = [thread EXCEPT ![Client] = s]
        BY <3>1, <4>1
      <4> HIDE DEF s
      <4> QED
        BY <4>2, <4>3, ClientSetTyped DEF ClientSteps, ProcessTyped
    <3>2. CASE Goto(Client, "loop")
      BY <3>2, GotoTyped, ThreadNames DEF ProcessTyped, ClientSteps
    <3> QED
      BY <1>3, <3>1, <3>2 DEF Read
  <2> QED
    BY <2>1, <2>2, <2>3, <2>4 DEF ProcessTyped
<1> QED
  BY <1>1, <1>2, <1>3

\* What create_group is about to send are messages, the hook behind the others
\* and for the group's own address.
LEMMA CreationProperties ==
  ASSUME TypeOK, NEW sip \in GroupIPs, NEW s \in Session
  PROVE  LET todo == Creation(sip, s)
         IN  /\ todo \in Seq(Messages) /\ todo # <<>>
             /\ \A k \in 1..Len(todo) :
                  IsHook(todo[k]) => k = Len(todo) /\ todo[k].ip = sip
<1> DEFINE gm == GroupMod("ADD", s.groupid, buckets[sip])
           fm == FlowMod("ADD", DownstreamFlow(sip, s))
           hook == HookFlowMod(sip)
<1>1. gm \in Messages /\ fm \in Messages /\ hook \in Messages
  BY MessageTypes DEF TypeOK, Session
<1>2. ~IsHook(gm) /\ ~IsHook(fm) /\ hook.ip = sip
  BY DEF IsHook, GroupMod, FlowMod, HookFlowMod
<1>3. Creation(sip, s) = (IF s.is_root THEN <<gm, fm>> ELSE <<>>) \o <<hook>>
  BY DEF Creation
<1> HIDE DEF gm, fm, hook
<1>4. CASE s.is_root
  <2>1. <<gm, fm>> \in Seq(Messages) /\ <<hook>> \in Seq(Messages)
    BY <1>1
  <2> DEFINE c == <<gm, fm>> \o <<hook>>
  <2>2. /\ c \in Seq(Messages) /\ Len(c) = 3
        /\ c[1] = gm /\ c[2] = fm /\ c[3] = hook
    BY <2>1, ConcatProperties
  <2>3. Creation(sip, s) = c
    BY <1>3, <1>4
  <2> HIDE DEF c
  <2>4. c # <<>>
    BY <2>2
  <2>5. \A k \in 1..Len(c) : IsHook(c[k]) => k = Len(c) /\ c[k].ip = sip
    BY <1>2, <2>2
  <2> QED
    BY <2>2, <2>3, <2>4, <2>5
<1>5. CASE ~s.is_root
  <2>1. Creation(sip, s) = <<hook>>
    BY <1>1, <1>3, <1>5
  <2> QED
    BY <1>1, <1>2, <2>1
<1> QED
  BY <1>4, <1>5

\* the session that create_group stores for record r
Stored(r) ==
  [sport |-> r.sport, dport |-> r.dport, is_root |-> r.is_root,
   groupid |-> thread[Client].id]

\* The session is one.
LEMMA StoredType ==
  ASSUME ThreadsTyped, NEW r \in Record
  PROVE  Stored(r) \in Session
<1>1. thread[Client].id \in Nat
  BY ThreadNames, BoundAssumption DEF ThreadsTyped, ThreadState
<1> QED
  BY <1>1 DEF Stored, Session, Record

\* A message as it is packed differs in its buckets only.
LEMMA PackedType ==
  ASSUME TypeOK, NEW m \in Messages, NEW g \in GroupIPs
  PROVE  /\ Packed(m, g) \in Messages /\ Packed(m, g).type = m.type
         /\ m.type # "group" => Packed(m, g) = m
         /\ m.type = "group" => /\ Packed(m, g).command = m.command
                               /\ Packed(m, g).group = m.group
                               /\ Packed(m, g).buckets = buckets[g]
<1>1. CASE m \in GroupMods
  BY <1>1 DEF GroupMods, Messages, Packed, TypeOK
<1>2. CASE m \notin GroupMods
  <2>1. m.type # "group"
    BY <1>2 DEF Messages, RoleRequest, FlowMods, Hooks, PacketOuts
  <2> QED
    BY <2>1 DEF Packed
<1> QED
  BY <1>1, <1>2

\* The steps of create_group keep the types.
LEMMA CreationTypes ==
  ASSUME ProcessTyped, HookInv, FindGroup \/ InsertGroup \/ SendNext
  PROVE  ProcessTyped'
<1> USE DEF sessions, state, network, binding
<1>0. Client \in Threads /\ thread[Client] \in ThreadState
  BY ThreadNames DEF ProcessTyped, ThreadsTyped
<1>1. CASE FindGroup
  <2>1. TypeOK'
    BY <1>1, QuietType DEF ProcessTyped, TypeOK, FindGroup
  <2>2. UNCHANGED <<early, iterator, store, dpid, bound, network, packets>>
    BY <1>1 DEF FindGroup
  <2>3. PICK step \in {"insert", "loop"} :
          Goto(Client, step) /\ thread[Client].pc = "find"
    BY <1>1 DEF FindGroup, At
  <2>4. ThreadsTyped'
    BY <2>3, GotoTyped, ThreadNames DEF ProcessTyped, ClientSteps
  <2> QED
    BY <2>1, <2>2, <2>4 DEF ProcessTyped, StreamTyped
<1>2. CASE InsertGroup
  <2>1. thread[Client].pc = "insert"
    BY <1>2 DEF InsertGroup, At
  <2>2. PICK r \in Record : r = thread[Client].job
    BY <2>1 DEF ProcessTyped, ThreadsTyped
  <2>3. PICK s \in Session : s = Stored(r)
    BY StoredType DEF ProcessTyped
  <2>4. /\ store' = [store EXCEPT ![r.sip] = s]
        /\ groupmod' = IF r.is_root
                       THEN [groupmod EXCEPT ![r.sip].group_id = s.groupid]
                       ELSE groupmod
        /\ thread' = [thread EXCEPT ![Client].pc = "send",
                                    ![Client].todo = Creation(r.sip, s)]
        /\ crashed' \in Racing(Client, "find")
        /\ out' = <<>>
        /\ UNCHANGED <<early, conn, ofconn, dpid, bound, members, buckets,
                       OFMsgGroupIdGen, iterator, network, packets>>
    BY <1>2, <2>2, <2>3 DEF InsertGroup, Stored, Silent
  <2>5. r.sip \in GroupIPs /\ s.groupid \in Nat
    BY DEF Record, Session
  <2>6. TypeOK'
    <3>1. store' \in [GroupIPs -> Session \cup {NULL}]
      BY <2>4, <2>5 DEF ProcessTyped, TypeOK
    <3>2. groupmod' \in [GroupIPs -> [group_id : Nat, buckets : Seq(Bucket)]]
      BY <2>4, <2>5 DEF ProcessTyped, TypeOK
    <3>3. crashed' \in BOOLEAN
      BY <2>4, RacingType
    <3> QED
      BY <2>4, <3>1, <3>2, <3>3 DEF ProcessTyped, TypeOK
  <2>7. ThreadsTyped'
    <3>1. PICK todo \in Seq(Messages) : todo = Creation(r.sip, s)
      BY <2>5, CreationProperties DEF ProcessTyped
    <3> DEFINE n == [thread[Client] EXCEPT !.pc = "send", !.todo = todo]
    <3>2. n \in ThreadState /\ n.pc = "send" /\ n.job = r
      BY <1>0, <2>2 DEF ThreadState, ClientSteps
    <3>3. thread' = [thread EXCEPT ![Client] = n]
      BY <2>4, <3>1
    <3> HIDE DEF n
    <3> QED
      BY <3>2, <3>3, ClientSetTyped DEF ClientSteps, ProcessTyped
  <2>8. iterator # NULL => store'[iterator] # NULL
    BY <2>4, <2>5, NullAssumption DEF ProcessTyped, TypeOK
  <2> QED
    BY <2>4, <2>6, <2>7, <2>8 DEF ProcessTyped, StreamTyped
<1>3. CASE SendNext
  <2> DEFINE todo == thread[Client].todo
  <2>1. thread[Client].pc = "send" /\ todo # <<>>
    BY <1>3 DEF SendNext, At, HookInv, CreationInv
  <2>2. todo \in Seq(Messages)
    BY <1>0 DEF ThreadState
  <2>3. Head(todo) \in Messages /\ Tail(todo) \in Seq(Messages)
    BY <2>1, <2>2
  <2>4. TypeOK'
    <3>0. thread[Client].job.sip \in GroupIPs
      BY <2>1 DEF ProcessTyped, ThreadsTyped, Record
    <3>m. PICK m : m = Packed(Head(todo), thread[Client].job.sip)
      OBVIOUS
    <3>n. m \in Messages
      BY <2>3, <3>0, <3>m, PackedType DEF ProcessTyped
    <3>1. out' \in Seq(Messages)
      BY <1>3, <3>m, <3>n, SendType DEF SendNext
    <3>2. crashed' \in BOOLEAN
      BY <1>3 DEF SendNext
    <3> QED
      BY <1>3, <3>1, <3>2 DEF SendNext, ProcessTyped, TypeOK
  <2>5. ThreadsTyped'
    <3>1. PICK step \in {"loop", "send"} :
            thread' = [thread EXCEPT ![Client].todo = Tail(todo),
                                     ![Client].pc = step]
      BY <1>3 DEF SendNext
    <3> DEFINE n == [thread[Client] EXCEPT !.todo = Tail(todo), !.pc = step]
    <3>2. n \in ThreadState /\ n.pc = step /\ n.job = thread[Client].job
      BY <1>0, <2>3 DEF ThreadState, ClientSteps
    <3>3. thread' = [thread EXCEPT ![Client] = n]
      BY <3>1
    <3>4. thread[Client].job \in Record
      BY <2>1 DEF ProcessTyped, ThreadsTyped
    <3> HIDE DEF n
    <3> QED
      BY <3>2, <3>3, <3>4, ClientSetTyped DEF ClientSteps, ProcessTyped
  <2>6. UNCHANGED <<early, iterator, store, dpid, bound, network, packets>>
    BY <1>3 DEF SendNext
  <2> QED
    BY <2>4, <2>5, <2>6 DEF ProcessTyped, StreamTyped
<1> QED
  BY <1>1, <1>2, <1>3

\* The steps of main keep the types.
LEMMA MainTypes ==
  ASSUME ProcessTyped, DatapathKnown \/ StopServer \/ StopClient
  PROVE  ProcessTyped'
<1> USE DEF sessions, state, network, binding
<1>1. CASE DatapathKnown
  <2>1. TypeOK'
    BY <1>1, QuietType DEF ProcessTyped, TypeOK, DatapathKnown
  <2>2. UNCHANGED <<early, iterator, store, dpid, bound, network, packets>>
    BY <1>1 DEF DatapathKnown
  <2>3. ThreadsTyped'
    <3>1. /\ thread[Main] \in ThreadState /\ thread[Client] \in ThreadState
          /\ thread' = [thread EXCEPT ![Main].pc = "wait", ![Client].pc = "connect"]
      BY <1>1, ThreadNames DEF DatapathKnown, ProcessTyped, ThreadsTyped
    <3>2. /\ [thread[Main] EXCEPT !.pc = "wait"] \in ThreadState
          /\ [thread[Client] EXCEPT !.pc = "connect"] \in ThreadState
      BY <3>1 DEF ThreadState, MainSteps, ClientSteps
    <3>3. /\ thread'[Main] = [thread[Main] EXCEPT !.pc = "wait"]
          /\ thread'[Client] = [thread[Client] EXCEPT !.pc = "connect"]
          /\ \A u \in Threads \ {Main, Client} : thread'[u] = thread[u]
          /\ thread' \in [Threads -> ThreadState]
      BY <3>1, <3>2, ThreadNames DEF ProcessTyped, ThreadsTyped
    <3>4. thread'[Main].pc = "wait" /\ thread'[Client].pc = "connect"
      BY <3>1, <3>3 DEF ThreadState
    <3> QED
      BY <3>3, <3>4, ThreadNames
      DEF ProcessTyped, ThreadsTyped, MainSteps, ClientSteps
  <2> QED
    BY <2>1, <2>2, <2>3 DEF ProcessTyped, StreamTyped
<1>2. CASE StopServer
  <2>1. TypeOK'
    <3>1. conn' \in [Conns -> {"none", "started", "up", "down"}]
      BY <1>2 DEF StopServer
    <3> QED
      BY <1>2, <3>1, QuietType DEF ProcessTyped, TypeOK, StopServer
  <2>2. UNCHANGED <<early, iterator, store, dpid, bound, network, packets>>
    BY <1>2 DEF StopServer
  <2>3. Goto(Main, "stop_client")
    BY <1>2 DEF StopServer
  <2>4. ThreadsTyped'
    BY <2>3, GotoTyped, ThreadNames DEF ProcessTyped, MainSteps
  <2> QED
    BY <2>1, <2>2, <2>4 DEF ProcessTyped, StreamTyped
<1>3. CASE StopClient
  <2>1. TypeOK'
    BY <1>3, QuietType, RacingType DEF ProcessTyped, TypeOK, StopClient
  <2>2. UNCHANGED <<early, iterator, store, dpid, bound, network, packets>>
    BY <1>3 DEF StopClient
  <2>3. Goto(Main, "done")
    BY <1>3 DEF StopClient
  <2>4. ThreadsTyped'
    BY <2>3, GotoTyped, ThreadNames DEF ProcessTyped, MainSteps
  <2> QED
    BY <2>1, <2>2, <2>4 DEF ProcessTyped, StreamTyped
<1> QED
  BY <1>1, <1>2, <1>3

\* Every step of a thread keeps the types.
LEMMA ProcessTypes ==
  ASSUME ProcessTyped, KeysTyped, HookInv, ProcessStep
  PROVE  ProcessTyped'
  BY ConnectionTypes, GroupIdTypes, PacketTypes, StreamTypes, CreationTypes, MainTypes
  DEF ProcessStep, WorkerStep, ClientStep

-----------------------------------------------------------------------------
(* The connection and the switch *)

\* A message leaves a datapath one, and only a hook adds a hook to it.
LEMMA ApplyHooks ==
  ASSUME NEW d \in DatapathType, NEW m \in Messages
  PROVE  /\ Switch!Apply(d, m) \in DatapathType
         /\ \A ip \in Switch!Apply(d, m).hooks :
              ip \in d.hooks \/ (IsHook(m) /\ ip = m.ip)
<1>1. Switch!Refuse(d) \in DatapathType /\ Switch!Refuse(d).hooks = d.hooks
  BY DEF Switch!Refuse, DatapathType
<1>2. ASSUME NEW id, NEW b \in Seq(Bucket) \cup {NULL}
      PROVE  /\ [d EXCEPT !.groups[id] = b] \in DatapathType
             /\ [d EXCEPT !.groups[id] = b].hooks = d.hooks
  <2> DEFINE gs == [d.groups EXCEPT ![id] = b]
  <2>1. gs \in [0..MaxGroupId -> Seq(Bucket) \cup {NULL}]
    BY DEF DatapathType
  <2> HIDE DEF gs
  <2>2. [d EXCEPT !.groups = gs] \in DatapathType
        /\ [d EXCEPT !.groups = gs].hooks = d.hooks
    BY <2>1 DEF DatapathType
  <2> QED
    BY <2>2 DEF gs
<1>3. ASSUME NEW fs \in SUBSET Flow
      PROVE  /\ [d EXCEPT !.flows = fs] \in DatapathType
             /\ [d EXCEPT !.flows = fs].hooks = d.hooks
  BY DEF DatapathType
<1>4. CASE m = RoleRequest
  BY <1>4 DEF Switch!Apply, RoleRequest
<1>5. CASE m \in GroupMods
  <2>1. /\ m.type = "group" /\ m.command \in {"ADD", "MODIFY", "DELETE"}
        /\ m.buckets \in Seq(Bucket) \cup {NULL}
    BY <1>5 DEF GroupMods
  <2>2. CASE m.command = "ADD"
    <3>1. Switch!Apply(d, m) = Switch!AddGroup(d, m.group, m.buckets)
      BY <2>1, <2>2 DEF Switch!Apply
    <3>2. Switch!AddGroup(d, m.group, m.buckets)
            \in {Switch!Refuse(d), [d EXCEPT !.groups[m.group] = m.buckets]}
      BY DEF Switch!AddGroup
    <3>3. /\ [d EXCEPT !.groups[m.group] = m.buckets] \in DatapathType
          /\ [d EXCEPT !.groups[m.group] = m.buckets].hooks = d.hooks
      BY <1>2, <2>1
    <3>4. PICK e : e = Switch!AddGroup(d, m.group, m.buckets)
      OBVIOUS
    <3>5. e \in DatapathType /\ e.hooks = d.hooks
      BY <1>1, <3>2, <3>3, <3>4
    <3> QED
      BY <3>1, <3>4, <3>5
  <2>3. CASE m.command = "MODIFY"
    <3>1. Switch!Apply(d, m) = Switch!ModifyGroup(d, m.group, m.buckets)
      BY <2>1, <2>3 DEF Switch!Apply
    <3>2. Switch!ModifyGroup(d, m.group, m.buckets)
            \in {Switch!Refuse(d), [d EXCEPT !.groups[m.group] = m.buckets]}
      BY DEF Switch!ModifyGroup
    <3>3. /\ [d EXCEPT !.groups[m.group] = m.buckets] \in DatapathType
          /\ [d EXCEPT !.groups[m.group] = m.buckets].hooks = d.hooks
      BY <1>2, <2>1
    <3>4. PICK e : e = Switch!ModifyGroup(d, m.group, m.buckets)
      OBVIOUS
    <3>5. e \in DatapathType /\ e.hooks = d.hooks
      BY <1>1, <3>2, <3>3, <3>4
    <3> QED
      BY <3>1, <3>4, <3>5
  <2>4. CASE m.command = "DELETE"
    <3>1. Switch!Apply(d, m) = Switch!DeleteGroup(d, m.group)
      BY <2>1, <2>4 DEF Switch!Apply
    <3> DEFINE gs == [d.groups EXCEPT ![m.group] = NULL]
               fs == { f \in d.flows : f.group # m.group }
    <3>2. Switch!DeleteGroup(d, m.group) = [d EXCEPT !.groups = gs, !.flows = fs]
      BY DEF Switch!DeleteGroup, DatapathType
    <3>3. gs \in [0..MaxGroupId -> Seq(Bucket) \cup {NULL}] /\ fs \in SUBSET Flow
      BY DEF DatapathType
    <3> HIDE DEF gs, fs
    <3>4. /\ [d EXCEPT !.groups = gs, !.flows = fs] \in DatapathType
          /\ [d EXCEPT !.groups = gs, !.flows = fs].hooks = d.hooks
      BY <3>3 DEF DatapathType
    <3> QED
      BY <3>1, <3>2, <3>4
  <2> QED
    BY <2>1, <2>2, <2>3, <2>4
<1>6. CASE m \in FlowMods
  <2>1. m.type = "flow" /\ m.command \in {"ADD", "DELETE"} /\ m.flow \in Flow
    BY <1>6 DEF FlowMods
  <2>2. CASE m.command = "ADD"
    <3>1. Switch!Apply(d, m) = Switch!AddFlow(d, m.flow)
      BY <2>1, <2>2 DEF Switch!Apply
    <3> DEFINE fs == { f \in d.flows : ~Switch!SameMatch(f, m.flow) } \cup {m.flow}
    <3>2. fs \in SUBSET Flow
      BY <2>1 DEF DatapathType
    <3>3. Switch!AddFlow(d, m.flow) \in {Switch!Refuse(d), [d EXCEPT !.flows = fs]}
      BY DEF Switch!AddFlow, DatapathType
    <3> HIDE DEF fs
    <3> QED
      BY <1>1, <1>3, <3>1, <3>2, <3>3
  <2>3. CASE m.command = "DELETE"
    <3>1. Switch!Apply(d, m) = Switch!DeleteFlow(d, m.flow)
      BY <2>1, <2>3 DEF Switch!Apply
    <3> DEFINE fs == { f \in d.flows : ~(Switch!SameMatch(f, m.flow)
                                         /\ f.group = m.flow.group) }
    <3>2. fs \in SUBSET Flow
      BY DEF DatapathType
    <3>3. Switch!DeleteFlow(d, m.flow) \in {d, [d EXCEPT !.flows = fs]}
      BY DEF Switch!DeleteFlow, DatapathType
    <3> HIDE DEF fs
    <3> QED
      BY <1>3, <3>1, <3>2, <3>3
  <2> QED
    BY <2>1, <2>2, <2>3
<1>7. CASE m \in Hooks
  <2>1. m.type = "hook" /\ m.ip \in GroupIPs
    BY <1>7 DEF Hooks
  <2>2. Switch!Apply(d, m) = [d EXCEPT !.hooks = d.hooks \cup {m.ip}]
    BY <2>1 DEF Switch!Apply, DatapathType
  <2>3. /\ [d EXCEPT !.hooks = d.hooks \cup {m.ip}] \in DatapathType
        /\ [d EXCEPT !.hooks = d.hooks \cup {m.ip}].hooks = d.hooks \cup {m.ip}
    BY <2>1 DEF DatapathType
  <2> QED
    BY <2>1, <2>2, <2>3 DEF IsHook
<1>8. CASE m \in PacketOuts
  <2>1. /\ m.type = "packet_out" /\ m.ip \in GroupIPs
        /\ m.request \in {"join", "leave"}
    BY <1>8 DEF PacketOuts
  <2> DEFINE us == [d.upstream EXCEPT ![m.ip] = m.request]
  <2>2. us \in [GroupIPs -> {"none", "join", "leave"}]
    BY <2>1 DEF DatapathType
  <2>3. Switch!Apply(d, m) = [d EXCEPT !.upstream = us]
    BY <2>1 DEF Switch!Apply, DatapathType
  <2> HIDE DEF us
  <2>4. /\ [d EXCEPT !.upstream = us] \in DatapathType
        /\ [d EXCEPT !.upstream = us].hooks = d.hooks
    BY <2>2 DEF DatapathType
  <2> QED
    BY <2>3, <2>4
<1> QED
  BY <1>4, <1>5, <1>6, <1>7, <1>8 DEF Messages

\* A step of a thread keeps all types, what it queues included.
LEMMA ProcessATypes ==
  ASSUME ATypeOK, KeysTyped, HookInv, ProcessStep, Queue, dp' = dp
  PROVE  ATypeOK'
<1>1. ProcessTyped'
  BY ProcessTypes DEF ATypeOK
<1>2. out' \in Seq(Messages)
  BY <1>1 DEF ProcessTyped, TypeOK
<1>3. wire' \in [Conns -> Seq(Messages)]
  <2>1. \A c \in Conns : wire[c] \o out' \in Seq(Messages)
    BY <1>2 DEF ATypeOK
  <2> QED
    BY <2>1 DEF Queue, ATypeOK
<1> QED
  BY <1>1, <1>3 DEF ATypeOK

\* What a step of a switch changes and what it leaves alone.
LEMMA DeliverTypes ==
  ASSUME ATypeOK, NEW c \in Conns, Deliver(c)
  PROVE  /\ ATypeOK'
         /\ UNCHANGED <<conn, ofconn, dpid, bound, store, thread, out>>
<1>1. UNCHANGED <<binding, sessions, out, crashed, thread, network, packets>>
  BY DEF Deliver
<1>2. UNCHANGED <<conn, ofconn, dpid, bound, store, members, buckets, groupmod,
                  OFMsgGroupIdGen, iterator, early, out, crashed, thread, switches, stream,
                  arrived, taken, merged, packets>>
  BY <1>1 DEF binding, sessions, state, network
<1>3. ProcessTyped'
  BY <1>2 DEF ATypeOK, ProcessTyped, TypeOK, ThreadsTyped, StreamTyped
<1>4. Head(wire[c]) \in Messages /\ Tail(wire[c]) \in Seq(Messages)
  BY DEF Deliver, ATypeOK
<1>5. wire' \in [Conns -> Seq(Messages)]
  BY <1>4 DEF Deliver, ATypeOK
<1>6. Switch!Apply(dp[c], Head(wire[c])) \in DatapathType
  BY <1>4, ApplyHooks DEF ATypeOK
<1>7. dp' \in [Conns -> DatapathType]
  BY <1>6 DEF Deliver, ATypeOK
<1> QED
  BY <1>2, <1>3, <1>5, <1>7 DEF ATypeOK

(***************************************************************************)
(* The client's thread never runs before the agent is bound                *)
(***************************************************************************)

\* What a thread that moves on leaves alone.
LEMMA GotoEffect ==
  ASSUME ThreadsTyped, NEW t \in Threads, NEW step, Goto(t, step)
  PROVE  /\ thread'[t].pc = step
         /\ thread'[t].job = thread[t].job
         /\ thread'[t].todo = thread[t].todo
         /\ \A u \in Threads \ {t} : thread'[u] = thread[u]
<1>1. thread[t] \in ThreadState
  BY DEF ThreadsTyped
<1> QED
  BY <1>1 DEF ThreadsTyped, Goto, ThreadState

\* The invariant survives a step that neither binds nor is about to, that takes
\* no connection back to where it was not up, and that starts the client only
\* when dpid is set.
LEMMA BoundKept ==
  ASSUME BoundInv, UNCHANGED <<ofconn, dpid, bound>>,
         \A c \in Conns : conn[c] \in {"up", "down"} => conn'[c] \in {"up", "down"},
         \A c \in Conns : thread'[c].pc \in {"bind", "identify"} =>
                            thread'[c].pc = thread[c].pc,
         thread'[Client].pc # "none" => thread[Client].pc # "none" \/ dpid # NULL
  PROVE  BoundInv'
  BY DEF BoundInv

\* The steps of the connections keep it.
LEMMA ConnectionBound ==
  ASSUME ProcessTyped, BoundInv, NEW c \in Conns,
         \/ Connect(c)
         \/ \E ofversion \in {1, 4} : SwitchIsUp(c, ofversion)
         \/ Bind(c) \/ Identify(c) \/ Disconnect(c)
  PROVE  BoundInv'
<1>0. c \in Threads /\ c # Client /\ Client \in Threads /\ Conns \subseteq Threads
  BY ThreadNames
<1>t. ThreadsTyped
  BY DEF ProcessTyped
<1>1. CASE Connect(c) \/ Disconnect(c)
  <2>1. UNCHANGED <<ofconn, dpid, bound, thread>>
    BY <1>1 DEF Connect, Disconnect
  <2>2. \A b \in Conns : conn[b] \in {"up", "down"} => conn'[b] \in {"up", "down"}
    BY <1>1 DEF Connect, Disconnect, ProcessTyped, TypeOK
  <2> QED
    BY <2>1, <2>2, BoundKept
<1>2. ASSUME NEW v \in {1, 4}, SwitchIsUp(c, v)
      PROVE  BoundInv'
  <2>1. /\ UNCHANGED <<ofconn, dpid, bound>>
        /\ conn' = [conn EXCEPT ![c] = "up"]
    BY <1>2 DEF SwitchIsUp
  <2>2. PICK step \in {"bind", "idle"} : Goto(c, step)
    BY <1>2 DEF SwitchIsUp
  <2>3. /\ thread'[c].pc = step
        /\ \A u \in Threads \ {c} : thread'[u] = thread[u]
    BY <1>0, <1>t, <2>2, GotoEffect
  <2>4. /\ conn'[c] = "up"
        /\ \A b \in Conns \ {c} : conn'[b] = conn[b]
    BY <2>1 DEF ProcessTyped, TypeOK
  <2> QED
    BY <1>0, <2>1, <2>3, <2>4 DEF BoundInv
<1>3. CASE Bind(c)
  <2>1. /\ UNCHANGED <<conn, dpid>> /\ ofconn' = c /\ bound' = bound \cup {c}
        /\ Goto(c, "identify") /\ thread[c].pc = "bind"
    BY <1>3 DEF Bind, At
  <2>2. /\ thread'[c].pc = "identify"
        /\ \A u \in Threads \ {c} : thread'[u] = thread[u]
    BY <1>0, <1>t, <2>1, GotoEffect
  <2> QED
    BY <1>0, <2>1, <2>2 DEF BoundInv
<1>4. CASE Identify(c)
  <2>1. /\ UNCHANGED <<conn, ofconn, bound>> /\ dpid' = c
        /\ Goto(c, "idle") /\ thread[c].pc = "identify"
    BY <1>4 DEF Identify, At
  <2>2. /\ thread'[c].pc = "idle"
        /\ \A u \in Threads \ {c} : thread'[u] = thread[u]
    BY <1>0, <1>t, <2>1, GotoEffect
  <2>3. dpid' # NULL
    BY <2>1, ThreadNames
  <2> QED
    BY <1>0, <2>1, <2>2, <2>3 DEF BoundInv
<1> QED
  BY <1>1, <1>2, <1>3, <1>4

\* What a worker or the client does with its packet or record keeps it.
LEMMA JobBound ==
  ASSUME ProcessTyped, BoundInv, NEW t \in Conns \cup {Client},
         UNCHANGED <<conn, ofconn, dpid, bound>>,
         \A u \in Threads \ {t} : thread'[u] = thread[u],
         thread'[t].pc \notin {"bind", "identify"},
         t = Client => thread[t].pc # "none"
  PROVE  BoundInv'
<1>1. Client \in Threads /\ Conns \subseteq Threads
  BY ThreadNames
<1>2. \A c \in Conns : thread'[c].pc \in {"bind", "identify"} =>
                         thread'[c].pc = thread[c].pc
  BY <1>1
<1>3. thread'[Client].pc # "none" => thread[Client].pc # "none" \/ dpid # NULL
  BY <1>1
<1> QED
  BY <1>2, <1>3, BoundKept

\* Where the thread of a job's step stands before and after it.
LEMMA WorkerMoves ==
  ASSUME ProcessTyped, NEW c \in Conns,
         \/ LoadGroupId(c) \/ StoreGroupId(c)
         \/ FindSession(c) \/ ReadKey(c) \/ JoinOrLeave(c)
         \/ \E p \in packets : PacketIn(c, p)
  PROVE  /\ UNCHANGED <<conn, ofconn, dpid, bound, store>>
         /\ \A u \in Threads \ {c} : thread'[u] = thread[u]
         /\ thread'[c].pc \notin {"bind", "identify"}
         /\ thread'[c].pc = "act" =>
              /\ thread'[c].job.protocol = "UDP"
              /\ thread'[c].key \in GroupIPs /\ store[thread'[c].key] # NULL
         /\ IsHooked(thread'[c].job) =>
              \/ thread'[c].job = thread[c].job
              \/ thread'[c].job.ip \in dp[c].hooks
<1> USE DEF binding, sessions, state
<1>0. c \in Threads /\ thread[c] \in ThreadState /\ ThreadsTyped
  BY ThreadNames DEF ProcessTyped, ThreadsTyped
<1>i. ~IsHooked(Idle.job)
  BY IdleType DEF IsHooked
<1>1. CASE LoadGroupId(c)
  <2>1. /\ UNCHANGED <<conn, ofconn, dpid, bound, store>>
        /\ thread' = [thread EXCEPT ![c].pc = "store",
                                    ![c].id = NextGroupId(OFMsgGroupIdGen)]
    BY <1>1 DEF LoadGroupId
  <2>2. /\ thread'[c].pc = "store" /\ thread'[c].job = thread[c].job
        /\ \A u \in Threads \ {c} : thread'[u] = thread[u]
    BY <1>0, <2>1 DEF ThreadsTyped, ThreadState
  <2> QED
    BY <2>1, <2>2
<1>2. CASE StoreGroupId(c) \/ FindSession(c)
  <2>1. PICK step \in {"find", "key"} : Goto(c, step)
    BY <1>2 DEF StoreGroupId, FindSession
  <2>2. UNCHANGED <<conn, ofconn, dpid, bound, store>>
    BY <1>2 DEF StoreGroupId, FindSession
  <2> QED
    BY <1>0, <2>1, <2>2, GotoEffect
<1>3. CASE JoinOrLeave(c)
  <2>1. /\ UNCHANGED <<conn, ofconn, dpid, bound, store>>
        /\ thread' = [thread EXCEPT ![c] = Idle]
    BY <1>3 DEF JoinOrLeave, Join, Leave
  <2>2. /\ thread'[c] = Idle /\ \A u \in Threads \ {c} : thread'[u] = thread[u]
    BY <1>0, <2>1 DEF ThreadsTyped
  <2> QED
    BY <1>i, <2>1, <2>2, IdleType
<1>4. CASE ReadKey(c)
  <2> DEFINE s == [thread[c] EXCEPT !.pc = "act", !.key = iterator]
  <2>1. /\ UNCHANGED <<conn, ofconn, dpid, bound, store>>
        /\ \/ thread' = [thread EXCEPT ![c] = Idle]
           \/ Asked(thread[c].job) # 0 /\ thread' = [thread EXCEPT ![c] = s]
    BY <1>4 DEF ReadKey
  <2>2. thread[c].job \in Packet
    BY <1>0, <1>4 DEF ReadKey, At, ThreadsTyped
  <2>3. s.pc = "act" /\ s.job = thread[c].job /\ s.key = iterator
    BY <1>0 DEF ThreadState
  <2> HIDE DEF s
  <2>4. \A u \in Threads \ {c} : thread'[u] = thread[u]
    BY <1>0, <2>1 DEF ThreadsTyped
  <2>5. CASE thread' = [thread EXCEPT ![c] = Idle]
    <3>1. thread'[c] = Idle
      BY <1>0, <2>5 DEF ThreadsTyped
    <3> QED
      BY <1>i, <2>1, <2>4, <3>1, IdleType
  <2>6. CASE Asked(thread[c].job) # 0 /\ thread' = [thread EXCEPT ![c] = s]
    <3>1. thread'[c] = s
      BY <1>0, <2>6 DEF ThreadsTyped
    <3>2. iterator # NULL /\ thread[c].job.protocol # "IGMP"
      BY <2>6 DEF Asked
    <3>3. thread[c].job.protocol = "UDP"
      BY <2>2, <3>2, PacketFields
    <3> QED
      BY <2>1, <2>3, <2>4, <3>1, <3>2, <3>3 DEF ProcessTyped
  <2> QED
    BY <2>1, <2>5, <2>6
<1>5. ASSUME NEW p \in packets, PacketIn(c, p)
      PROVE  /\ UNCHANGED <<conn, ofconn, dpid, bound, store>>
             /\ \A u \in Threads \ {c} : thread'[u] = thread[u]
             /\ thread'[c].pc \notin {"bind", "identify", "act"}
             /\ IsHooked(thread'[c].job) =>
                  \/ thread'[c].job = thread[c].job
                  \/ thread'[c].job.ip \in dp[c].hooks
  <2> DEFINE q == Punted(c, p)
             s == [Idle EXCEPT !.pc = "load", !.job = q]
  <2>1. /\ UNCHANGED <<conn, ofconn, dpid, bound, store>>
        /\ thread[c].pc = "idle"
        /\ thread' = thread \/ thread' = [thread EXCEPT ![c] = s]
    BY <1>5 DEF PacketIn, At
  <2>2. IsHooked(q) => q.ip \in dp[c].hooks
    BY PuntedType DEF ProcessTyped, StreamTyped
  <2>3. s.pc = "load" /\ s.job = q
    BY DEF Idle
  <2> HIDE DEF q, s
  <2>4. CASE thread' = thread
    BY <2>1, <2>4
  <2>5. CASE thread' = [thread EXCEPT ![c] = s]
    <3>1. thread'[c] = s /\ \A u \in Threads \ {c} : thread'[u] = thread[u]
      BY <1>0, <2>5 DEF ThreadsTyped
    <3> QED
      BY <2>1, <2>2, <2>3, <3>1
  <2> QED
    BY <2>1, <2>4, <2>5
<1> QED
  BY <1>1, <1>2, <1>3, <1>4, <1>5

\* A step of the client: where it begins, and that the other threads stay.
LEMMA ClientMoves ==
  ASSUME ProcessTyped,
         \/ ClientConnects \/ ClientDisconnected
         \/ \E n \in Arrivals : Arrive(n)
         \/ LoadGroupId(Client) \/ StoreGroupId(Client)
         \/ Read \/ FindGroup \/ InsertGroup \/ SendNext
  PROVE  /\ UNCHANGED <<conn, ofconn, dpid, bound>>
         /\ \A u \in Threads \ {Client} : thread'[u] = thread[u]
         /\ thread[Client].pc # "none"
<1> USE DEF binding, At, Goto, ProcessTyped, ThreadsTyped
<1>1. CASE ClientConnects \/ ClientDisconnected
  BY <1>1 DEF ClientConnects, ClientDisconnected
<1>2. ASSUME NEW n \in Arrivals, Arrive(n)
      PROVE  /\ UNCHANGED <<conn, ofconn, dpid, bound>>
             /\ \A u \in Threads \ {Client} : thread'[u] = thread[u]
             /\ thread[Client].pc # "none"
  BY <1>2 DEF Arrive
<1>3. CASE LoadGroupId(Client) \/ StoreGroupId(Client)
  BY <1>3 DEF LoadGroupId, StoreGroupId
<1>4. CASE Read
  BY <1>4 DEF Read
<1>5. CASE FindGroup
  BY <1>5 DEF FindGroup
<1>6. CASE InsertGroup
  BY <1>6 DEF InsertGroup
<1>7. CASE SendNext
  BY <1>7 DEF SendNext
<1> QED
  BY <1>1, <1>2, <1>3, <1>4, <1>5, <1>6, <1>7

\* A step of main: the client's thread is started, or no thread but main moves.
LEMMA MainMoves ==
  ASSUME ProcessTyped, DatapathKnown \/ StopServer \/ StopClient
  PROVE  /\ UNCHANGED <<ofconn, dpid, bound, store>>
         /\ \A c \in Conns : thread'[c] = thread[c]
         /\ \A c \in Conns : conn'[c] = conn[c] \/ conn'[c] = "down"
         /\ \/ thread'[Client].pc = "connect" /\ dpid # NULL
            \/ thread'[Client] = thread[Client]
<1> USE DEF binding, sessions, state, At, Goto, ProcessTyped, ThreadsTyped
<1>1. CASE DatapathKnown
  <2>1. /\ UNCHANGED <<conn, ofconn, dpid, bound, store>> /\ dpid # NULL
        /\ thread' = [thread EXCEPT ![Main].pc = "wait", ![Client].pc = "connect"]
    BY <1>1 DEF DatapathKnown
  <2>2. thread[Client] \in ThreadState
    BY ThreadNames
  <2>3. thread'[Client].pc = "connect" /\ \A c \in Conns : thread'[c] = thread[c]
    BY <2>1, <2>2, ThreadNames DEF ThreadState
  <2> QED
    BY <2>1, <2>3
<1>2. CASE StopServer
  BY <1>2, ThreadNames DEF StopServer
<1>3. CASE StopClient
  BY <1>3, ThreadNames DEF StopClient
<1> QED
  BY <1>1, <1>2, <1>3

\* Every step of a thread keeps it.
LEMMA ProcessBound ==
  ASSUME ProcessTyped, BoundInv, ProcessStep, ProcessTyped'
  PROVE  BoundInv'
<1>1. ASSUME NEW c \in Conns,
             \/ Connect(c)
             \/ \E ofversion \in {1, 4} : SwitchIsUp(c, ofversion)
             \/ Bind(c) \/ Identify(c) \/ Disconnect(c)
      PROVE  BoundInv'
  BY <1>1, ConnectionBound
<1>2. ASSUME NEW c \in Conns,
             \/ LoadGroupId(c) \/ StoreGroupId(c)
             \/ FindSession(c) \/ ReadKey(c) \/ JoinOrLeave(c)
             \/ \E p \in packets : PacketIn(c, p)
      PROVE  BoundInv'
  <2>1. /\ UNCHANGED <<conn, ofconn, dpid, bound>>
        /\ \A u \in Threads \ {c} : thread'[u] = thread[u]
        /\ thread'[c].pc \notin {"bind", "identify"}
    BY <1>2, WorkerMoves
  <2> QED
    BY <2>1, JobBound, ThreadNames
<1>3. ASSUME \/ ClientConnects \/ ClientDisconnected
             \/ \E n \in Arrivals : Arrive(n)
             \/ LoadGroupId(Client) \/ StoreGroupId(Client)
             \/ Read \/ FindGroup \/ InsertGroup \/ SendNext
      PROVE  BoundInv'
  <2>1. /\ UNCHANGED <<conn, ofconn, dpid, bound>>
        /\ \A u \in Threads \ {Client} : thread'[u] = thread[u]
        /\ thread[Client].pc # "none"
    BY <1>3, ClientMoves
  <2>2. thread'[Client].pc \notin {"bind", "identify"}
    BY DEF ProcessTyped, ThreadsTyped, ClientSteps
  <2> QED
    BY <2>1, <2>2, JobBound
<1>4. ASSUME DatapathKnown \/ StopServer \/ StopClient
      PROVE  BoundInv'
  <2>1. /\ UNCHANGED <<ofconn, dpid, bound>>
        /\ \A c \in Conns : thread'[c] = thread[c]
        /\ \A c \in Conns : conn'[c] = conn[c] \/ conn'[c] = "down"
        /\ \/ thread'[Client].pc = "connect" /\ dpid # NULL
           \/ thread'[Client] = thread[Client]
    BY <1>4, MainMoves
  <2> QED
    BY <2>1, BoundKept
<1> QED
  BY <1>1, <1>2, <1>3, <1>4 DEF ProcessStep, WorkerStep, ClientStep

\* A worker that is about to serve a packet keeps the session it has read:
\* no session is ever taken out of the store.
LEMMA ProcessKeys ==
  ASSUME ProcessTyped, KeysTyped, ProcessStep
  PROVE  KeysTyped'
<1>0. Client \in Threads /\ ThreadsTyped /\ Conns \subseteq Threads \ {Client, Main}
  BY ThreadNames DEF ProcessTyped
<1>s. ASSUME \A c \in Conns : thread'[c] = thread[c],
             \A g \in GroupIPs : store[g] # NULL => store'[g] # NULL
      PROVE  KeysTyped'
  BY <1>s DEF KeysTyped
<1>1. ASSUME NEW c \in Conns,
             \/ Connect(c)
             \/ \E ofversion \in {1, 4} : SwitchIsUp(c, ofversion)
             \/ Bind(c) \/ Identify(c) \/ Disconnect(c)
      PROVE  KeysTyped'
  <2>1. store' = store
    BY <1>1 DEF Connect, SwitchIsUp, Bind, Identify, Disconnect, sessions, state
  <2>2. thread' = thread \/ \E step \in {"bind", "idle", "identify"} : Goto(c, step)
    BY <1>1 DEF Connect, SwitchIsUp, Bind, Identify, Disconnect
  <2>3. CASE thread' = thread
    BY <1>s, <2>1, <2>3
  <2>4. ASSUME NEW step \in {"bind", "idle", "identify"}, Goto(c, step)
        PROVE  KeysTyped'
    <3>1. /\ thread'[c].pc = step
          /\ \A u \in Threads \ {c} : thread'[u] = thread[u]
      BY <1>0, <2>4, GotoEffect
    <3> QED
      BY <1>0, <2>1, <3>1 DEF KeysTyped
  <2> QED
    BY <2>2, <2>3, <2>4
<1>2. ASSUME NEW c \in Conns,
             \/ LoadGroupId(c) \/ StoreGroupId(c)
             \/ FindSession(c) \/ ReadKey(c) \/ JoinOrLeave(c)
             \/ \E p \in packets : PacketIn(c, p)
      PROVE  KeysTyped'
  <2>1. /\ store' = store
        /\ \A u \in Threads \ {c} : thread'[u] = thread[u]
        /\ thread'[c].pc = "act" =>
             /\ thread'[c].job.protocol = "UDP"
             /\ thread'[c].key \in GroupIPs /\ store[thread'[c].key] # NULL
    BY <1>2, WorkerMoves
  <2> QED
    BY <1>0, <2>1 DEF KeysTyped
<1>3. ASSUME \/ ClientConnects \/ ClientDisconnected
             \/ \E n \in Arrivals : Arrive(n)
             \/ LoadGroupId(Client) \/ StoreGroupId(Client)
             \/ Read \/ FindGroup \/ InsertGroup \/ SendNext
      PROVE  KeysTyped'
  <2>1. \A c \in Conns : thread'[c] = thread[c]
    BY <1>0, <1>3, ClientMoves
  <2>2. \A g \in GroupIPs : store[g] # NULL => store'[g] # NULL
    <3>1. CASE InsertGroup
      <4>1. thread[Client].job \in Record
        BY <3>1 DEF InsertGroup, At, ProcessTyped, ThreadsTyped
      <4>2. PICK r \in Record : r = thread[Client].job
        BY <4>1
      <4>3. PICK s \in Session : s = Stored(r)
        BY StoredType DEF ProcessTyped
      <4>4. store' = [store EXCEPT ![r.sip] = s] /\ s # NULL
        BY <3>1, <4>2, <4>3, NullAssumption DEF InsertGroup, Stored
      <4> QED
        BY <4>4 DEF ProcessTyped, TypeOK
    <3>2. CASE ~InsertGroup
      <4>1. store' = store
        BY <1>3, <3>2
        DEF ClientConnects, ClientDisconnected, Arrive, LoadGroupId, StoreGroupId,
            Read, FindGroup, SendNext, sessions, state
      <4> QED
        BY <4>1
    <3> QED
      BY <3>1, <3>2
  <2> QED
    BY <1>s, <2>1, <2>2
<1>4. ASSUME DatapathKnown \/ StopServer \/ StopClient
      PROVE  KeysTyped'
  <2>1. store' = store /\ \A c \in Conns : thread'[c] = thread[c]
    BY <1>4, MainMoves
  <2> QED
    BY <1>s, <2>1
<1> QED
  BY <1>1, <1>2, <1>3, <1>4 DEF ProcessStep, WorkerStep, ClientStep

(***************************************************************************)
(* The hook is the last thing of a group to reach the switch               *)
(***************************************************************************)

\* The invariant survives a step of a thread that unfinishes no group, sends
\* hooks of finished groups alone, and takes up no packet that another hook punted.
LEMMA HookKept ==
  ASSUME ATypeOK, HookInv, Queue, dp' = dp, out' \in Seq(Messages),
         \A ip \in GroupIPs : Finished(ip) => Finished(ip)',
         OutFinished', CreationInv',
         \A c \in Conns : IsHooked(thread'[c].job) =>
           thread'[c].job = thread[c].job \/ thread'[c].job.ip \in dp[c].hooks
  PROVE  HookInv'
<1>1. HooksFinished'
  BY DEF HookInv, HooksFinished, ATypeOK, DatapathType
<1>2. WireFinished'
  <2> SUFFICES ASSUME NEW c \in Conns, NEW k \in 1..Len(wire'[c]),
                      IsHook(wire'[c][k])
               PROVE  Finished(wire[c][k].ip)'
    BY DEF WireFinished, IsHook
  <2> PICK m : m = wire'[c][k]
    OBVIOUS
  <2>1. IsHook(m)
    OBVIOUS
  <2>2. CASE wire'[c] = wire[c]
    <3>1. k \in 1..Len(wire[c]) /\ wire[c][k] = m
      BY <2>2
    <3>2. m \in Messages
      BY <3>1 DEF ATypeOK
    <3>3. m.ip \in GroupIPs
      BY <2>1, <3>2 DEF Messages, RoleRequest, GroupMods, FlowMods, Hooks, PacketOuts,
                        IsHook
    <3>4. Finished(m.ip)
      BY <2>1, <3>1 DEF HookInv, WireFinished
    <3>5. Finished(m.ip)'
      BY <3>3, <3>4
    <3> QED
      BY <3>5
  <2>3. CASE wire'[c] = wire[c] \o out'
    <3>1. wire[c] \in Seq(Messages)
      BY DEF ATypeOK
    <3>2. CASE k <= Len(wire[c])
      <4>1. k \in 1..Len(wire[c]) /\ wire[c][k] = m
        BY <2>3, <3>1, <3>2
      <4>2. m \in Messages
        BY <4>1, <3>1
      <4>3. m.ip \in GroupIPs
        BY <2>1, <4>2 DEF Messages, RoleRequest, GroupMods, FlowMods, Hooks,
                          PacketOuts, IsHook
      <4>4. Finished(m.ip)
        BY <2>1, <4>1 DEF HookInv, WireFinished
      <4>5. Finished(m.ip)'
        BY <4>3, <4>4
      <4> QED
        BY <4>5
    <3>3. CASE ~(k <= Len(wire[c]))
      <4>1. PICK j \in 1..Len(out') : out'[j] = m
        <5>1. /\ k - Len(wire[c]) \in 1..Len(out')
              /\ m = out'[k - Len(wire[c])]
          BY <2>3, <3>1, <3>3
        <5> QED
          BY <5>1
      <4>2. Finished(m.ip)'
        BY <2>1, <4>1 DEF OutFinished, IsHook
      <4> QED
        BY <4>2
    <3> QED
      BY <3>2, <3>3
  <2>4. wire'[c] = wire[c] \/ wire'[c] = wire[c] \o out'
    BY DEF Queue, ATypeOK
  <2> QED
    BY <2>2, <2>3, <2>4
<1>3. JobsFinished'
  <2> SUFFICES ASSUME NEW c \in Conns, IsHooked(thread'[c].job)
               PROVE  Finished(thread[c].job.ip)'
    BY DEF JobsFinished, IsHooked
  <2> PICK p : p = thread'[c].job.ip
    OBVIOUS
  <2>1. CASE thread'[c].job = thread[c].job
    <3>1. Finished(p)
      BY <2>1 DEF HookInv, JobsFinished
    <3>2. p \in GroupIPs
      BY <2>1, PacketFields DEF ATypeOK, ProcessTyped, ThreadsTyped, IsHooked
    <3>3. Finished(p)'
      BY <3>1, <3>2
    <3> QED
      BY <3>3
  <2>2. CASE p \in dp[c].hooks
    <3>1. Finished(p) /\ p \in GroupIPs
      BY <2>2 DEF HookInv, HooksFinished, ATypeOK, DatapathType
    <3>2. Finished(p)'
      BY <3>1
    <3> QED
      BY <3>2
  <2> QED
    BY <2>1, <2>2
<1> QED
  BY <1>1, <1>2, <1>3 DEF HookInv

\* A step that leaves the store and the client's thread alone unfinishes nothing
\* and leaves what the client has still to send as it was.
LEMMA OthersFinished ==
  ASSUME CreationInv, UNCHANGED <<store, thread[Client]>>
  PROVE  /\ \A ip \in GroupIPs : Finished(ip) => Finished(ip)'
         /\ CreationInv'
  BY DEF Finished, CreationInv

\* Nor does one that takes the client's thread to a step that is not of
\* create_group's insertion.
LEMMA ClientFinished ==
  ASSUME store' = store, thread'[Client].pc \notin {"insert", "send"}
  PROVE  /\ \A ip \in GroupIPs : Finished(ip) => Finished(ip)'
         /\ CreationInv'
  BY DEF Finished, CreationInv

\* A step that sends nothing sends no hook.
LEMMA SilentOut == Silent => OutFinished'
  BY DEF Silent, OutFinished

\* Joins and leaves send no hooks.
LEMMA JoinLeaveOut ==
  ASSUME TypeOK, NEW g \in GroupIPs, NEW i, NEW h,
         Join(g, i, h) \/ Leave(g, i)
  PROVE  OutFinished'
<1> DEFINE gm == groupmod'[g]
           fs == DownstreamFlow(g, store[g])
<1>1. \/ out' = <<>>
      \/ out' = <<PacketOut(g, "join"), GroupMod("ADD", gm.group_id, gm.buckets),
                  FlowMod("ADD", fs)>>
      \/ out' = <<PacketOut(g, "leave"), FlowMod("DELETE", fs),
                  GroupMod("DELETE", gm.group_id, gm.buckets)>>
      \/ out' = <<GroupMod("MODIFY", gm.group_id, gm.buckets)>>
  BY DEF Join, Leave, Send, InstallMessages, RemoveMessages
<1>2. \A k \in 1..Len(out') : ~IsHook(out'[k])
  <2>1. \A command, id, bs : ~IsHook(GroupMod(command, id, bs))
    BY DEF IsHook, GroupMod
  <2>2. \A command, flow : ~IsHook(FlowMod(command, flow))
    BY DEF IsHook, FlowMod
  <2>3. \A ip, request : ~IsHook(PacketOut(ip, request))
    BY DEF IsHook, PacketOut
  <2> HIDE DEF gm, fs
  <2> QED
    BY <1>1, <2>1, <2>2, <2>3
<1> QED
  BY <1>2 DEF OutFinished, IsHook

\* The steps of the workers keep the invariant.
LEMMA WorkerHook ==
  ASSUME ATypeOK, KeysTyped, HookInv, Queue, dp' = dp, out' \in Seq(Messages),
         NEW c \in Conns,
         \/ Connect(c)
         \/ \E ofversion \in {1, 4} : SwitchIsUp(c, ofversion)
         \/ Bind(c) \/ Identify(c) \/ Disconnect(c)
         \/ LoadGroupId(c) \/ StoreGroupId(c)
         \/ FindSession(c) \/ ReadKey(c) \/ JoinOrLeave(c)
         \/ \E p \in packets : PacketIn(c, p)
  PROVE  HookInv'
<1> USE DEF sessions, state
<1>0. /\ c \in Threads /\ Client \in Threads \ {c} /\ ThreadsTyped /\ ProcessTyped
      /\ Conns \subseteq Threads
  BY ThreadNames DEF ATypeOK, ProcessTyped
<1>1. ASSUME \/ Connect(c)
             \/ \E ofversion \in {1, 4} : SwitchIsUp(c, ofversion)
             \/ Bind(c) \/ Identify(c) \/ Disconnect(c)
      PROVE  /\ store' = store
             /\ \A u \in Threads \ {c} : thread'[u] = thread[u]
             /\ thread'[c].job = thread[c].job
             /\ OutFinished'
  <2>1. CASE Connect(c) \/ Disconnect(c)
    BY <2>1, SilentOut DEF Connect, Disconnect
  <2>2. CASE (\E v \in {1, 4} : SwitchIsUp(c, v)) \/ Bind(c)
    <3>1. PICK step : Goto(c, step)
      BY <2>2 DEF SwitchIsUp, Bind
    <3>2. store' = store /\ Silent
      BY <2>2 DEF SwitchIsUp, Bind
    <3> QED
      BY <1>0, <3>1, <3>2, GotoEffect, SilentOut
  <2>3. CASE Identify(c)
    <3>1. store' = store /\ Goto(c, "idle") /\ Send(<<RoleRequest>>)
      BY <2>3 DEF Identify
    <3>2. OutFinished'
      <4>1. \A k \in 1..Len(out') : out'[k] = RoleRequest
        BY <3>1 DEF Send
      <4> QED
        BY <4>1 DEF OutFinished, IsHook, RoleRequest
    <3> QED
      BY <1>0, <3>1, <3>2, GotoEffect
  <2> QED
    BY <1>1, <2>1, <2>2, <2>3
<1>2. ASSUME \/ LoadGroupId(c) \/ StoreGroupId(c)
             \/ FindSession(c) \/ ReadKey(c) \/ JoinOrLeave(c)
             \/ \E p \in packets : PacketIn(c, p)
      PROVE  /\ store' = store
             /\ \A u \in Threads \ {c} : thread'[u] = thread[u]
             /\ IsHooked(thread'[c].job) =>
                  thread'[c].job = thread[c].job \/ thread'[c].job.ip \in dp[c].hooks
             /\ OutFinished'
  <2>1. /\ store' = store
        /\ \A u \in Threads \ {c} : thread'[u] = thread[u]
        /\ IsHooked(thread'[c].job) =>
             thread'[c].job = thread[c].job \/ thread'[c].job.ip \in dp[c].hooks
    BY <1>0, <1>2, WorkerMoves
  <2>2. OutFinished'
    <3>1. CASE Silent
      BY <3>1, SilentOut
    <3>2. CASE JoinOrLeave(c) /\ ~Silent
      <4>1. PICK p : p = thread[c].job
        OBVIOUS
      <4>g. PICK g : g = thread[c].key
        OBVIOUS
      <4>2. Join(g, p.intf, p.host) \/ Leave(g, p.intf)
        BY <3>2, <4>1, <4>g DEF JoinOrLeave
      <4>3. g \in GroupIPs
        BY <3>2, <4>g DEF JoinOrLeave, At, KeysTyped
      <4> QED
        BY <1>0, <4>2, <4>3, JoinLeaveOut DEF ProcessTyped
    <3>3. Silent \/ JoinOrLeave(c)
      BY <1>2 DEF LoadGroupId, StoreGroupId, FindSession, ReadKey, PacketIn
    <3> QED
      BY <3>1, <3>2, <3>3
  <2> QED
    BY <2>1, <2>2
<1>3. /\ store' = store
      /\ \A u \in Threads \ {c} : thread'[u] = thread[u]
      /\ IsHooked(thread'[c].job) =>
           thread'[c].job = thread[c].job \/ thread'[c].job.ip \in dp[c].hooks
      /\ OutFinished'
  BY <1>1, <1>2
<1>4. thread'[Client] = thread[Client]
  BY <1>0, <1>3
<1>5. (\A ip \in GroupIPs : Finished(ip) => Finished(ip)') /\ CreationInv'
  BY <1>3, <1>4, OthersFinished DEF HookInv
<1>6. \A b \in Conns : IsHooked(thread'[b].job) =>
        thread'[b].job = thread[b].job \/ thread'[b].job.ip \in dp[b].hooks
  BY <1>0, <1>3
<1> QED
  BY <1>3, <1>5, <1>6, HookKept

\* FindGroup goes on to the insertion only when the group is not there.
LEMMA FindGroupHook ==
  ASSUME ATypeOK, HookInv, FindGroup
  PROVE  /\ \A ip \in GroupIPs : Finished(ip) => Finished(ip)'
         /\ CreationInv' /\ OutFinished'
<1>1. /\ store' = store /\ Silent
      /\ Goto(Client, IF store[thread[Client].job.sip] = NULL THEN "insert" ELSE "loop")
  BY DEF FindGroup, sessions, state
<1>2. Client \in Threads /\ ThreadsTyped
  BY ThreadNames DEF ATypeOK, ProcessTyped
<1>3. /\ thread'[Client].pc = IF store[thread[Client].job.sip] = NULL
                              THEN "insert" ELSE "loop"
      /\ thread'[Client].job = thread[Client].job
  BY <1>1, <1>2, GotoEffect
<1> QED
  BY <1>1, <1>3, SilentOut DEF Finished, CreationInv

\* The insertion of a group touches no finished one, and leaves its hook to be
\* sent last.
LEMMA InsertGroupHook ==
  ASSUME ATypeOK, HookInv, InsertGroup
  PROVE  /\ \A ip \in GroupIPs : Finished(ip) => Finished(ip)'
         /\ CreationInv' /\ OutFinished'
<1>1. thread[Client].pc = "insert" /\ Silent
  BY DEF InsertGroup, At
<1>2. PICK r \in Record : r = thread[Client].job
  BY <1>1 DEF ATypeOK, ProcessTyped, ThreadsTyped
<1>3. PICK s \in Session : s = Stored(r)
  BY StoredType DEF ATypeOK, ProcessTyped
<1>4. PICK sip \in GroupIPs : sip = r.sip
  BY DEF Record
<1>5. PICK todo : todo = Creation(sip, s)
  OBVIOUS
<1>6. /\ store' = [store EXCEPT ![sip] = s]
      /\ thread' = [thread EXCEPT ![Client].pc = "send", ![Client].todo = todo]
  BY <1>2, <1>3, <1>4, <1>5 DEF InsertGroup, Stored
<1>7. thread[Client] \in ThreadState /\ Client \in Threads
  BY ThreadNames DEF ATypeOK, ProcessTyped, ThreadsTyped
<1>8. /\ thread'[Client].pc = "send" /\ thread'[Client].todo = todo
      /\ thread'[Client].job = r
  BY <1>2, <1>6, <1>7 DEF ThreadState, ATypeOK, ProcessTyped, ThreadsTyped
<1>9. /\ store'[sip] = s /\ s # NULL /\ store[sip] = NULL
      /\ \A ip \in GroupIPs \ {sip} : store'[ip] = store[ip]
  BY <1>1, <1>2, <1>4, <1>6, NullAssumption
  DEF ATypeOK, ProcessTyped, TypeOK, HookInv, CreationInv
<1>10. \A ip \in GroupIPs : Finished(ip) => Finished(ip)'
  BY <1>4, <1>8, <1>9 DEF Finished
<1>11. /\ todo # <<>>
       /\ \A k \in 1..Len(todo) :
            IsHook(todo[k]) => k = Len(todo) /\ todo[k].ip = sip
  BY <1>5, CreationProperties DEF ATypeOK, ProcessTyped
<1>12. CreationInv'
  BY <1>4, <1>8, <1>9, <1>11 DEF CreationInv, IsHook
<1> QED
  BY <1>1, <1>10, <1>12, SilentOut

\* When the hook is sent, nothing of its group is left to send.
LEMMA SendNextHook ==
  ASSUME ATypeOK, HookInv, SendNext
  PROVE  /\ \A ip \in GroupIPs : Finished(ip) => Finished(ip)'
         /\ CreationInv' /\ OutFinished'
<1>1. thread[Client].pc = "send" /\ store' = store
  BY DEF SendNext, At, sessions, state
<1>2. PICK todo \in Seq(Messages) : todo = thread[Client].todo
  BY ThreadNames DEF ATypeOK, ProcessTyped, ThreadsTyped, ThreadState
<1>3. PICK sip \in GroupIPs : sip = thread[Client].job.sip
  BY <1>1 DEF ATypeOK, ProcessTyped, ThreadsTyped, Record
<1>4. /\ store[sip] # NULL
      /\ todo # <<>>
      /\ \A k \in 1..Len(todo) :
           IsHook(todo[k]) => k = Len(todo) /\ todo[k].ip = sip
  BY <1>1, <1>2, <1>3 DEF HookInv, CreationInv
<1>5. PICK step : step = IF Tail(todo) = <<>> THEN "loop" ELSE "send"
  OBVIOUS
<1>6. /\ thread' = [thread EXCEPT ![Client].todo = Tail(todo), ![Client].pc = step]
      /\ Send(<<Packed(Head(todo), sip)>>)
  BY <1>2, <1>3, <1>5 DEF SendNext
<1>7. /\ thread'[Client].pc = step /\ thread'[Client].todo = Tail(todo)
      /\ thread'[Client].job.sip = sip
  <2>1. thread[Client] \in ThreadState /\ Client \in Threads
    BY ThreadNames DEF ATypeOK, ProcessTyped, ThreadsTyped
  <2> QED
    BY <1>3, <1>6, <2>1 DEF ThreadState, ATypeOK, ProcessTyped, ThreadsTyped
<1>8. \A ip \in GroupIPs : Finished(ip) => Finished(ip)'
  BY <1>1, <1>3, <1>7 DEF Finished
<1>9. CreationInv'
  <2>1. /\ Tail(todo) \in Seq(Messages) /\ Len(Tail(todo)) = Len(todo) - 1
        /\ \A k \in 1..Len(Tail(todo)) : Tail(todo)[k] = todo[k + 1]
    BY <1>4
  <2>2. \A k \in 1..Len(Tail(todo)) :
          IsHook(Tail(todo)[k]) => k = Len(Tail(todo)) /\ Tail(todo)[k].ip = sip
    <3> SUFFICES ASSUME NEW k \in 1..Len(Tail(todo)), IsHook(Tail(todo)[k])
                 PROVE  k = Len(Tail(todo)) /\ Tail(todo)[k].ip = sip
      OBVIOUS
    <3>1. k + 1 \in 1..Len(todo) /\ Tail(todo)[k] = todo[k + 1]
      BY <2>1
    <3>2. k + 1 = Len(todo) /\ todo[k + 1].ip = sip
      BY <1>4, <3>1
    <3>3. k = Len(Tail(todo))
      <4>1. PICK n \in Nat : n = Len(todo)
        OBVIOUS
      <4>2. Len(Tail(todo)) = n - 1
        BY <2>1, <4>1
      <4>3. k \in Nat /\ k + 1 = n
        BY <3>2, <4>1
      <4>4. k = n - 1
        BY <4>3
      <4> QED
        BY <4>2, <4>4
    <3>4. Tail(todo)[k].ip = sip
      BY <3>1, <3>2
    <3> QED
      BY <3>3, <3>4
  <2>3. PICK rest : rest = Tail(todo)
    OBVIOUS
  <2> QED
    BY <1>1, <1>4, <1>5, <1>7, <2>2, <2>3 DEF CreationInv, IsHook
<1>10. OutFinished'
  <2>0. PICK p : p = Packed(Head(todo), sip)
    OBVIOUS
  <2>1. out' = <<>> \/ out' = <<p>>
    BY <1>6, <2>0 DEF Send
  <2>p. IsHook(p) => p = Head(todo)
    <3>1. Head(todo) \in Messages
      BY <1>4
    <3> QED
      BY <2>0, <3>1, PackedType DEF ATypeOK, ProcessTyped, IsHook
  <2>2. ASSUME IsHook(Head(todo))
        PROVE  Finished(Head(todo).ip)'
    <3>1. 1 \in 1..Len(todo) /\ Head(todo) = todo[1]
      BY <1>4
    <3>2. 1 = Len(todo) /\ Head(todo).ip = sip
      BY <1>4, <2>2, <3>1
    <3>3. Tail(todo) = <<>>
      <4>1. Tail(todo) \in Seq(Messages) /\ Len(Tail(todo)) = Len(todo) - 1
        BY <1>4
      <4>2. Len(Tail(todo)) = 0
        BY <3>2, <4>1
      <4> QED
        BY <4>1, <4>2, EmptySeq
    <3>4. step # "send"
      BY <1>5, <3>3
    <3> QED
      BY <1>1, <1>2, <1>4, <1>7, <3>2, <3>4 DEF Finished
  <2>3. PICK m : m = Head(todo)
    OBVIOUS
  <2>4. IsHook(p) => Finished(p.ip)'
    <3>1. IsHook(m) => Finished(m.ip)'
      BY <2>2, <2>3
    <3>2. IsHook(p) => p = m
      BY <2>p, <2>3
    <3> QED
      BY <3>1, <3>2
  <2> QED
    BY <2>1, <2>4 DEF OutFinished, IsHook
<1> QED
  BY <1>8, <1>9, <1>10

\* The steps of the client keep the invariant.
LEMMA ClientHook ==
  ASSUME ATypeOK, HookInv, Queue, dp' = dp, ProcessTyped',
         \/ ClientConnects \/ ClientDisconnected
         \/ \E n \in Arrivals : Arrive(n)
         \/ LoadGroupId(Client) \/ StoreGroupId(Client)
         \/ Read \/ FindGroup \/ InsertGroup \/ SendNext
  PROVE  HookInv'
<1> USE DEF sessions, state
<1>0. Client \in Threads /\ Conns \subseteq Threads \ {Client} /\ ThreadsTyped
      /\ thread[Client] \in ThreadState /\ ProcessTyped
  BY ThreadNames DEF ATypeOK, ProcessTyped, ThreadsTyped
<1>1. \A c \in Conns : thread'[c] = thread[c]
  BY <1>0, ClientMoves
<1>2. CASE \/ ClientConnects \/ ClientDisconnected
           \/ \E n \in Arrivals : Arrive(n)
           \/ StoreGroupId(Client)
  <2>1. PICK step \in {"loop", "lost", "read", "find"} : Goto(Client, step)
    BY <1>2 DEF ClientConnects, ClientDisconnected, Arrive, StoreGroupId
  <2>2. store' = store /\ Silent
    BY <1>2 DEF ClientConnects, ClientDisconnected, Arrive, StoreGroupId
  <2>3. thread'[Client].pc \notin {"insert", "send"}
    BY <1>0, <2>1, GotoEffect
  <2> QED
    BY <1>1, <2>2, <2>3, ClientFinished, SilentOut, HookKept
    DEF ProcessTyped, TypeOK
<1>3. CASE LoadGroupId(Client) \/ Read
  <2>1. store' = store /\ Silent
    BY <1>3 DEF LoadGroupId, Read
  <2>2. thread'[Client].pc \notin {"insert", "send"}
    <3>1. CASE LoadGroupId(Client)
      <4>1. thread' = [thread EXCEPT ![Client].pc = "store",
                                     ![Client].id = NextGroupId(OFMsgGroupIdGen)]
        BY <3>1 DEF LoadGroupId
      <4> QED
        BY <1>0, <4>1 DEF ThreadsTyped, ThreadState
    <3>2. CASE Read
      <4>1. CASE Goto(Client, "loop")
        BY <1>0, <4>1, GotoEffect
      <4>2. CASE thread' = [thread EXCEPT ![Client] = Begin(RecordAt(taken))]
        <5>1. Begin(RecordAt(taken)).pc \in {"loop", "load"}
          BY DEF Begin, Idle
        <5> QED
          BY <1>0, <4>2, <5>1 DEF ThreadsTyped
      <4> QED
        BY <3>2, <4>1, <4>2 DEF Read
    <3> QED
      BY <1>3, <3>1, <3>2
  <2> QED
    BY <1>1, <2>1, <2>2, ClientFinished, SilentOut, HookKept
    DEF ProcessTyped, TypeOK
<1>4. CASE FindGroup \/ InsertGroup \/ SendNext
  <2>1. /\ \A ip \in GroupIPs : Finished(ip) => Finished(ip)'
        /\ CreationInv' /\ OutFinished'
    BY <1>4, FindGroupHook, InsertGroupHook, SendNextHook
  <2> QED
    BY <1>1, <2>1, HookKept DEF ProcessTyped, TypeOK
<1> QED
  BY <1>2, <1>3, <1>4

\* The steps of main keep the invariant.
LEMMA MainHook ==
  ASSUME ATypeOK, HookInv, Queue, dp' = dp, ProcessTyped',
         DatapathKnown \/ StopServer \/ StopClient
  PROVE  HookInv'
<1>1. /\ store' = store
      /\ \A c \in Conns : thread'[c] = thread[c]
      /\ \/ thread'[Client].pc = "connect"
         \/ thread'[Client] = thread[Client]
  BY MainMoves DEF ATypeOK
<1>2. OutFinished'
  BY SilentOut DEF DatapathKnown, StopServer, StopClient
<1>3. (\A ip \in GroupIPs : Finished(ip) => Finished(ip)') /\ CreationInv'
  BY <1>1, OthersFinished, ClientFinished DEF HookInv
<1> QED
  BY <1>1, <1>2, <1>3, HookKept DEF ProcessTyped, TypeOK

\* A hook that its switch processes moves from the connection into the datapath.
LEMMA DeliverHook ==
  ASSUME ATypeOK, HookInv, NEW c \in Conns, Deliver(c)
  PROVE  HookInv'
<1>1. UNCHANGED <<store, thread>>
  BY DeliverTypes
<1>2. \A ip : Finished(ip) => Finished(ip)'
  BY <1>1 DEF Finished
<1>3. PICK m \in Messages : m = Head(wire[c])
  BY DEF Deliver, ATypeOK
<1>4. /\ dp' = [dp EXCEPT ![c] = Switch!Apply(dp[c], m)]
      /\ wire' = [wire EXCEPT ![c] = Tail(wire[c])]
      /\ wire[c] \in Seq(Messages) /\ wire[c] # <<>>
  BY <1>3 DEF Deliver, ATypeOK
<1>5. IsHook(m) => Finished(m.ip)
  <2>1. 1 \in 1..Len(wire[c]) /\ m = wire[c][1]
    BY <1>3, <1>4
  <2> QED
    BY <2>1 DEF HookInv, WireFinished
<1>6. HooksFinished'
  <2> SUFFICES ASSUME NEW b \in Conns, NEW ip \in dp'[b].hooks
               PROVE  Finished(ip)
    BY <1>2 DEF HooksFinished
  <2>1. CASE ip \in dp[b].hooks
    BY <2>1 DEF HookInv, HooksFinished
  <2>2. CASE b = c /\ ip \notin dp[b].hooks
    <3>1. dp'[c] = Switch!Apply(dp[c], m) /\ dp[c] \in DatapathType
      BY <1>4 DEF ATypeOK
    <3>2. IsHook(m) /\ ip = m.ip
      BY <2>2, <3>1, ApplyHooks
    <3> QED
      BY <1>5, <3>2
  <2>3. b # c => dp'[b] = dp[b]
    BY <1>4 DEF ATypeOK
  <2> QED
    BY <2>1, <2>2, <2>3
<1>7. WireFinished'
  <2> SUFFICES ASSUME NEW b \in Conns, NEW k \in 1..Len(wire'[b]),
                      IsHook(wire'[b][k])
               PROVE  Finished(wire'[b][k].ip)
    BY <1>2 DEF WireFinished, IsHook
  <2>1. CASE b = c
    <3>1. k + 1 \in 1..Len(wire[c]) /\ wire'[c][k] = wire[c][k + 1]
      BY <1>4, <2>1 DEF ATypeOK
    <3> QED
      BY <2>1, <3>1 DEF HookInv, WireFinished
  <2>2. CASE b # c
    <3>1. wire'[b] = wire[b]
      BY <1>4, <2>2 DEF ATypeOK
    <3> QED
      BY <3>1 DEF HookInv, WireFinished
  <2> QED
    BY <2>1, <2>2
<1>8. JobsFinished' /\ CreationInv'
  BY <1>1 DEF HookInv, JobsFinished, CreationInv, Finished
<1> QED
  BY <1>6, <1>7, <1>8 DEF HookInv

(***************************************************************************)
(* The theorems                                                            *)
(***************************************************************************)

\* The process starts with nobody bound, nothing stored and nothing to do.
LEMMA AInitInv == AInit => AInv
<1> SUFFICES ASSUME AInit PROVE AInv
  OBVIOUS
<1>1. TypeOK
  BY InitTypes DEF AInit
<1>2. /\ \A t \in Threads :
           /\ thread[t].job = NULL /\ thread[t].id = 0 /\ thread[t].todo = <<>>
           /\ thread[t] \in ThreadState
      /\ thread[Main].pc = "poll" /\ thread[Client].pc = "none"
      /\ \A c \in Conns : thread[c].pc = "idle"
      /\ thread \in [Threads -> ThreadState]
  <2>1. thread = [t \in Threads |->
                    [Idle EXCEPT !.pc = IF t = Main THEN "poll"
                                        ELSE IF t = Client THEN "none" ELSE "idle"]]
    BY ThreadNames DEF AInit
  <2>2. \A pc \in {"poll", "none", "idle"} :
          /\ [Idle EXCEPT !.pc = pc] \in ThreadState
          /\ [Idle EXCEPT !.pc = pc].pc = pc
          /\ [Idle EXCEPT !.pc = pc].job = NULL
          /\ [Idle EXCEPT !.pc = pc].id = 0
          /\ [Idle EXCEPT !.pc = pc].todo = <<>>
    <3> SUFFICES ASSUME NEW pc \in {"poll", "none", "idle"}
                 PROVE  LET s == [pc |-> pc, id |-> 0, job |-> NULL, todo |-> <<>>,
                                  key |-> NULL]
                        IN  s \in ThreadState
      BY DEF Idle
    <3>1. pc \in MainSteps \cup WorkerSteps \cup ClientSteps
      BY DEF MainSteps, WorkerSteps, ClientSteps
    <3>2. 0 \in 0..(IdSpace - 1) /\ <<>> \in Seq(Messages)
      BY BoundAssumption
    <3> QED
      BY <3>1, <3>2 DEF ThreadState
  <2> QED
    BY <2>1, <2>2, ThreadNames
<1>3. ThreadsTyped
  BY <1>2, ThreadNames DEF ThreadsTyped, MainSteps, WorkerSteps, ClientSteps
<1>4. StreamTyped
  <2>1. PICK s \in Scenarios :
          stream = s.stream /\ switches = s.switches /\ packets = s.packets
    BY DEF AInit
  <2>2. /\ stream \in Seq(Record) /\ switches \subseteq Conns
        /\ packets \subseteq Packet
    BY <2>1, ThreadsAssumption
  <2>3. 0 <= 2 * Len(stream)
    <3>1. Len(stream) \in Nat
      BY <2>2
    <3> QED
      BY <3>1
  <2>4. arrived = 0 /\ taken = 0
    BY DEF AInit
  <2>5. /\ taken \in Nat /\ arrived \in Nat
        /\ taken <= arrived /\ arrived <= 2 * Len(stream)
    BY <2>3, <2>4
  <2>6. merged \in BOOLEAN
    BY DEF AInit
  <2> QED
    BY <2>2, <2>5, <2>6, Zenon DEF StreamTyped
<1>5. ProcessTyped
  BY <1>1, <1>3, <1>4 DEF ProcessTyped, AInit
<1>6. Switch!EmptyDatapath \in DatapathType /\ Switch!EmptyDatapath.hooks = {}
  BY DEF Switch!EmptyDatapath, DatapathType
<1>7. ATypeOK
  BY <1>5, <1>6 DEF ATypeOK, AInit
<1>8. BoundInv
  BY <1>2 DEF BoundInv, AInit
<1>9. HookInv
  <2>1. \A c \in Conns : dp[c].hooks = {} /\ wire[c] = <<>> /\ thread[c].job = NULL
    BY <1>2, <1>6, ThreadNames DEF AInit
  <2>2. thread[Client].pc \notin {"insert", "send"}
    BY <1>2
  <2> QED
    BY <2>1, <2>2
    DEF HookInv, HooksFinished, WireFinished, JobsFinished, CreationInv, IsHooked
<1>10. KeysTyped
  BY <1>2 DEF KeysTyped
<1> QED
  BY <1>7, <1>8, <1>9, <1>10 DEF AInv

\* Every step of a thread or of a switch keeps the invariants.
LEMMA AInvStep == AInv /\ [ANext]_avars => AInv'
<1> SUFFICES ASSUME AInv, [ANext]_avars PROVE AInv'
  OBVIOUS
<1> USE DEF AInv
<1>1. ASSUME ProcessStep, Queue, dp' = dp
      PROVE  AInv'
  <2>1. ATypeOK'
    BY <1>1, ProcessATypes
  <2>2. ProcessTyped /\ ProcessTyped' /\ out' \in Seq(Messages)
    BY <2>1 DEF ATypeOK, ProcessTyped, TypeOK
  <2>3. BoundInv'
    BY <1>1, <2>2, ProcessBound
  <2>4. HookInv'
    BY <1>1, <2>2, WorkerHook, ClientHook, MainHook
    DEF ProcessStep, WorkerStep, ClientStep
  <2>5. KeysTyped'
    BY <1>1, <2>2, ProcessKeys
  <2> QED
    BY <2>1, <2>3, <2>4, <2>5
<1>2. ASSUME NEW c \in Conns, Deliver(c)
      PROVE  AInv'
  <2>1. ATypeOK' /\ UNCHANGED <<conn, ofconn, dpid, bound, store, thread, out>>
    BY <1>2, DeliverTypes
  <2>2. BoundInv'
    BY <2>1 DEF BoundInv
  <2>3. HookInv'
    BY <1>2, DeliverHook
  <2>4. KeysTyped'
    BY <2>1 DEF KeysTyped
  <2> QED
    BY <2>1, <2>2, <2>3, <2>4
<1>3. CASE UNCHANGED avars
  <2>1. UNCHANGED <<conn, ofconn, dpid, bound, store, members, buckets, groupmod,
                    OFMsgGroupIdGen, iterator, early, out, crashed, thread, switches, stream,
                    arrived, taken, merged, packets, wire, dp>>
    BY <1>3 DEF avars, binding, sessions, state, network
  <2>2. ATypeOK'
    BY <2>1 DEF ATypeOK, ProcessTyped, TypeOK, ThreadsTyped, StreamTyped
  <2>3. BoundInv'
    BY <2>1 DEF BoundInv
  <2>4. HookInv'
    BY <2>1
    DEF HookInv, HooksFinished, WireFinished, JobsFinished, CreationInv, Finished
  <2>5. KeysTyped'
    BY <2>1 DEF KeysTyped
  <2> QED
    BY <2>2, <2>3, <2>4, <2>5
<1> QED
  BY <1>1, <1>2, <1>3 DEF ANext

\* The invariants hold of every interleaving.
LEMMA AlwaysAInv == ASpec => []AInv
  BY AInitInv, AInvStep, PTL DEF ASpec

\* With the threads interleaved every variable keeps its type, each thread
\* stands at a step of its own, and the iterator the workers share is never at
\* a session that is not in the store.
THEOREM ThreadTypes == ASpec => []ATypeOK
  BY AlwaysAInv, PTL DEF AInv

\* main starts the client's thread when it sees dpid, and whichever workers set
\* ofconn and dpid, and however they overtake each other, ofconn is bound by
\* then (MCApps.hh:138-141), which create_group relies on.
THEOREM ClientAlwaysBound == ASpec => []BoundBeforeClient
<1>1. AInv => BoundBeforeClient
  BY DEF AInv, BoundInv, BoundBeforeClient, ATypeOK, ProcessTyped
<1> QED
  BY <1>1, AlwaysAInv, PTL

\* No packet that a hook of the agent punts finds its group half made, whatever
\* else the switch punts: the hook is the last message that create_group sends
\* (MCApps.hh:319).
THEOREM HookAlwaysLast == ASpec => []HookLast
<1>1. AInv => HookLast
  BY DEF AInv, HookInv, JobsFinished, Finished, HookLast, IsHooked
<1> QED
  BY <1>1, AlwaysAInv, PTL

(***************************************************************************)
(* Why a switch may refuse a message                                       *)
(***************************************************************************)

\* the groups that are in datapath d
Has(d) == { id \in 0..MaxGroupId : d.groups[id] # NULL }

\* A switch that has the groups ids does not refuse m, ...
Accepts(ids, m) ==
  /\ m.type = "group" => m.group \in 0..MaxGroupId
  /\ m.type = "group" /\ m.command = "ADD" => m.group \notin ids
  /\ m.type = "group" /\ m.command = "MODIFY" => m.group \in ids
  /\ m.type = "flow" /\ m.command = "ADD" => m.flow.group \in ids

\* ... after which these are the groups it has.
Then(ids, m) ==
  IF m.type = "group" /\ m.command = "ADD" THEN ids \cup {m.group}
  ELSE IF m.type = "group" /\ m.command = "DELETE" THEN ids \ {m.group}
  ELSE ids

\* g's group is in the switch, as far as the agent knows
Installed(g) ==
  /\ store[g] # NULL
  /\ IF store[g].is_root THEN ~Pending(g) ELSE ~NoMembers(g)

InstalledIds == { store[g].groupid : g \in { h \in GroupIPs : Installed(h) } }

\* what may be left of the messages of create_group for session s of address g
ToSend(g, s, todo) ==
  LET flow == FlowMod("ADD", DownstreamFlow(g, s))
      hook == HookFlowMod(g)
  IN  \/ todo = <<hook>>
      \/ s.is_root /\ todo = <<flow, hook>>
      \/ /\ s.is_root
         /\ todo = <<GroupMod("ADD", s.groupid, Head(todo).buckets), flow, hook>>

\* Ids are within the bound, and before the client is started there is nothing.
IdsInRange ==
  /\ \A t \in Threads : thread[t].id <= MaxGroupId
  /\ \A g \in GroupIPs : store[g] # NULL => store[g].groupid \in 0..MaxGroupId

StartInv ==
  /\ thread[Main].pc = "poll" => thread[Client].pc = "none"
  /\ thread[Client].pc = "none" => \A g \in GroupIPs : store[g] = NULL

\* What the client has still to send belongs to the session it has inserted.
ClientInv ==
  thread[Client].pc = "send" =>
    ToSend(thread[Client].job.sip, store[thread[Client].job.sip],
           thread[Client].todo)

\* On a connection that is not bound nothing has been sent.
Unsent ==
  /\ IsFiniteSet(bound)
  /\ \A c \in Conns \ bound : wire[c] = <<>> /\ ~dp[c].refused /\ Has(dp[c]) = {}

\* t lists what groups a switch has as it processes ms, beginning with ids, and
\* it refuses none of them.
IsTrail(t, ids, ms) ==
  /\ t[1] = ids
  /\ \A k \in 1..Len(ms) : Accepts(t[k], ms[k]) /\ t[k + 1] = Then(t[k], ms[k])

LeadTo(ids, ms, end) == \E t : IsTrail(t, ids, ms) /\ t[Len(ms) + 1] = end

\* What is on connection c is accepted, and leaves the groups that the agent
\* takes for installed.
WireAgrees(c) ==
  /\ ~dp[c].refused
  /\ \E end : /\ LeadTo(Has(dp[c]), wire[c], end)
              /\ conn[c] = "up" => end = InstalledIds

\* The inductive invariant: agent, wire and switch agree unless one of the three
\* races has happened.
Explained ==
  ~IdsCollide /\ ~early => \A c \in Conns : bound = {c} => WireAgrees(c)

RefusalInv ==
  IdsInRange /\ StartInv /\ ClientInv /\ Unsent /\ StateInv /\ Explained

\* No message leads nowhere, ...
LEMMA LeadNowhere == \A ids : LeadTo(ids, <<>>, ids)
<1> SUFFICES ASSUME NEW ids PROVE LeadTo(ids, <<>>, ids)
  OBVIOUS
<1>1. IsTrail(<<ids>>, ids, <<>>) /\ <<ids>>[Len(<<>>) + 1] = ids
  BY DEF IsTrail
<1> QED
  BY <1>1 DEF LeadTo

\* ... one message to where it leads, ...
LEMMA LeadOne ==
  ASSUME NEW ids, NEW m, Accepts(ids, m)
  PROVE  LeadTo(ids, <<m>>, Then(ids, m))
<1> DEFINE t == <<ids, Then(ids, m)>>
<1>1. t[1] = ids /\ t[2] = Then(ids, m) /\ Len(<<m>>) = 1 /\ <<m>>[1] = m
  OBVIOUS
<1> HIDE DEF t
<1>2. IsTrail(t, ids, <<m>>) /\ t[Len(<<m>>) + 1] = Then(ids, m)
  BY <1>1 DEF IsTrail
<1> QED
  BY <1>2 DEF LeadTo

\* ... three one after the other, ...
LEMMA LeadThree ==
  ASSUME NEW i, NEW j, NEW k, NEW l, NEW a, NEW b, NEW c,
         Accepts(i, a), j = Then(i, a), Accepts(j, b), k = Then(j, b),
         Accepts(k, c), l = Then(k, c)
  PROVE  LeadTo(i, <<a, b, c>>, l)
<1> DEFINE t == <<i, j, k, l>>
           ms == <<a, b, c>>
<1>1. /\ t[1] = i /\ t[2] = j /\ t[3] = k /\ t[4] = l
      /\ Len(ms) = 3 /\ ms[1] = a /\ ms[2] = b /\ ms[3] = c
  OBVIOUS
<1> HIDE DEF t, ms
<1>2. ASSUME NEW n \in 1..3 PROVE Accepts(t[n], ms[n]) /\ t[n + 1] = Then(t[n], ms[n])
  <2>1. n = 1 \/ n = 2 \/ n = 3
    OBVIOUS
  <2> QED
    BY <1>1, <2>1
<1>3. IsTrail(t, i, ms) /\ t[Len(ms) + 1] = l
  BY <1>1, <1>2 DEF IsTrail
<1> QED
  BY <1>3 DEF LeadTo, ms

\* ... and what is queued behind other messages goes on from where they lead.
LEMMA LeadOn ==
  ASSUME NEW i, NEW j, NEW k, NEW ms \in Seq(Messages), NEW ns \in Seq(Messages),
         LeadTo(i, ms, j), LeadTo(j, ns, k)
  PROVE  LeadTo(i, ms \o ns, k)
<1>1. PICK t : IsTrail(t, i, ms) /\ t[Len(ms) + 1] = j
  BY DEF LeadTo
<1>2. PICK u : IsTrail(u, j, ns) /\ u[Len(ns) + 1] = k
  BY DEF LeadTo
<1>3. PICK m \in Nat : m = Len(ms)
  OBVIOUS
<1>4. PICK n \in Nat : n = Len(ns)
  OBVIOUS
<1>5. PICK all : all = ms \o ns
  OBVIOUS
<1>6. /\ Len(all) = m + n
      /\ \A x \in 1..m : all[x] = ms[x]
      /\ \A x \in 1..(m + n) : x > m => all[x] = ns[x - m]
  BY <1>3, <1>4, <1>5
<1> DEFINE v == [x \in 1..(m + n + 1) |-> IF x <= m THEN t[x] ELSE u[x - m]]
<1>7. \A x \in 1..m : v[x] = t[x]
  OBVIOUS
<1>8. \A x \in 1..(m + n + 1) : x > m => v[x] = u[x - m]
  OBVIOUS
<1> HIDE DEF v
<1>9. t[m + 1] = u[1] /\ u[1] = v[m + 1]
  <2>1. m + 1 \in 1..(m + n + 1) /\ m + 1 > m /\ m + 1 - m = 1
    OBVIOUS
  <2> QED
    BY <1>1, <1>2, <1>3, <1>8, <2>1 DEF IsTrail
<1>10. \A x \in 1..(m + 1) : v[x] = t[x]
  BY <1>7, <1>9
<1>11. v[1] = i
  BY <1>1, <1>10 DEF IsTrail
<1>12. v[m + n + 1] = k
  <2>1. m + n + 1 \in 1..(m + n + 1) /\ m + n + 1 > m /\ m + n + 1 - m = n + 1
    OBVIOUS
  <2> QED
    BY <1>2, <1>4, <1>8, <2>1
<1>13. ASSUME NEW x \in 1..(m + n)
       PROVE  Accepts(v[x], all[x]) /\ v[x + 1] = Then(v[x], all[x])
  <2>1. CASE x <= m
    <3>1. x \in 1..m /\ x \in 1..(m + 1) /\ x + 1 \in 1..(m + 1)
      BY <2>1
    <3>2. v[x] = t[x] /\ v[x + 1] = t[x + 1] /\ all[x] = ms[x]
      BY <1>6, <1>10, <3>1
    <3> QED
      BY <1>1, <1>3, <3>1, <3>2 DEF IsTrail
  <2>2. CASE x > m
    <3>1. PICK y \in 1..n : y = x - m
      BY <2>2
    <3>2. v[x] = u[y] /\ all[x] = ns[y]
      BY <1>6, <1>8, <2>2, <3>1
    <3>3. v[x + 1] = u[y + 1]
      <4>1. x + 1 \in 1..(m + n + 1) /\ x + 1 > m /\ x + 1 - m = y + 1
        BY <2>2, <3>1
      <4> QED
        BY <1>8, <4>1
    <3> QED
      BY <1>2, <1>4, <3>1, <3>2, <3>3 DEF IsTrail
  <2> QED
    BY <2>1, <2>2
<1>14. IsTrail(v, i, all) /\ v[Len(all) + 1] = k
  BY <1>6, <1>11, <1>12, <1>13 DEF IsTrail
<1> QED
  BY <1>5, <1>14 DEF LeadTo

\* The first message is accepted, and the others go on from where it leads.
LEMMA LeadFirst ==
  ASSUME NEW i, NEW j, NEW ms \in Seq(Messages), ms # <<>>, LeadTo(i, ms, j)
  PROVE  Accepts(i, Head(ms)) /\ LeadTo(Then(i, Head(ms)), Tail(ms), j)
<1>1. PICK t : IsTrail(t, i, ms) /\ t[Len(ms) + 1] = j
  BY DEF LeadTo
<1>2. PICK n \in Nat : n + 1 = Len(ms)
  <2>1. Len(ms) \in Nat /\ Len(ms) # 0
    BY EmptySeq
  <2> QED
    BY <2>1
<1>3. PICK ns \in Seq(Messages) : ns = Tail(ms)
  BY HeadTailProperties
<1>4. /\ Len(ns) = n /\ Head(ms) = ms[1]
      /\ \A x \in 1..n : ns[x] = ms[x + 1]
  BY <1>2, <1>3
<1> DEFINE u == [x \in 1..(n + 1) |-> t[x + 1]]
<1>5. \A x \in 1..(n + 1) : u[x] = t[x + 1]
  OBVIOUS
<1> HIDE DEF u
<1>6. 1 \in 1..Len(ms) /\ \A x \in 1..n : x + 1 \in 1..Len(ms)
  BY <1>2
<1>7. t[1] = i /\ Accepts(t[1], ms[1]) /\ t[1 + 1] = Then(t[1], ms[1])
  BY <1>1, <1>6 DEF IsTrail
<1>8. u[1] = Then(i, Head(ms))
  BY <1>4, <1>5, <1>7
<1>9. ASSUME NEW x \in 1..n
      PROVE  Accepts(u[x], ns[x]) /\ u[x + 1] = Then(u[x], ns[x])
  <2>1. x \in 1..(n + 1) /\ x + 1 \in 1..(n + 1)
    OBVIOUS
  <2>2. u[x] = t[x + 1] /\ u[x + 1] = t[(x + 1) + 1] /\ ns[x] = ms[x + 1]
    BY <1>4, <1>5, <2>1
  <2>3. Accepts(t[x + 1], ms[x + 1]) /\ t[(x + 1) + 1] = Then(t[x + 1], ms[x + 1])
    BY <1>1, <1>6 DEF IsTrail
  <2> QED
    BY <2>2, <2>3
<1>10. u[n + 1] = j
  BY <1>1, <1>2, <1>5
<1>11. IsTrail(u, Then(i, Head(ms)), ns) /\ u[Len(ns) + 1] = j
  BY <1>4, <1>8, <1>9, <1>10 DEF IsTrail
<1> QED
  BY <1>3, <1>4, <1>7, <1>11 DEF LeadTo

\* A group's entry in a datapath, and the set of groups.
LEMMA HasEntry ==
  ASSUME NEW d \in DatapathType, NEW id \in 0..MaxGroupId,
         NEW b \in Seq(Bucket) \cup {NULL}, NEW e, e = [d EXCEPT !.groups[id] = b]
  PROVE  /\ e.refused = d.refused
         /\ Has(e) = IF b = NULL THEN Has(d) \ {id} ELSE Has(d) \cup {id}
<1> DEFINE gs == [d.groups EXCEPT ![id] = b]
<1>0. e = [d EXCEPT !.groups = gs]
  OBVIOUS
<1>1. \A x \in 0..MaxGroupId : gs[x] = IF x = id THEN b ELSE d.groups[x]
  BY DEF DatapathType
<1> HIDE DEF gs
<1>2. e.groups = gs /\ e.refused = d.refused
  BY <1>0 DEF DatapathType
<1>3. Has(e) = IF b = NULL THEN Has(d) \ {id} ELSE Has(d) \cup {id}
  BY <1>1, <1>2 DEF Has
<1> QED
  BY <1>2, <1>3

\* What Accepts and Then say of a message is what the switch does of it.
LEMMA ApplyAccepted ==
  ASSUME NEW d \in DatapathType, NEW m \in Messages, ~d.refused, Accepts(Has(d), m)
  PROVE  ~Switch!Apply(d, m).refused /\ Has(Switch!Apply(d, m)) = Then(Has(d), m)
<1> DEFINE e == Switch!Apply(d, m)
<1>1. CASE m = RoleRequest
  BY <1>1 DEF Switch!Apply, RoleRequest, Then
<1>2. CASE m \in GroupMods
  <2>1. /\ m.type = "group" /\ m.command \in {"ADD", "MODIFY", "DELETE"}
        /\ m.buckets \in Seq(Bucket) /\ m.buckets # NULL /\ m.group \in 0..MaxGroupId
    BY <1>2, NullAssumption DEF GroupMods, Accepts
  <2>f. PICK f : f = [d EXCEPT !.groups[m.group] = m.buckets]
    OBVIOUS
  <2>h. PICK h : h = [d EXCEPT !.groups[m.group] = NULL]
    OBVIOUS
  <2>2. ~f.refused /\ Has(f) = Has(d) \cup {m.group}
    BY <2>1, <2>f, HasEntry
  <2>3. ~h.refused /\ Has(h) = Has(d) \ {m.group}
    BY <2>1, <2>h, HasEntry
  <2>4. CASE m.command = "ADD"
    <3>1. m.group \notin Has(d)
      BY <2>1, <2>4 DEF Accepts
    <3>2. e = f
      BY <2>1, <2>4, <2>f, <3>1 DEF Switch!Apply, Switch!AddGroup, Has
    <3> QED
      BY <2>1, <2>2, <2>4, <3>2 DEF Then
  <2>5. CASE m.command = "MODIFY"
    <3>1. m.group \in Has(d)
      BY <2>1, <2>5 DEF Accepts
    <3>2. e = f
      BY <2>1, <2>5, <2>f, <3>1 DEF Switch!Apply, Switch!ModifyGroup, Has
    <3>3. Then(Has(d), m) = Has(d)
      BY <2>1, <2>5 DEF Then
    <3> QED
      BY <2>2, <3>1, <3>2, <3>3
  <2>6. CASE m.command = "DELETE"
    <3>1. e = Switch!DeleteGroup(d, m.group)
      BY <2>1, <2>6 DEF Switch!Apply
    <3> DEFINE gs == [d.groups EXCEPT ![m.group] = NULL]
               fs == { x \in d.flows : x.group # m.group }
    <3>2. e = [d EXCEPT !.groups = gs, !.flows = fs] /\ h = [d EXCEPT !.groups = gs]
      BY <2>h, <3>1 DEF Switch!DeleteGroup, DatapathType
    <3> HIDE DEF gs, fs
    <3>3. e.groups = h.groups /\ e.refused = h.refused
      BY <3>2 DEF DatapathType
    <3> HIDE DEF e
    <3>4. Has(e) = Has(h)
      BY <3>3 DEF Has
    <3>5. Then(Has(d), m) = Has(d) \ {m.group}
      BY <2>1, <2>6 DEF Then
    <3> QED
      BY <2>3, <3>3, <3>4, <3>5 DEF e
  <2> QED
    BY <2>1, <2>4, <2>5, <2>6
<1>3. CASE m \in FlowMods
  <2>1. m.type = "flow" /\ m.command \in {"ADD", "DELETE"} /\ m.flow \in Flow
    BY <1>3 DEF FlowMods
  <2>2. m.command = "ADD" => d.groups[m.flow.group] # NULL
    BY <2>1 DEF Accepts, Has
  <2>3. e = d \/ \E fs : e = [d EXCEPT !.flows = fs]
    BY <2>1, <2>2 DEF Switch!Apply, Switch!AddFlow, Switch!DeleteFlow
  <2> HIDE DEF e
  <2>4. e.groups = d.groups /\ e.refused = d.refused
    BY <2>3 DEF DatapathType
  <2> QED
    BY <2>1, <2>4 DEF Has, Then, e
<1>4. CASE m \in Hooks \cup PacketOuts
  <2>1. m.type \in {"hook", "packet_out"}
    BY <1>4 DEF Hooks, PacketOuts
  <2>2. \/ \E x : e = [d EXCEPT !.hooks = x]
        \/ \E x : e = [d EXCEPT !.upstream = x]
    BY <2>1 DEF Switch!Apply
  <2> HIDE DEF e
  <2>3. e.groups = d.groups /\ e.refused = d.refused
    BY <2>2 DEF DatapathType
  <2> QED
    BY <2>1, <2>3 DEF Has, Then, e
<1> QED
  BY <1>1, <1>2, <1>3, <1>4 DEF Messages

\* Whatever is sent is sent on a bound connection.
LEMMA UnsentKept ==
  ASSUME ATypeOK, Unsent, Queue, dp' = dp, bound' = bound,
         out' # <<>> => ofconn \in bound
  PROVE  Unsent'
<1>1. \A c \in Conns \ bound : wire'[c] = wire[c]
  BY DEF Queue, ATypeOK
<1>2. \A c \in Conns : Has(dp[c])' = Has(dp[c])
  BY DEF Has
<1> QED
  BY <1>1, <1>2 DEF Unsent

\* The groups that the agent takes for installed.
LEMMA InstalledKept ==
  ASSUME UNCHANGED <<store, members>>, \A g \in GroupIPs : Pending(g)' <=> Pending(g)
  PROVE  InstalledIds' = InstalledIds
<1>1. \A g \in GroupIPs : Installed(g)' <=> Installed(g)
  BY DEF Installed, NoMembers
<1> QED
  BY <1>1 DEF InstalledIds

\* A step whose messages lead from what the agent took for installed to what it
\* takes for installed now keeps the agreement.
LEMMA WireKept ==
  ASSUME ATypeOK, NEW c \in Conns, WireAgrees(c), Queue, dp' = dp,
         out' \in Seq(Messages), out' # <<>> => ofconn = c /\ conn'[c] = "up",
         conn'[c] = "up" => conn[c] = "up" /\ LeadTo(InstalledIds, out', InstalledIds')
  PROVE  WireAgrees(c)'
<1>1. PICK end : /\ LeadTo(Has(dp[c]), wire[c], end)
                 /\ conn[c] = "up" => end = InstalledIds
  BY DEF WireAgrees
<1>2. dp'[c] = dp[c] /\ ~dp[c].refused
  BY DEF WireAgrees
<1>3. PICK now : now = InstalledIds'
  OBVIOUS
<1>4. CASE out' = <<>>
  <2>1. wire'[c] = wire[c]
    BY <1>4 DEF Queue
  <2>2. conn'[c] = "up" => end = now
    <3>1. ASSUME conn'[c] = "up" PROVE InstalledIds = now
      <4>1. PICK t : IsTrail(t, InstalledIds, out') /\ t[Len(out') + 1] = now
        BY <1>3, <3>1 DEF LeadTo
      <4>2. Len(out') = 0
        BY <1>4
      <4> QED
        BY <4>1, <4>2 DEF IsTrail
    <3> QED
      BY <1>1, <3>1
  <2> QED
    BY <1>1, <1>2, <1>3, <2>1, <2>2 DEF WireAgrees
<1>5. CASE out' # <<>>
  <2>1. wire'[c] = wire[c] \o out'
    BY <1>5 DEF Queue, ATypeOK
  <2>2. wire[c] \in Seq(Messages)
    BY DEF ATypeOK
  <2>3. LeadTo(Has(dp[c]), wire[c], InstalledIds) /\ LeadTo(InstalledIds, out', now)
    BY <1>1, <1>3, <1>5
  <2>4. LeadTo(Has(dp[c]), wire[c] \o out', now)
    BY <2>2, <2>3, LeadOn
  <2> QED
    BY <1>2, <1>3, <2>1, <2>4 DEF WireAgrees
<1> QED
  BY <1>4, <1>5

\* A bound connection that is down stays down.
StaysDown == \A c \in bound : conn'[c] = "up" => conn[c] = "up"

\* A step that changes no session, and takes the client neither to nor from the
\* sending of a group, keeps all of the invariant but what is about the switch.
LEMMA SessionsKept ==
  ASSUME RefusalInv, UNCHANGED <<store, members, buckets, groupmod>>,
         \A t \in Threads : thread'[t].id <= MaxGroupId,
         thread'[Main].pc = "poll" => thread[Main].pc = "poll",
         \/ thread'[Client] = thread[Client]
         \/ /\ thread'[Client].pc \notin {"none", "send"}
            /\ thread[Client].pc # "send" /\ thread'[Main].pc # "poll"
  PROVE  /\ IdsInRange' /\ StartInv' /\ ClientInv' /\ StateInv'
         /\ InstalledIds' = InstalledIds
         /\ IdsCollide' <=> IdsCollide
<1>1. IdsInRange'
  BY DEF RefusalInv, IdsInRange
<1>2. StartInv'
  BY DEF RefusalInv, StartInv
<1>3. ClientInv'
  BY DEF RefusalInv, ClientInv, ToSend
<1>4. StateInv'
  BY DEF RefusalInv, StateInv, BucketsMatchMembers, IndexPointsAtBucket,
         IndexesDistinct, EveryBucketOwned, MemberIntfs, IsMember,
         GroupModInStep, NoMembers
<1>5. InstalledIds' = InstalledIds
  <2>1. \A g \in GroupIPs : Pending(g)' <=> Pending(g)
    BY DEF Pending
  <2> QED
    BY <2>1, InstalledKept
<1>6. IdsCollide' <=> IdsCollide
  BY DEF IdsCollide
<1> QED
  BY <1>1, <1>2, <1>3, <1>4, <1>5, <1>6

\* Of such a step, if it sends nothing either, the whole invariant survives.
LEMMA QuietRefusal ==
  ASSUME ATypeOK, RefusalInv, Queue, dp' = dp, Silent,
         UNCHANGED <<bound, early, store, members, buckets, groupmod>>, StaysDown,
         \A t \in Threads : thread'[t].id <= MaxGroupId,
         thread'[Main].pc = "poll" => thread[Main].pc = "poll",
         \/ thread'[Client] = thread[Client]
         \/ /\ thread'[Client].pc \notin {"none", "send"}
            /\ thread[Client].pc # "send" /\ thread'[Main].pc # "poll"
  PROVE  RefusalInv'
<1>1. /\ IdsInRange' /\ StartInv' /\ ClientInv' /\ StateInv'
      /\ InstalledIds' = InstalledIds
      /\ IdsCollide' <=> IdsCollide
  BY SessionsKept
<1>2. Unsent'
  BY UnsentKept DEF RefusalInv, Silent
<1>3. Explained'
  <2> SUFFICES ASSUME ~IdsCollide', ~early', NEW c \in Conns, bound' = {c}
               PROVE  WireAgrees(c)'
    BY DEF Explained
  <2>1. WireAgrees(c)
    BY <1>1 DEF RefusalInv, Explained
  <2>2. out' = <<>>
    BY DEF Silent
  <2>3. conn'[c] = "up" => conn[c] = "up"
    BY DEF StaysDown
  <2>4. LeadTo(InstalledIds, out', InstalledIds')
    BY <1>1, <2>2, LeadNowhere
  <2>5. out' \in Seq(Messages)
    BY <2>2
  <2> QED
    BY <2>1, <2>2, <2>3, <2>4, <2>5, WireKept
<1> QED
  BY <1>1, <1>2, <1>3 DEF RefusalInv

-----------------------------------------------------------------------------
(* The steps that send nothing *)

\* No id that is drawn is above the bound.
LEMMA NextIdBound ==
  ASSUME NEW n \in 0..(IdSpace - 1), n < MaxGroupId
  PROVE  NextGroupId(n) <= MaxGroupId
<1>0. PICK k \in Nat : k = IdSpace /\ k # 0
  BY BoundAssumption
<1>1. MaxGroupId \in Nat /\ n \in Nat /\ n <= k - 1
  BY <1>0, BoundAssumption
<1>2. CASE n + 1 < k
  <2>1. (n + 1) % k = n + 1
    BY <1>0, <1>1, <1>2
  <2> QED
    BY <1>0, <1>1, <2>1 DEF NextGroupId
<1>3. CASE n + 1 = k
  <2>1. (n + 1) % k = 0
    BY <1>0, <1>1, <1>3
  <2> QED
    BY <1>0, <1>1, <2>1 DEF NextGroupId
<1> QED
  BY <1>0, <1>1, <1>2, <1>3

\* A worker that sends nothing and changes no session keeps the invariant.
LEMMA QuietWorker ==
  ASSUME ATypeOK, RefusalInv, Queue, dp' = dp, Silent, NEW c \in Conns,
         UNCHANGED <<bound, early, store, members, buckets, groupmod>>, StaysDown,
         \A u \in Threads \ {c} : thread'[u] = thread[u],
         thread'[c].id <= MaxGroupId
  PROVE  RefusalInv'
<1>1. \A t \in Threads : thread'[t].id <= MaxGroupId
  BY DEF RefusalInv, IdsInRange
<1>2. thread'[Main] = thread[Main] /\ thread'[Client] = thread[Client]
  BY ThreadNames
<1> QED
  BY <1>1, <1>2, QuietRefusal

\* So does the client.
LEMMA QuietClient ==
  ASSUME ATypeOK, RefusalInv, Queue, dp' = dp, Silent,
         UNCHANGED <<conn, bound, early, store, members, buckets, groupmod>>,
         \A u \in Threads \ {Client} : thread'[u] = thread[u],
         thread[Client].pc \notin {"none", "send"},
         thread'[Client].pc \notin {"none", "send"},
         thread'[Client].id <= MaxGroupId
  PROVE  RefusalInv'
<1>1. \A t \in Threads : thread'[t].id <= MaxGroupId
  BY DEF RefusalInv, IdsInRange
<1>2. thread'[Main] = thread[Main] /\ thread'[Main].pc # "poll"
  BY ThreadNames DEF RefusalInv, StartInv
<1>3. StaysDown
  BY DEF StaysDown
<1> QED
  BY <1>1, <1>2, <1>3, QuietRefusal

\* The increment of the id counter stores an id within the bound.
LEMMA DrawnId ==
  ASSUME ATypeOK, RefusalInv, NEW t \in Threads, LoadGroupId(t) \/ StoreGroupId(t)
  PROVE  /\ thread'[t].id <= MaxGroupId
         /\ thread'[t].pc \in {"store", "find"} /\ thread[t].pc \in {"load", "store"}
         /\ \A u \in Threads \ {t} : thread'[u] = thread[u]
<1>0. thread \in [Threads -> ThreadState] /\ thread[t].id <= MaxGroupId
  BY DEF ATypeOK, ProcessTyped, ThreadsTyped, RefusalInv, IdsInRange
<1>1. CASE LoadGroupId(t)
  <2>1. PICK n : n = NextGroupId(OFMsgGroupIdGen)
    OBVIOUS
  <2>2. n <= MaxGroupId
    BY <1>1, <2>1, NextIdBound DEF LoadGroupId, ATypeOK, ProcessTyped, TypeOK
  <2>3. thread' = [thread EXCEPT ![t].pc = "store", ![t].id = n]
    BY <1>1, <2>1 DEF LoadGroupId
  <2>4. thread'[t].id = n /\ thread'[t].pc = "store"
    <3>1. thread[t] \in ThreadState
      BY <1>0
    <3> QED
      BY <1>0, <2>3, <3>1 DEF ThreadState
  <2>5. \A u \in Threads \ {t} : thread'[u] = thread[u]
    BY <1>0, <2>3
  <2>6. thread[t].pc = "load"
    BY <1>1 DEF LoadGroupId, At
  <2> QED
    BY <2>2, <2>4, <2>5, <2>6
<1>2. CASE StoreGroupId(t)
  <2>1. Goto(t, "find") /\ thread[t].pc = "store"
    BY <1>2 DEF StoreGroupId, At
  <2>2. thread'[t].id = thread[t].id /\ thread'[t].pc = "find"
    <3>1. thread[t] \in ThreadState
      BY <1>0
    <3> QED
      BY <1>0, <2>1, <3>1 DEF ThreadState, Goto
  <2>3. \A u \in Threads \ {t} : thread'[u] = thread[u]
    BY <1>0, <2>1 DEF Goto
  <2> QED
    BY <1>0, <2>1, <2>2, <2>3
<1> QED
  BY <1>1, <1>2

\* A thread that goes on to a step of its own keeps its id.
LEMMA GotoId ==
  ASSUME ATypeOK, NEW t \in Threads, NEW step, Goto(t, step)
  PROVE  /\ thread'[t].id = thread[t].id /\ thread'[t].pc = step
         /\ thread'[t].job = thread[t].job /\ thread'[t].todo = thread[t].todo
         /\ \A u \in Threads \ {t} : thread'[u] = thread[u]
<1>0. thread \in [Threads -> ThreadState] /\ thread[t] \in ThreadState
  BY DEF ATypeOK, ProcessTyped, ThreadsTyped
<1>1. thread'[t].id = thread[t].id
  BY <1>0 DEF ThreadState, Goto
<1> QED
  BY <1>1, GotoEffect DEF ATypeOK, ProcessTyped

\* The steps of a worker that send nothing and change no session.
LEMMA WorkerRefusal ==
  ASSUME AInv, RefusalInv, Queue, dp' = dp, NEW c \in Conns,
         \/ Connect(c)
         \/ \E ofversion \in {1, 4} : SwitchIsUp(c, ofversion)
         \/ Disconnect(c)
         \/ LoadGroupId(c) \/ StoreGroupId(c) \/ FindSession(c) \/ ReadKey(c)
         \/ \E p \in packets : PacketIn(c, p)
  PROVE  RefusalInv'
<1> USE DEF AInv, sessions, state
<1>0. /\ c \in Threads /\ thread[c].id <= MaxGroupId
      /\ thread \in [Threads -> ThreadState]
      /\ conn \in [Conns -> {"none", "started", "up", "down"}]
      /\ bound \subseteq Conns
  BY ThreadNames
  DEF RefusalInv, IdsInRange, ATypeOK, ProcessTyped, ThreadsTyped, TypeOK
<1>1. \A b \in bound : conn[b] \in {"up", "down"}
  BY <1>0 DEF BoundInv
<1>2. CASE Connect(c) \/ Disconnect(c)
  <2>1. /\ Silent /\ UNCHANGED <<bound, store, members, buckets, groupmod, early>>
        /\ thread' = thread
        /\ conn[c] \in {"none", "started", "up"}
        /\ \E v \in {"started", "down"} : conn' = [conn EXCEPT ![c] = v]
    BY <1>2 DEF Connect, Disconnect
  <2>2. StaysDown
    BY <1>0, <1>1, <2>1 DEF StaysDown
  <2> QED
    BY <1>0, <2>1, <2>2, QuietWorker
<1>3. ASSUME NEW v \in {1, 4}, SwitchIsUp(c, v)
      PROVE  RefusalInv'
  <2>1. /\ Silent /\ UNCHANGED <<bound, store, members, buckets, groupmod, early>>
        /\ \E step : Goto(c, step)
        /\ conn[c] = "started" /\ conn' = [conn EXCEPT ![c] = "up"]
    BY <1>3 DEF SwitchIsUp
  <2>2. StaysDown
    BY <1>0, <1>1, <2>1 DEF StaysDown
  <2>3. thread'[c].id <= MaxGroupId /\ \A u \in Threads \ {c} : thread'[u] = thread[u]
    BY <1>0, <2>1, GotoId
  <2> QED
    BY <2>1, <2>2, <2>3, QuietWorker
<1>4. CASE LoadGroupId(c) \/ StoreGroupId(c)
  <2>1. /\ Silent /\ conn' = conn
        /\ UNCHANGED <<bound, store, members, buckets, groupmod, early>>
    BY <1>4 DEF LoadGroupId, StoreGroupId, binding
  <2>2. thread'[c].id <= MaxGroupId /\ \A u \in Threads \ {c} : thread'[u] = thread[u]
    BY <1>0, <1>4, DrawnId
  <2>3. StaysDown
    BY <2>1 DEF StaysDown
  <2> QED
    BY <2>1, <2>2, <2>3, QuietWorker
<1>5. CASE FindSession(c)
  <2>1. /\ Silent /\ conn' = conn
        /\ UNCHANGED <<bound, early, store, members, buckets, groupmod>>
        /\ Goto(c, "key")
    BY <1>5 DEF FindSession, binding
  <2>2. thread'[c].id <= MaxGroupId /\ \A u \in Threads \ {c} : thread'[u] = thread[u]
    BY <1>0, <2>1, GotoId
  <2>3. StaysDown
    BY <2>1 DEF StaysDown
  <2> QED
    BY <2>1, <2>2, <2>3, QuietWorker
<1>6. CASE ReadKey(c)
  <2>1. /\ Silent /\ conn' = conn
        /\ UNCHANGED <<bound, early, store, members, buckets, groupmod>>
        /\ \/ thread' = [thread EXCEPT ![c] = Idle]
           \/ \E k : thread' = [thread EXCEPT ![c] = [@ EXCEPT !.pc = "act", !.key = k]]
    BY <1>6 DEF ReadKey, binding
  <2>2. thread[c] \in ThreadState /\ Idle.id = 0
    BY <1>0 DEF Idle
  <2>3. thread'[c].id <= MaxGroupId /\ \A u \in Threads \ {c} : thread'[u] = thread[u]
    <3>1. CASE thread' = [thread EXCEPT ![c] = Idle]
      BY <1>0, <2>2, <3>1, BoundAssumption
    <3>2. ASSUME NEW k,
                 thread' = [thread EXCEPT ![c] = [@ EXCEPT !.pc = "act", !.key = k]]
          PROVE  /\ thread'[c].id <= MaxGroupId
                 /\ \A u \in Threads \ {c} : thread'[u] = thread[u]
      <4>1. [thread[c] EXCEPT !.pc = "act", !.key = k].id = thread[c].id
        BY <2>2 DEF ThreadState
      <4> QED
        BY <1>0, <3>2, <4>1
    <3> QED
      BY <2>1, <3>1, <3>2
  <2>4. StaysDown
    BY <2>1 DEF StaysDown
  <2> QED
    BY <2>1, <2>3, <2>4, QuietWorker
<1>7. ASSUME NEW p \in packets, PacketIn(c, p)
      PROVE  RefusalInv'
  <2>1. /\ Silent /\ conn' = conn
        /\ UNCHANGED <<bound, early, store, members, buckets, groupmod>>
    BY <1>7 DEF PacketIn, binding
  <2>2. \/ thread' = thread
        \/ \E q : thread' = [thread EXCEPT ![c] = [Idle EXCEPT !.pc = "load", !.job = q]]
    BY <1>7 DEF PacketIn
  <2>3. thread'[c].id <= MaxGroupId /\ \A u \in Threads \ {c} : thread'[u] = thread[u]
    <3>1. \A q : [Idle EXCEPT !.pc = "load", !.job = q].id = 0
      BY DEF Idle
    <3>2. CASE thread' = thread
      BY <1>0, <3>2
    <3>3. ASSUME NEW q,
                 thread' = [thread EXCEPT ![c] = [Idle EXCEPT !.pc = "load", !.job = q]]
          PROVE  /\ thread'[c].id <= MaxGroupId
                 /\ \A u \in Threads \ {c} : thread'[u] = thread[u]
      BY <1>0, <3>1, <3>3, BoundAssumption
    <3> QED
      BY <2>2, <3>2, <3>3
  <2>4. StaysDown
    BY <2>1 DEF StaysDown
  <2> QED
    BY <2>1, <2>3, <2>4, QuietWorker
<1> QED
  BY <1>2, <1>3, <1>4, <1>5, <1>6, <1>7

\* The steps of the client that send nothing and change no session.
LEMMA ClientRefusal ==
  ASSUME AInv, RefusalInv, Queue, dp' = dp,
         \/ ClientConnects \/ ClientDisconnected
         \/ \E n \in Arrivals : Arrive(n)
         \/ LoadGroupId(Client) \/ StoreGroupId(Client)
         \/ Read \/ FindGroup
  PROVE  RefusalInv'
<1> USE DEF AInv, sessions, state, binding
<1>0. /\ Client \in Threads /\ thread[Client].id <= MaxGroupId
      /\ thread \in [Threads -> ThreadState]
  BY ThreadNames DEF RefusalInv, IdsInRange, ATypeOK, ProcessTyped, ThreadsTyped
<1>1. /\ Silent
      /\ UNCHANGED <<conn, bound, store, members, buckets, groupmod, early>>
  BY DEF ClientConnects, ClientDisconnected, Arrive, LoadGroupId, StoreGroupId,
         Read, FindGroup
<1>2. CASE \/ ClientConnects \/ ClientDisconnected
           \/ \E n \in Arrivals : Arrive(n)
           \/ FindGroup
  <2>1. /\ thread[Client].pc \in {"connect", "loop", "find"}
        /\ \E step \in {"loop", "lost", "read", "insert"} : Goto(Client, step)
    BY <1>2 DEF ClientConnects, ClientDisconnected, Arrive, FindGroup, At
  <2>2. /\ thread'[Client].id <= MaxGroupId
        /\ thread'[Client].pc \in {"loop", "lost", "read", "insert"}
        /\ \A u \in Threads \ {Client} : thread'[u] = thread[u]
    BY <1>0, <2>1, GotoId
  <2> QED
    BY <1>1, <2>1, <2>2, QuietClient
<1>3. CASE LoadGroupId(Client) \/ StoreGroupId(Client)
  <2>1. /\ thread'[Client].id <= MaxGroupId
        /\ thread[Client].pc \in {"load", "store"}
        /\ thread'[Client].pc \in {"store", "find"}
        /\ \A u \in Threads \ {Client} : thread'[u] = thread[u]
    BY <1>0, <1>3, DrawnId
  <2> QED
    BY <1>1, <2>1, QuietClient
<1>4. CASE Read
  <2>1. thread[Client].pc = "read"
    BY <1>4 DEF Read, At
  <2>2. /\ thread'[Client].id <= MaxGroupId
        /\ thread'[Client].pc \in {"loop", "load"}
        /\ \A u \in Threads \ {Client} : thread'[u] = thread[u]
    <3>1. CASE Goto(Client, "loop")
      BY <1>0, <3>1, GotoId
    <3>2. CASE thread' = [thread EXCEPT ![Client] = Begin(RecordAt(taken))]
      <4>1. /\ Begin(RecordAt(taken)).id = 0
            /\ Begin(RecordAt(taken)).pc \in {"loop", "load"}
        BY DEF Begin, Idle
      <4> QED
        BY <1>0, <3>2, <4>1, BoundAssumption
    <3> QED
      BY <1>4, <3>1, <3>2 DEF Read
  <2> QED
    BY <1>1, <2>1, <2>2, QuietClient
<1> QED
  BY <1>2, <1>3, <1>4

\* The steps of main.
LEMMA MainRefusal ==
  ASSUME AInv, RefusalInv, Queue, dp' = dp,
         DatapathKnown \/ StopServer \/ StopClient
  PROVE  RefusalInv'
<1> USE DEF AInv, sessions, state, binding
<1>0. Main \in Threads /\ Client \in Threads /\ Main # Client
      /\ thread \in [Threads -> ThreadState]
      /\ \A t \in Threads : thread[t].id <= MaxGroupId
  BY ThreadNames DEF RefusalInv, IdsInRange, ATypeOK, ProcessTyped, ThreadsTyped
<1>1. /\ Silent
      /\ UNCHANGED <<bound, store, members, buckets, groupmod, early>>
  BY DEF DatapathKnown, StopServer, StopClient
<1>2. CASE DatapathKnown
  <2>1. /\ conn' = conn /\ thread[Main].pc = "poll"
        /\ thread' = [thread EXCEPT ![Main].pc = "wait", ![Client].pc = "connect"]
    BY <1>2 DEF DatapathKnown, At
  <2>2. /\ thread'[Main].pc = "wait" /\ thread'[Client].pc = "connect"
        /\ \A t \in Threads : thread'[t].id <= MaxGroupId
    <3>1. thread[Main] \in ThreadState /\ thread[Client] \in ThreadState
      BY <1>0
    <3>2. /\ thread'[Main] = [thread[Main] EXCEPT !.pc = "wait"]
          /\ thread'[Client] = [thread[Client] EXCEPT !.pc = "connect"]
          /\ \A t \in Threads \ {Main, Client} : thread'[t] = thread[t]
      BY <1>0, <2>1
    <3> QED
      BY <1>0, <3>1, <3>2 DEF ThreadState
  <2>3. thread[Client].pc # "send"
    BY <2>1 DEF RefusalInv, StartInv
  <2>4. StaysDown
    BY <2>1 DEF StaysDown
  <2> QED
    BY <1>1, <2>2, <2>3, <2>4, QuietRefusal
<1>3. CASE StopServer \/ StopClient
  <2>1. /\ \E step \in {"stop_client", "done"} : Goto(Main, step)
        /\ conn' = conn \/ conn' = [c \in Conns |-> "down"]
    BY <1>3 DEF StopServer, StopClient
  <2>2. /\ thread'[Main].pc # "poll"
        /\ thread'[Client] = thread[Client]
        /\ \A t \in Threads : thread'[t].id <= MaxGroupId
    BY <1>0, <2>1, GotoId
  <2>3. StaysDown
    BY <2>1 DEF StaysDown, ATypeOK, ProcessTyped
  <2> QED
    BY <1>1, <2>2, <2>3, QuietRefusal
<1> QED
  BY <1>2, <1>3

-----------------------------------------------------------------------------
(* Binding *)

\* While nobody is bound no group is installed.
LEMMA NothingInstalled ==
  ASSUME BoundInv, StartInv, bound = {}
  PROVE  InstalledIds = {}
<1>1. thread[Client].pc = "none"
  BY DEF BoundInv
<1>2. \A g \in GroupIPs : ~Installed(g)
  BY <1>1 DEF StartInv, Installed
<1> QED
  BY <1>2 DEF InstalledIds

\* Binding a connection on which nothing has been sent, before any group exists,
\* and binding a second one keep the invariant.
LEMMA BindRefusal ==
  ASSUME AInv, RefusalInv, Queue, dp' = dp, NEW c \in Conns, Bind(c)
  PROVE  RefusalInv'
<1> USE DEF AInv, sessions, state
<1>0. c \in Threads /\ \A t \in Threads : thread[t].id <= MaxGroupId
  BY ThreadNames DEF RefusalInv, IdsInRange
<1>1. /\ Goto(c, "identify") /\ bound' = bound \cup {c} /\ Silent
      /\ UNCHANGED <<conn, store, members, buckets, groupmod, early>>
  BY DEF Bind
<1>2. /\ thread'[c].id <= MaxGroupId
      /\ \A u \in Threads \ {c} : thread'[u] = thread[u]
  BY <1>0, <1>1, GotoId
<1>3. \A t \in Threads : thread'[t].id <= MaxGroupId
  BY <1>0, <1>2
<1>4. thread'[Main] = thread[Main] /\ thread'[Client] = thread[Client]
  BY <1>2, ThreadNames
<1>5. /\ IdsInRange' /\ StartInv' /\ ClientInv' /\ StateInv'
      /\ InstalledIds' = InstalledIds
      /\ IdsCollide' <=> IdsCollide
  BY <1>1, <1>3, <1>4, SessionsKept
<1>6. wire' = wire
  BY <1>1 DEF Queue, Silent
<1>7. Unsent'
  <2>1. IsFiniteSet(bound')
    BY <1>1, FS_AddElement DEF RefusalInv, Unsent
  <2> QED
    BY <1>1, <1>6, <2>1 DEF RefusalInv, Unsent, Has
<1>8. Explained'
  <2> SUFFICES ASSUME ~IdsCollide', ~early', NEW b \in Conns, bound' = {b}
               PROVE  WireAgrees(b)'
    BY DEF Explained
  <2>1. b = c
    BY <1>1
  <2>2. CASE c \in bound
    <3>1. bound = {c}
      BY <1>1, <2>1, <2>2
    <3>2. WireAgrees(c)
      BY <1>1, <1>5, <3>1 DEF RefusalInv, Explained
    <3> QED
      BY <1>1, <1>5, <1>6, <2>1, <3>2 DEF WireAgrees, Has
  <2>3. CASE c \notin bound
    <3>1. bound = {}
      BY <1>1, <2>1, <2>3
    <3>2. InstalledIds = {}
      BY <3>1, NothingInstalled DEF RefusalInv
    <3>3. wire[c] = <<>> /\ ~dp[c].refused /\ Has(dp[c]) = {}
      BY <2>3 DEF RefusalInv, Unsent
    <3>4. LeadTo(Has(dp[c]), wire[c], InstalledIds)
      BY <3>2, <3>3, LeadNowhere
    <3> QED
      BY <1>1, <1>5, <1>6, <2>1, <3>3, <3>4 DEF WireAgrees, Has
  <2> QED
    BY <2>2, <2>3
<1> QED
  BY <1>5, <1>7, <1>8 DEF RefusalInv

-----------------------------------------------------------------------------
(* The steps that send something *)

\* What is sent leads from the groups that the agent took for installed to those
\* it takes for installed now.
LEMMA SendKept ==
  ASSUME AInv, RefusalInv, Queue, dp' = dp, UNCHANGED <<conn, bound>>, bound # {},
         NEW ms \in Seq(Messages), Send(ms), IdsCollide => IdsCollide', early => early',
         ~IdsCollide' /\ ~early' => LeadTo(InstalledIds, ms, InstalledIds')
  PROVE  Unsent' /\ Explained'
<1> USE DEF AInv
<1>1. ofconn \in bound
  BY DEF BoundInv
<1>2. Unsent'
  BY <1>1, UnsentKept DEF RefusalInv
<1>3. Explained'
  <2> SUFFICES ASSUME ~IdsCollide', ~early', NEW c \in Conns, bound' = {c}
               PROVE  WireAgrees(c)'
    BY DEF Explained
  <2>1. ofconn = c
    BY <1>1
  <2>2. WireAgrees(c)
    BY DEF RefusalInv, Explained
  <2>3. out' = IF conn[c] = "up" THEN ms ELSE <<>>
    BY <2>1 DEF Send
  <2>4. out' \in Seq(Messages)
    BY <2>3
  <2>5. out' # <<>> => ofconn = c /\ conn'[c] = "up"
    BY <2>1, <2>3
  <2>6. conn'[c] = "up" => conn[c] = "up" /\ LeadTo(InstalledIds, out', InstalledIds')
    BY <2>3
  <2> QED
    BY <2>2, <2>4, <2>5, <2>6, WireKept
<1> QED
  BY <1>2, <1>3

\* The role request is refused by no switch.
LEMMA IdentifyRefusal ==
  ASSUME AInv, RefusalInv, Queue, dp' = dp, NEW c \in Conns, Identify(c)
  PROVE  RefusalInv'
<1> USE DEF AInv, sessions, state
<1>0. c \in Threads /\ \A t \in Threads : thread[t].id <= MaxGroupId
  BY ThreadNames DEF RefusalInv, IdsInRange
<1>1. /\ Goto(c, "idle") /\ Send(<<RoleRequest>>) /\ thread[c].pc = "identify"
      /\ UNCHANGED <<conn, bound, store, members, buckets, groupmod, early>>
  BY DEF Identify, At
<1>2. /\ thread'[c].id <= MaxGroupId
      /\ \A u \in Threads \ {c} : thread'[u] = thread[u]
  BY <1>0, <1>1, GotoId
<1>3. \A t \in Threads : thread'[t].id <= MaxGroupId
  BY <1>0, <1>2
<1>4. thread'[Main] = thread[Main] /\ thread'[Client] = thread[Client]
  BY <1>2, ThreadNames
<1>5. /\ IdsInRange' /\ StartInv' /\ ClientInv' /\ StateInv'
      /\ InstalledIds' = InstalledIds
      /\ IdsCollide' <=> IdsCollide
  BY <1>1, <1>3, <1>4, SessionsKept
<1>6. bound # {}
  BY <1>1 DEF BoundInv
<1>7. <<RoleRequest>> \in Seq(Messages)
  BY MessageTypes
<1>8. LeadTo(InstalledIds, <<RoleRequest>>, InstalledIds)
  <2>1. \A ids : Accepts(ids, RoleRequest) /\ Then(ids, RoleRequest) = ids
    BY DEF Accepts, Then, RoleRequest
  <2>2. LeadTo(InstalledIds, <<RoleRequest>>, Then(InstalledIds, RoleRequest))
    BY <2>1, LeadOne
  <2> QED
    BY <2>1, <2>2
<1>9. Unsent' /\ Explained'
  BY <1>1, <1>5, <1>6, <1>7, <1>8, SendKept
<1> QED
  BY <1>5, <1>9 DEF RefusalInv

-----------------------------------------------------------------------------
(* The creation of a group *)

\* Two messages and one more are three.
LEMMA TwoAndOne == \A a, b, c : <<a, b>> \o <<c>> = <<a, b, c>>
<1> SUFFICES ASSUME NEW a, NEW b, NEW c PROVE <<a, b>> \o <<c>> = <<a, b, c>>
  OBVIOUS
<1> DEFINE S == {a, b, c}
           s == <<a, b>> \o <<c>>
           t == <<a, b, c>>
<1>1. <<a, b>> \in Seq(S) /\ <<c>> \in Seq(S) /\ t \in Seq(S)
  OBVIOUS
<1>2. /\ s \in Seq(S) /\ Len(s) = 3
      /\ s[1] = a /\ s[2] = b /\ s[3] = c
  BY <1>1, ConcatProperties
<1>3. Len(t) = 3 /\ t[1] = a /\ t[2] = b /\ t[3] = c
  OBVIOUS
<1> HIDE DEF s, t
<1>4. \A k \in 1..Len(s) : s[k] = t[k]
  <2> SUFFICES ASSUME NEW k \in 1..3 PROVE s[k] = t[k]
    BY <1>2
  <2>1. k = 1 \/ k = 2 \/ k = 3
    OBVIOUS
  <2> QED
    BY <1>2, <1>3, <2>1
<1>5. s = t
  BY <1>1, <1>2, <1>3, <1>4, SeqEqual
<1> QED
  BY <1>5 DEF s, t

\* What create_group has still to send when it has inserted the session.
LEMMA CreationToSend ==
  ASSUME NEW g \in GroupIPs, NEW s \in Session
  PROVE  /\ ToSend(g, s, Creation(g, s))
         /\ s.is_root => Head(Creation(g, s)).type = "group"
<1> DEFINE gm == GroupMod("ADD", s.groupid, buckets[g])
           flow == FlowMod("ADD", DownstreamFlow(g, s))
           hook == HookFlowMod(g)
<1>1. Creation(g, s) = (IF s.is_root THEN <<gm, flow>> ELSE <<>>) \o <<hook>>
  BY DEF Creation
<1>2. gm.type = "group" /\ gm.buckets = buckets[g]
  BY DEF GroupMod
<1>3. gm = GroupMod("ADD", s.groupid, gm.buckets)
  BY <1>2
<1> HIDE DEF gm, hook
<1>4. CASE s.is_root
  <2>1. Creation(g, s) = <<gm, flow, hook>>
    BY <1>1, <1>4, TwoAndOne
  <2>2. Head(Creation(g, s)) = gm
    BY <2>1
  <2> QED
    BY <1>2, <1>3, <1>4, <2>1, <2>2 DEF ToSend, hook
<1>5. CASE ~s.is_root
  <2>1. Creation(g, s) = <<hook>>
    BY <1>1, <1>5
  <2> QED
    BY <1>5, <2>1 DEF ToSend, hook
<1> QED
  BY <1>4, <1>5

\* Inserting the session of a group that is not there installs nothing.
LEMMA InsertRefusal ==
  ASSUME AInv, RefusalInv, Queue, dp' = dp, InsertGroup
  PROVE  RefusalInv'
<1> USE DEF AInv
<1>1. thread[Client].pc = "insert" /\ Silent
  BY DEF InsertGroup, At
<1>2. PICK r \in Record : r = thread[Client].job
  BY <1>1 DEF ATypeOK, ProcessTyped, ThreadsTyped
<1>3. PICK s \in Session : s = Stored(r)
  BY StoredType DEF ATypeOK, ProcessTyped
<1>4. PICK sip \in GroupIPs : sip = r.sip
  BY DEF Record
<1>5. PICK todo : todo = Creation(sip, s)
  OBVIOUS
<1>6. /\ store' = [store EXCEPT ![sip] = s]
      /\ thread' = [thread EXCEPT ![Client].pc = "send", ![Client].todo = todo]
      /\ groupmod' = IF s.is_root
                     THEN [groupmod EXCEPT ![sip].group_id = s.groupid]
                     ELSE groupmod
      /\ UNCHANGED <<conn, bound, members, buckets, early>>
  BY <1>2, <1>3, <1>4, <1>5 DEF InsertGroup, Stored, binding
<1>7. thread[Client] \in ThreadState /\ Client \in Threads /\ Main # Client
      /\ Main \in Threads /\ thread \in [Threads -> ThreadState]
  BY ThreadNames DEF ATypeOK, ProcessTyped, ThreadsTyped
<1>8. /\ thread'[Client].pc = "send" /\ thread'[Client].todo = todo
      /\ thread'[Client].job = r /\ thread'[Client].id = thread[Client].id
      /\ \A u \in Threads \ {Client} : thread'[u] = thread[u]
  BY <1>2, <1>6, <1>7 DEF ThreadState
<1>9. /\ store'[sip] = s /\ s # NULL /\ store[sip] = NULL
      /\ \A g \in GroupIPs \ {sip} : store'[g] = store[g]
  BY <1>1, <1>2, <1>4, <1>6, NullAssumption
  DEF ATypeOK, ProcessTyped, TypeOK, HookInv, CreationInv
<1>10. /\ ToSend(sip, s, todo)
       /\ s.is_root => Head(todo).type = "group"
  BY <1>5, CreationToSend
<1>11. IdsInRange'
  <2>1. s.groupid = thread[Client].id /\ thread[Client].id \in 0..MaxGroupId
    <3>1. thread[Client].id \in Nat /\ thread[Client].id <= MaxGroupId
      BY <1>7, BoundAssumption DEF ThreadState, RefusalInv, IdsInRange
    <3> QED
      BY <1>3, <3>1, BoundAssumption DEF Stored
  <2>2. \A t \in Threads : thread'[t].id = thread[t].id
    BY <1>8
  <2> QED
    BY <1>9, <2>1, <2>2 DEF RefusalInv, IdsInRange
<1>12. StartInv'
  BY <1>1, <1>7, <1>8 DEF RefusalInv, StartInv
<1>13. ClientInv'
  BY <1>4, <1>8, <1>9, <1>10 DEF ClientInv, ToSend
<1>14. StateInv'
  <2>1. /\ \A g \in GroupIPs : groupmod'[g].buckets = groupmod[g].buckets
        /\ \A g \in GroupIPs \ {sip} : groupmod'[g] = groupmod[g]
        /\ s.is_root => groupmod'[sip].group_id = s.groupid
    BY <1>6 DEF ATypeOK, ProcessTyped, TypeOK
  <2>2. NoMembers(sip)
    BY <1>9 DEF RefusalInv, StateInv, GroupModInStep
  <2>3. GroupModInStep'
    BY <1>6, <1>9, <2>1, <2>2 DEF RefusalInv, StateInv, GroupModInStep, NoMembers
  <2> QED
    BY <1>6, <2>3 DEF RefusalInv, StateInv, BucketsMatchMembers, IndexPointsAtBucket,
         IndexesDistinct, EveryBucketOwned, MemberIntfs, IsMember
<1>15. \A g \in GroupIPs : Installed(g)' <=> Installed(g)
  <2>1. ASSUME NEW g \in GroupIPs, g # sip PROVE Installed(g)' <=> Installed(g)
    BY <1>1, <1>4, <1>6, <1>8, <1>9, <2>1 DEF Installed, Pending, NoMembers
  <2>2. ~Installed(sip)
    BY <1>9 DEF Installed
  <2>3. NoMembers(sip)'
    BY <1>6, <1>9 DEF RefusalInv, StateInv, GroupModInStep, NoMembers
  <2>4. ~Installed(sip)'
    BY <1>4, <1>8, <1>9, <1>10, <2>3 DEF Installed, Pending
  <2> QED
    BY <2>1, <2>2, <2>4
<1>16. InstalledIds' = InstalledIds
  <2>1. \A g \in GroupIPs : Installed(g) => store'[g].groupid = store[g].groupid
    BY <1>9 DEF Installed
  <2> QED
    BY <1>15, <2>1 DEF InstalledIds
<1>17. IdsCollide => IdsCollide'
  <2>1. \A g \in GroupIPs : store[g] # NULL => store'[g] = store[g]
    BY <1>9
  <2> QED
    BY <2>1 DEF IdsCollide
<1>18. Unsent' /\ Explained'
  <2>1. bound # {}
    BY <1>1 DEF BoundInv
  <2>2. Send(<<>>)
    BY <1>1 DEF Silent, Send
  <2>3. <<>> \in Seq(Messages)
    OBVIOUS
  <2>4. LeadTo(InstalledIds, <<>>, InstalledIds')
    BY <1>16, LeadNowhere
  <2> QED
    BY <1>6, <1>17, <2>1, <2>2, <2>3, <2>4, SendKept
<1> QED
  BY <1>11, <1>12, <1>13, <1>14, <1>18 DEF RefusalInv

\* The id of an installed group is one of no other group, ...
LEMMA GroupComes ==
  ASSUME ~IdsCollide, store' = store, NEW g \in GroupIPs, store[g] # NULL,
         ~Installed(g), Installed(g)',
         \A h \in GroupIPs \ {g} : Installed(h)' <=> Installed(h)
  PROVE  /\ store[g].groupid \notin InstalledIds
         /\ InstalledIds' = InstalledIds \cup {store[g].groupid}
<1>1. \A h \in GroupIPs : Installed(h) => h # g /\ store[h] # NULL
  BY DEF Installed
<1>2. store[g].groupid \notin InstalledIds
  BY <1>1 DEF InstalledIds, IdsCollide
<1>3. \A h \in GroupIPs : Installed(h)' <=> h = g \/ Installed(h)
  OBVIOUS
<1>4. InstalledIds' = InstalledIds \cup {store[g].groupid}
  BY <1>3 DEF InstalledIds
<1> QED
  BY <1>2, <1>4

\* ... and goes when the group goes.
LEMMA GroupGoes ==
  ASSUME ~IdsCollide, store' = store, NEW g \in GroupIPs, store[g] # NULL,
         Installed(g), ~Installed(g)',
         \A h \in GroupIPs \ {g} : Installed(h)' <=> Installed(h)
  PROVE  InstalledIds' = InstalledIds \ {store[g].groupid}
<1>1. \A h \in GroupIPs : Installed(h)' <=> h # g /\ Installed(h)
  OBVIOUS
<1>2. \A h \in GroupIPs : Installed(h) => store[h] # NULL
  BY DEF Installed
<1>3. \A h \in GroupIPs : Installed(h) /\ store[h].groupid = store[g].groupid => h = g
  BY <1>2 DEF IdsCollide
<1> QED
  BY <1>1, <1>3 DEF InstalledIds

\* The group of a session that stays installed is in the switch.
LEMMA GroupStays ==
  ASSUME store' = store, NEW g \in GroupIPs, Installed(g),
         \A h \in GroupIPs : Installed(h)' <=> Installed(h)
  PROVE  store[g].groupid \in InstalledIds /\ InstalledIds' = InstalledIds
  BY DEF InstalledIds

\* What the client sends of a group it has inserted is refused by no switch that
\* has what the agent takes for installed: the group-mod because its id is that
\* of no other session, the flow because the group is there by then.
LEMMA SendNextRefusal ==
  ASSUME AInv, RefusalInv, Queue, dp' = dp, SendNext
  PROVE  RefusalInv'
<1> USE DEF AInv
<1>1. thread[Client].pc = "send"
  BY DEF SendNext, At
<1>2. PICK todo \in Seq(Messages) : todo = thread[Client].todo
  BY ThreadNames DEF ATypeOK, ProcessTyped, ThreadsTyped, ThreadState
<1>3. PICK sip \in GroupIPs : sip = thread[Client].job.sip
  BY <1>1 DEF ATypeOK, ProcessTyped, ThreadsTyped, Record
<1>4. store[sip] # NULL /\ todo # <<>>
  BY <1>1, <1>2, <1>3 DEF HookInv, CreationInv
<1>5. PICK s \in Session : s = store[sip]
  BY <1>4 DEF ATypeOK, ProcessTyped, TypeOK
<1>6. ToSend(sip, s, todo)
  BY <1>1, <1>2, <1>3, <1>5 DEF RefusalInv, ClientInv
<1>7. s.groupid \in 0..MaxGroupId
  BY <1>4, <1>5 DEF RefusalInv, IdsInRange
<1>7a. PICK m0 \in Messages : m0 = Head(todo)
  BY <1>4
<1>8. PICK m \in Messages : m = Packed(m0, sip)
  BY PackedType DEF ATypeOK, ProcessTyped
<1>8a. /\ m.type = m0.type
       /\ m.type # "group" => m = m0
       /\ m.type = "group" => m.command = m0.command /\ m.group = m0.group
  BY <1>8, PackedType DEF ATypeOK, ProcessTyped
<1>9. PICK rest \in Seq(Messages) : rest = Tail(todo)
  BY <1>4, HeadTailProperties
<1>10. PICK step : step = IF rest = <<>> THEN "loop" ELSE "send"
  OBVIOUS
<1>11. /\ thread' = [thread EXCEPT ![Client].todo = rest, ![Client].pc = step]
       /\ Send(<<m>>)
       /\ UNCHANGED <<conn, bound, store, members, buckets, groupmod, early>>
  BY <1>2, <1>3, <1>7a, <1>8, <1>9, <1>10 DEF SendNext, binding, sessions, state
<1>12. /\ thread'[Client].pc = step /\ thread'[Client].todo = rest
       /\ thread'[Client].job = thread[Client].job
       /\ thread'[Client].id = thread[Client].id
       /\ \A u \in Threads \ {Client} : thread'[u] = thread[u]
  <2>1. thread[Client] \in ThreadState /\ Client \in Threads
    BY ThreadNames DEF ATypeOK, ProcessTyped, ThreadsTyped
  <2> QED
    BY <1>11, <2>1 DEF ThreadState, ATypeOK, ProcessTyped, ThreadsTyped
<1>13. IdsInRange'
  <2>1. \A t \in Threads : thread'[t].id = thread[t].id
    BY <1>12
  <2> QED
    BY <1>11, <2>1 DEF RefusalInv, IdsInRange
<1>14. StartInv'
  BY <1>1, <1>10, <1>12, ThreadNames DEF RefusalInv, StartInv
<1>15. StateInv'
  BY <1>11 DEF RefusalInv, StateInv, BucketsMatchMembers, IndexPointsAtBucket,
         IndexesDistinct, EveryBucketOwned, MemberIntfs, IsMember,
         GroupModInStep, NoMembers
<1>17. bound # {} /\ <<m>> \in Seq(Messages)
  BY <1>1 DEF BoundInv
<1>18. IdsCollide => IdsCollide'
  BY <1>11 DEF IdsCollide
<1>19. /\ Pending(sip) <=> m.type = "group"
       /\ Pending(sip)' <=> step = "send" /\ Head(rest).type = "group"
       /\ \A g \in GroupIPs \ {sip} : ~Pending(g) /\ ~Pending(g)'
  BY <1>1, <1>2, <1>3, <1>7a, <1>8a, <1>12 DEF Pending
<1> DEFINE flow == FlowMod("ADD", DownstreamFlow(sip, s))
           hook == HookFlowMod(sip)
           gm   == GroupMod("ADD", s.groupid, m0.buckets)
<1>20. /\ hook.type = "hook" /\ flow.type = "flow" /\ gm.type = "group"
       /\ gm.command = "ADD" /\ gm.group = s.groupid
       /\ flow.command = "ADD" /\ flow.flow.group = s.groupid
  BY DEF HookFlowMod, FlowMod, GroupMod, DownstreamFlow
<1>21. ToSend(sip, s, rest) \/ rest = <<>>
  <2>1. CASE todo = <<hook>>
    BY <1>9, <2>1
  <2>2. CASE s.is_root /\ todo = <<flow, hook>>
    <3>1. rest = <<hook>>
      BY <1>9, <2>2
    <3> QED
      BY <3>1 DEF ToSend
  <2>3. CASE s.is_root /\ todo = <<gm, flow, hook>>
    <3>1. rest = <<flow, hook>>
      BY <1>9, <2>3
    <3> QED
      BY <2>3, <3>1 DEF ToSend
  <2> QED
    BY <1>6, <1>7a, <2>1, <2>2, <2>3 DEF ToSend
<1>22. ClientInv'
  <2>1. /\ thread'[Client].job.sip = sip /\ store'[sip] = s
        /\ thread'[Client].todo = rest
    BY <1>3, <1>5, <1>11, <1>12
  <2>2. thread'[Client].pc = "send" => ToSend(sip, s, rest)
    BY <1>10, <1>12, <1>21
  <2> QED
    BY <2>1, <2>2 DEF ClientInv, ToSend
<1>23. ASSUME ~IdsCollide', ~early' PROVE LeadTo(InstalledIds, <<m>>, InstalledIds')
  <2>0. ~IdsCollide
    BY <1>18, <1>23
  <2>1. \A g \in GroupIPs \ {sip} : Installed(g)' <=> Installed(g)
    BY <1>11, <1>19 DEF Installed, NoMembers
  <2>2. ASSUME m = hook \/ (s.is_root /\ m = flow), ~Pending(sip)'
        PROVE  InstalledIds' = InstalledIds /\ ~Pending(sip)
    <3>1. ~Pending(sip)
      BY <1>19, <1>20, <2>2
    <3>2. Installed(sip)' <=> Installed(sip)
      BY <1>11, <2>2, <3>1 DEF Installed, NoMembers
    <3> QED
      BY <1>11, <2>1, <3>1, <3>2 DEF InstalledIds
  <2>3. CASE todo = <<hook>>
    <3>1. m = hook /\ rest = <<>>
      BY <1>7a, <1>8a, <1>9, <1>20, <2>3
    <3>2. InstalledIds' = InstalledIds
      BY <1>10, <1>19, <2>2, <3>1
    <3>3. Accepts(InstalledIds, m) /\ Then(InstalledIds, m) = InstalledIds
      BY <1>20, <3>1 DEF Accepts, Then
    <3> QED
      BY <3>2, <3>3, LeadOne
  <2>4. CASE s.is_root /\ todo = <<flow, hook>>
    <3>1. m = flow /\ rest = <<hook>> /\ Head(rest) = hook
      BY <1>7a, <1>8a, <1>9, <1>20, <2>4
    <3>2. InstalledIds' = InstalledIds /\ ~Pending(sip)
      BY <1>19, <1>20, <2>2, <2>4, <3>1
    <3>3. s.groupid \in InstalledIds
      BY <1>4, <1>5, <2>4, <3>2 DEF InstalledIds, Installed
    <3>4. Accepts(InstalledIds, m) /\ Then(InstalledIds, m) = InstalledIds
      BY <1>20, <3>1, <3>3 DEF Accepts, Then
    <3> QED
      BY <3>2, <3>4, LeadOne
  <2>5. CASE s.is_root /\ todo = <<gm, flow, hook>>
    <3>1. m0 = gm /\ rest = <<flow, hook>> /\ Head(rest) = flow
      BY <1>7a, <1>9, <2>5
    <3>2. Pending(sip) /\ ~Pending(sip)'
      BY <1>8a, <1>19, <1>20, <3>1
    <3>3. ~Installed(sip) /\ Installed(sip)'
      BY <1>4, <1>5, <1>11, <2>5, <3>2 DEF Installed
    <3>4. /\ s.groupid \notin InstalledIds
          /\ InstalledIds' = InstalledIds \cup {s.groupid}
      BY <1>4, <1>5, <1>11, <2>0, <2>1, <3>3, GroupComes
    <3>5. m.type = "group" /\ m.command = "ADD" /\ m.group = s.groupid
      BY <1>8a, <1>20, <3>1
    <3>6. Accepts(InstalledIds, m) /\ Then(InstalledIds, m) = InstalledIds'
      BY <1>7, <3>4, <3>5 DEF Accepts, Then
    <3> QED
      BY <3>6, LeadOne
  <2> QED
    BY <1>6, <1>7a, <2>3, <2>4, <2>5 DEF ToSend
<1>24. Unsent' /\ Explained'
  BY <1>11, <1>17, <1>18, <1>23, SendKept
<1> QED
  BY <1>13, <1>14, <1>15, <1>22, <1>24 DEF RefusalInv

-----------------------------------------------------------------------------
(* Joins and leaves *)

\* A step of a worker that sends nothing leads from what is installed to what
\* stays installed.
LEMMA SilentLeads ==
  ASSUME out' = <<>>, InstalledIds' = InstalledIds
  PROVE  \E ms \in Seq(Messages) : Send(ms) /\ LeadTo(InstalledIds, ms, InstalledIds')
<1>1. Send(<<>>) /\ <<>> \in Seq(Messages)
  BY DEF Send
<1>2. LeadTo(InstalledIds, <<>>, InstalledIds')
  BY LeadNowhere
<1> QED
  BY <1>1, <1>2

\* One group-mod of the group of an installed session.
LEMMA ModifyLeads ==
  ASSUME NEW g \in GroupIPs, store' = store, Installed(g),
         store[g].groupid \in 0..MaxGroupId,
         \A h \in GroupIPs : Installed(h)' <=> Installed(h),
         NEW id, id = store[g].groupid, NEW bs \in Seq(Bucket),
         Send(<<GroupMod("MODIFY", id, bs)>>)
  PROVE  \E ms \in Seq(Messages) : Send(ms) /\ LeadTo(InstalledIds, ms, InstalledIds')
<1> DEFINE m == GroupMod("MODIFY", id, bs)
<1>1. id \in Nat
  BY BoundAssumption
<1>2. m \in Messages
  BY <1>1, MessageTypes
<1>3. m.type = "group" /\ m.command = "MODIFY" /\ m.group = id
  BY DEF GroupMod
<1> HIDE DEF m
<1>4. id \in InstalledIds /\ InstalledIds' = InstalledIds
  BY GroupStays
<1>5. Accepts(InstalledIds, m) /\ Then(InstalledIds, m) = InstalledIds'
  BY <1>3, <1>4 DEF Accepts, Then
<1>6. LeadTo(InstalledIds, <<m>>, InstalledIds')
  BY <1>5, LeadOne
<1>7. PICK ms \in Seq(Messages) : ms = <<m>>
  <2>1. <<m>> \in Seq(Messages)
    BY <1>2
  <2> QED
    BY <2>1
<1>8. Send(ms) /\ LeadTo(InstalledIds, ms, InstalledIds')
  BY <1>6, <1>7 DEF m
<1> QED
  BY <1>8

\* What a step does to the members of g alone is all that can install g or
\* remove it.
LEMMA OthersInstalled ==
  ASSUME UNCHANGED <<store, thread[Client]>>, NEW g \in GroupIPs, store[g] # NULL, ~Pending(g),
         \A h \in GroupIPs \ {g} : members'[h] = members[h]
  PROVE  /\ \A h \in GroupIPs \ {g} : Installed(h)' <=> Installed(h)
         /\ Installed(g) <=> store[g].is_root \/ ~NoMembers(g)
         /\ Installed(g)' <=> store[g].is_root \/ ~NoMembers(g)'
<1>1. \A h \in GroupIPs : Pending(h)' <=> Pending(h)
  BY DEF Pending
<1>2. \A h \in GroupIPs \ {g} : Installed(h)' <=> Installed(h)
  BY <1>1 DEF Installed, NoMembers
<1> QED
  BY <1>1, <1>2 DEF Installed, NoMembers

\* What a join sends.
LEMMA JoinLeads ==
  ASSUME AgentInv, UNCHANGED thread[Client], NEW g \in GroupIPs, store[g] # NULL, ~Pending(g),
         NEW i \in Intfs, NEW h \in Hosts, Join(g, i, h), ~IdsCollide,
         store[g].groupid \in 0..MaxGroupId
  PROVE  \E ms \in Seq(Messages) : Send(ms) /\ LeadTo(InstalledIds, ms, InstalledIds')
<1> DEFINE m == [host |-> h, intf |-> MemberIntf(i), bucket_index |-> Len(buckets[g])]
           gm == groupmod'[g]
<1>0. TypeOK /\ store' = store /\ store[g] # NULL /\ store[g] \in Session
  BY DEF AgentInv, Join, TypeOK
<1>1. CASE out' = <<>> /\ UNCHANGED members
  <2>1. \A f \in GroupIPs : Installed(f)' <=> Installed(f)
    BY <1>0, <1>1 DEF Installed, Pending, NoMembers
  <2>2. InstalledIds' = InstalledIds
    BY <1>0, <2>1 DEF InstalledIds
  <2> QED
    BY <1>1, <2>2, SilentLeads
<1>2. CASE ~IsMember(g, i) /\ AddMember(g, i, m)
           /\ \/ IsFirst(g) /\ Send(InstallMessages(g, gm))
              \/ ~IsFirst(g) /\ Send(<<GroupMod("MODIFY", gm.group_id, gm.buckets)>>)
  <2>1. m \in Member /\ BucketOf(m) \in Bucket /\ m # NULL
    BY <1>0, NewMemberType, NullAssumption
  <2>2. /\ members' = [members EXCEPT ![g][i] = m]
        /\ groupmod' = [groupmod EXCEPT
             ![g] = [group_id |-> store[g].groupid,
                     buckets |-> Append(@.buckets, BucketOf(m))]]
    BY <1>2 DEF AddMember
  <2> HIDE DEF m
  <2>3. /\ ~NoMembers(g)'
        /\ \A f \in GroupIPs \ {g} : members'[f] = members[f]
    BY <1>0, <2>1, <2>2 DEF TypeOK, NoMembers
  <2>4. gm.group_id = store[g].groupid /\ gm.buckets \in Seq(Bucket)
    <3>1. groupmod[g].buckets \in Seq(Bucket)
      BY <1>0 DEF TypeOK
    <3>2. Append(groupmod[g].buckets, BucketOf(m)) \in Seq(Bucket)
      BY <2>1, <3>1, AppendProperties
    <3> QED
      BY <1>0, <2>2, <3>2 DEF TypeOK
  <2>5. /\ \A f \in GroupIPs \ {g} : Installed(f)' <=> Installed(f)
        /\ Installed(g) <=> store[g].is_root \/ ~NoMembers(g)
        /\ Installed(g)'
    BY <1>0, <2>3, OthersInstalled
  <2> HIDE DEF gm
  <2>6. CASE IsFirst(g) /\ Send(InstallMessages(g, gm))
    <3>1. ~Installed(g)
      BY <2>5, <2>6 DEF IsFirst
    <3>2. /\ store[g].groupid \notin InstalledIds
          /\ InstalledIds' = InstalledIds \cup {store[g].groupid}
      BY <1>0, <2>5, <3>1, GroupComes
    <3> DEFINE a == PacketOut(g, "join")
               b == GroupMod("ADD", gm.group_id, gm.buckets)
               c == FlowMod("ADD", DownstreamFlow(g, store[g]))
    <3>3. a \in Messages /\ b \in Messages /\ c \in Messages
      BY <1>0, <2>4, MessageTypes DEF Session
    <3>4. /\ a.type = "packet_out"
          /\ b.type = "group" /\ b.command = "ADD" /\ b.group = store[g].groupid
          /\ c.type = "flow" /\ c.command = "ADD" /\ c.flow.group = store[g].groupid
      BY <2>4 DEF PacketOut, GroupMod, FlowMod, DownstreamFlow
    <3>5. InstallMessages(g, gm) = <<a, b, c>>
      BY DEF InstallMessages
    <3> HIDE DEF a, b, c
    <3>6. Accepts(InstalledIds, a) /\ InstalledIds = Then(InstalledIds, a)
      BY <3>4 DEF Accepts, Then
    <3>7. Accepts(InstalledIds, b) /\ InstalledIds' = Then(InstalledIds, b)
      BY <3>2, <3>4 DEF Accepts, Then
    <3>8. PICK ids : ids = InstalledIds'
      OBVIOUS
    <3>9. Accepts(ids, c) /\ ids = Then(ids, c)
      BY <3>2, <3>4, <3>8 DEF Accepts, Then
    <3>10. LeadTo(InstalledIds, <<a, b, c>>, ids)
      BY <3>6, <3>7, <3>8, <3>9, LeadThree
    <3>11. PICK ms \in Seq(Messages) : ms = <<a, b, c>>
      <4>1. <<a, b, c>> \in Seq(Messages)
        BY <3>3
      <4> QED
        BY <4>1
    <3>12. Send(ms) /\ LeadTo(InstalledIds, ms, InstalledIds')
      BY <2>6, <3>5, <3>8, <3>10, <3>11
    <3> QED
      BY <3>12
  <2>7. CASE ~IsFirst(g) /\ Send(<<GroupMod("MODIFY", gm.group_id, gm.buckets)>>)
    <3>1. Installed(g)
      BY <2>5, <2>7 DEF IsFirst
    <3>2. \A f \in GroupIPs : Installed(f)' <=> Installed(f)
      BY <2>5, <3>1
    <3> QED
      BY <1>0, <2>4, <2>7, <3>1, <3>2, ModifyLeads
  <2> QED
    BY <1>2, <2>6, <2>7 DEF gm
<1> QED
  BY <1>1, <1>2 DEF Join

\* What a leave sends.
LEMMA LeaveLeads ==
  ASSUME AgentInv, UNCHANGED thread[Client], NEW g \in GroupIPs, store[g] # NULL, ~Pending(g),
         NEW i \in Intfs, Leave(g, i), ~IdsCollide,
         store[g].groupid \in 0..MaxGroupId
  PROVE  \E ms \in Seq(Messages) : Send(ms) /\ LeadTo(InstalledIds, ms, InstalledIds')
<1> DEFINE gm == groupmod'[g]
<1>0. TypeOK /\ store' = store /\ store[g] # NULL /\ store[g] \in Session
  BY DEF AgentInv, Leave, TypeOK
<1>1. CASE out' = <<>> /\ UNCHANGED members
  <2>1. \A f \in GroupIPs : Installed(f)' <=> Installed(f)
    BY <1>0, <1>1 DEF Installed, Pending, NoMembers
  <2>2. InstalledIds' = InstalledIds
    BY <1>0, <2>1 DEF InstalledIds
  <2> QED
    BY <1>1, <2>2, SilentLeads
<1>2. CASE IsMember(g, i) /\ RemoveMember(g, i)
           /\ \/ IsLast(g, i) /\ Send(RemoveMessages(g, gm))
              \/ ~IsLast(g, i) /\ Send(<<GroupMod("MODIFY", gm.group_id, gm.buckets)>>)
  <2>1. PICK ms \in [Intfs -> Member \cup {NULL}] : ms = members[g]
    BY <1>0 DEF TypeOK
  <2>2. /\ members'[g] = Reindexed(ms, i)
        /\ \A f \in GroupIPs \ {g} : members'[f] = members[f]
    BY <1>0, <1>2, <2>1 DEF RemoveMember, TypeOK
  <2>3. ms[i] # NULL /\ ~NoMembers(g)
    BY <1>2, <2>1 DEF IsMember, NoMembers
  <2>4. \A j \in Intfs : Reindexed(ms, i)[j] = NULL <=> j = i \/ ms[j] = NULL
    BY <2>3, ReindexedEmpties
  <2>5. NoMembers(g)' <=> \A j \in Intfs \ {i} : ms[j] = NULL
    BY <2>2, <2>4 DEF NoMembers
  <2>6. gm.group_id = store[g].groupid /\ gm.buckets \in Seq(Bucket)
    <3>1. groupmod'[g].buckets \in Seq(Bucket)
      BY <1>0, <1>2, RemoveMemberType
    <3>2. groupmod'[g].group_id = groupmod[g].group_id
      BY <1>0, <1>2 DEF RemoveMember, TypeOK
    <3>3. groupmod[g].group_id = store[g].groupid
      BY <1>0, <2>3 DEF AgentInv, StateInv, GroupModInStep
    <3> QED
      BY <3>1, <3>2, <3>3
  <2>7. /\ \A f \in GroupIPs \ {g} : Installed(f)' <=> Installed(f)
        /\ Installed(g)
        /\ Installed(g)' <=> store[g].is_root \/ ~NoMembers(g)'
    BY <1>0, <2>2, <2>3, OthersInstalled
  <2> HIDE DEF gm
  <2>8. CASE IsLast(g, i) /\ Send(RemoveMessages(g, gm))
    <3>1. ~Installed(g)'
      BY <2>1, <2>5, <2>7, <2>8 DEF IsLast
    <3>2. InstalledIds' = InstalledIds \ {store[g].groupid}
      BY <1>0, <2>7, <3>1, GroupGoes
    <3> DEFINE a == PacketOut(g, "leave")
               b == FlowMod("DELETE", DownstreamFlow(g, store[g]))
               c == GroupMod("DELETE", gm.group_id, gm.buckets)
    <3>3. a \in Messages /\ b \in Messages /\ c \in Messages
      BY <1>0, <2>6, MessageTypes DEF Session
    <3>4. /\ a.type = "packet_out"
          /\ b.type = "flow" /\ b.command = "DELETE"
          /\ c.type = "group" /\ c.command = "DELETE" /\ c.group = store[g].groupid
      BY <2>6 DEF PacketOut, GroupMod, FlowMod
    <3>5. RemoveMessages(g, gm) = <<a, b, c>>
      BY DEF RemoveMessages
    <3> HIDE DEF a, b, c
    <3>6. Accepts(InstalledIds, a) /\ InstalledIds = Then(InstalledIds, a)
      BY <3>4 DEF Accepts, Then
    <3>7. Accepts(InstalledIds, b) /\ InstalledIds = Then(InstalledIds, b)
      BY <3>4 DEF Accepts, Then
    <3>8. Accepts(InstalledIds, c) /\ InstalledIds' = Then(InstalledIds, c)
      BY <3>2, <3>4 DEF Accepts, Then
    <3>9. LeadTo(InstalledIds, <<a, b, c>>, InstalledIds')
      BY <3>6, <3>7, <3>8, LeadThree
    <3>10. PICK all \in Seq(Messages) : all = <<a, b, c>>
      <4>1. <<a, b, c>> \in Seq(Messages)
        BY <3>3
      <4> QED
        BY <4>1
    <3>11. Send(all) /\ LeadTo(InstalledIds, all, InstalledIds')
      BY <2>8, <3>5, <3>9, <3>10
    <3> QED
      BY <3>11
  <2>9. CASE ~IsLast(g, i) /\ Send(<<GroupMod("MODIFY", gm.group_id, gm.buckets)>>)
    <3>1. Installed(g)'
      BY <2>1, <2>5, <2>7, <2>9 DEF IsLast
    <3>2. \A f \in GroupIPs : Installed(f)' <=> Installed(f)
      BY <2>7, <3>1
    <3> QED
      BY <1>0, <2>6, <2>7, <2>9, <3>2, ModifyLeads
  <2> QED
    BY <1>2, <2>8, <2>9 DEF gm
<1> QED
  BY <1>1, <1>2 DEF Leave

\* A worker serves a join or a leave of a session that is stored, and unless it
\* is too early for the group what it sends leads from the groups that were
\* installed to those that are.
LEMMA JoinOrLeaveRefusal ==
  ASSUME AInv, RefusalInv, Queue, dp' = dp, NEW c \in Conns, JoinOrLeave(c)
  PROVE  RefusalInv'
<1> USE DEF AInv
<1>0. /\ TypeOK /\ thread \in [Threads -> ThreadState] /\ c \in Threads
      /\ thread[c].pc = "act" /\ AgentInv
  BY ThreadNames DEF JoinOrLeave, At, ATypeOK, ProcessTyped, ThreadsTyped,
     RefusalInv, StateInv, AgentInv
<1>1. PICK p \in Packet : p = thread[c].job
  BY <1>0 DEF ATypeOK, ProcessTyped, ThreadsTyped
<1>2. PICK g \in GroupIPs : g = thread[c].key /\ store[g] # NULL
  BY <1>0 DEF KeysTyped
<1>3. p.intf \in Intfs /\ p.host \in Hosts
  BY <1>0, <1>1, PacketFields DEF KeysTyped
<1>4. /\ \/ /\ Join(g, p.intf, p.host) \/ Leave(g, p.intf)
            /\ early' = (early \/ Pending(g))
         \/ Silent /\ UNCHANGED <<state, early>>
      /\ thread' = [thread EXCEPT ![c] = Idle]
      /\ UNCHANGED <<conn, bound>>
  BY <1>1, <1>2 DEF JoinOrLeave, binding
<1>5. /\ thread'[c].id = 0
      /\ \A u \in Threads \ {c} : thread'[u] = thread[u]
      /\ thread'[Main] = thread[Main] /\ thread'[Client] = thread[Client]
  BY <1>0, <1>4, ThreadNames DEF Idle
<1>6. bound # {}
  BY <1>2 DEF RefusalInv, StartInv, BoundInv
<1>7. \A t \in Threads : thread'[t].id <= MaxGroupId
  BY <1>5, BoundAssumption DEF RefusalInv, IdsInRange
<1>8. CASE Silent /\ UNCHANGED <<state, early>>
  <2>1. UNCHANGED <<store, members, buckets, groupmod>> /\ StaysDown
    BY <1>4, <1>8 DEF state, StaysDown
  <2>2. thread'[c].id <= MaxGroupId
    BY <1>7, <1>0
  <2> QED
    BY <1>4, <1>5, <1>8, <2>1, <2>2, QuietWorker
<1>9. ASSUME NEW i \in Intfs, NEW h \in Hosts, Join(g, i, h) \/ Leave(g, i),
             early' = (early \/ Pending(g))
      PROVE  RefusalInv'
  <2>1. store[g].groupid \in 0..MaxGroupId
    BY <1>2 DEF RefusalInv, IdsInRange
  <2>2. store' = store
    BY <1>9 DEF Join, Leave
  <2>3. StateInv'
    BY <1>0, <1>2, <1>9, JoinState, LeaveState
  <2>4. IdsInRange' /\ StartInv'
    BY <1>5, <1>7, <2>2 DEF RefusalInv, IdsInRange, StartInv
  <2>5. ClientInv'
    BY <1>5, <2>2 DEF RefusalInv, ClientInv, ToSend
  <2>6. IdsCollide' <=> IdsCollide
    BY <2>2 DEF IdsCollide
  <2>7. CASE ~IdsCollide /\ ~early'
    <3>1. ~Pending(g)
      BY <1>9, <2>7
    <3>2. \E ms \in Seq(Messages) :
            Send(ms) /\ LeadTo(InstalledIds, ms, InstalledIds')
      BY <1>0, <1>2, <1>5, <1>9, <2>1, <2>7, <3>1, JoinLeads, LeaveLeads
    <3>3. Unsent' /\ Explained'
      BY <1>4, <1>6, <1>9, <2>6, <3>2, SendKept
    <3> QED
      BY <2>3, <2>4, <2>5, <3>3 DEF RefusalInv
  <2>8. CASE IdsCollide \/ early'
    <3>1. Explained'
      BY <2>6, <2>8 DEF Explained
    <3>2. Unsent'
      BY <1>4, <1>6, UnsentKept DEF BoundInv, RefusalInv
    <3> QED
      BY <2>3, <2>4, <2>5, <3>1, <3>2 DEF RefusalInv
  <2> QED
    BY <2>7, <2>8
<1> QED
  BY <1>3, <1>4, <1>8, <1>9

-----------------------------------------------------------------------------
(* The switch *)

\* A message that the switch processes is accepted, and the rest of the
\* connection goes on from where it leads.
LEMMA DeliverRefusal ==
  ASSUME AInv, RefusalInv, NEW c \in Conns, Deliver(c)
  PROVE  RefusalInv'
<1> USE DEF AInv, sessions, state, binding
<1>1. UNCHANGED <<conn, bound, store, members, buckets, groupmod, early, thread>>
  BY DEF Deliver
<1>2. PICK ms \in Seq(Messages) : ms = wire[c]
  BY DEF ATypeOK
<1>3. PICK m \in Messages : m = Head(ms)
  BY <1>2 DEF Deliver
<1>4. PICK rest \in Seq(Messages) : rest = Tail(ms)
  BY <1>2, HeadTailProperties DEF Deliver
<1>5. /\ ms # <<>>
      /\ dp'[c] = Switch!Apply(dp[c], m) /\ wire'[c] = rest
      /\ \A b \in Conns \ {c} : dp'[b] = dp[b] /\ wire'[b] = wire[b]
      /\ dp[c] \in DatapathType
  BY <1>2, <1>3, <1>4 DEF Deliver, ATypeOK
<1>6. c \in bound
  BY <1>2, <1>5 DEF RefusalInv, Unsent
<1>7. /\ IdsInRange' /\ StartInv' /\ ClientInv' /\ StateInv'
      /\ InstalledIds' = InstalledIds
      /\ IdsCollide' <=> IdsCollide
  <2>1. \A t \in Threads : thread'[t].id <= MaxGroupId
    BY <1>1 DEF RefusalInv, IdsInRange
  <2> QED
    BY <1>1, <2>1, SessionsKept
<1>8. Unsent'
  <2>1. \A b \in Conns \ bound :
          wire'[b] = <<>> /\ ~dp'[b].refused /\ Has(dp'[b]) = {}
    BY <1>5, <1>6 DEF RefusalInv, Unsent
  <2> QED
    BY <1>1, <2>1 DEF RefusalInv, Unsent, Has
<1>9. Explained'
  <2> SUFFICES ASSUME ~IdsCollide', ~early', NEW b \in Conns, bound' = {b}
               PROVE  WireAgrees(b)'
    BY DEF Explained
  <2>1. b = c /\ WireAgrees(c)
    BY <1>1, <1>6, <1>7 DEF RefusalInv, Explained
  <2>2. PICK end : /\ LeadTo(Has(dp[c]), ms, end)
                   /\ conn[c] = "up" => end = InstalledIds
    BY <1>2, <2>1 DEF WireAgrees
  <2>3. Accepts(Has(dp[c]), m) /\ LeadTo(Then(Has(dp[c]), m), rest, end)
    BY <1>3, <1>4, <1>5, <2>2, LeadFirst
  <2>4. PICK d : d = Switch!Apply(dp[c], m)
    OBVIOUS
  <2>5. ~d.refused /\ Has(d) = Then(Has(dp[c]), m)
    BY <1>5, <2>1, <2>3, <2>4, ApplyAccepted DEF WireAgrees
  <2>6. ~dp'[c].refused /\ LeadTo(Has(dp'[c]), wire'[c], end)
    BY <1>5, <2>3, <2>4, <2>5
  <2>7. conn'[c] = "up" => end = InstalledIds'
    BY <1>1, <1>7, <2>2
  <2>8. Has(dp[c])' = Has(dp'[c])
    BY DEF Has
  <2>9. PICK ids : ids = InstalledIds'
    OBVIOUS
  <2>10. conn'[c] = "up" => end = ids
    BY <2>7, <2>9
  <2> QED
    BY <2>1, <2>6, <2>8, <2>9, <2>10 DEF WireAgrees
<1> QED
  BY <1>7, <1>8, <1>9 DEF RefusalInv

-----------------------------------------------------------------------------
(* The theorem *)

\* In the beginning there are no sessions, and nothing has been sent.
LEMMA RefusalInit == AInit => RefusalInv
<1> SUFFICES ASSUME AInit PROVE RefusalInv
  OBVIOUS
<1>1. \A g \in GroupIPs : store[g] = NULL
  BY InitEmpty DEF AInit
<1>2. \A t \in Threads : thread[t].id = 0 /\ thread[t].pc # "send"
  BY DEF AInit, Idle
<1>3. thread[Client].pc = "none" /\ thread[Main].pc = "poll"
  BY ThreadNames DEF AInit, Idle
<1>4. IdsInRange
  BY <1>1, <1>2, BoundAssumption DEF IdsInRange
<1>5. StartInv
  BY <1>1, <1>3 DEF StartInv
<1>6. ClientInv
  BY <1>3 DEF ClientInv, AInit
<1>7. Unsent
  <2>1. IsFiniteSet(bound)
    BY FS_EmptySet DEF AInit
  <2>2. ASSUME NEW c \in Conns
        PROVE  wire[c] = <<>> /\ ~dp[c].refused /\ Has(dp[c]) = {}
    <3>1. dp[c] = Switch!EmptyDatapath /\ wire[c] = <<>>
      BY DEF AInit
    <3>2. ~Switch!EmptyDatapath.refused /\ Has(Switch!EmptyDatapath) = {}
      BY DEF Switch!EmptyDatapath, Has
    <3> QED
      BY <3>1, <3>2
  <2> QED
    BY <2>1, <2>2 DEF Unsent
<1>8. StateInv
  BY AgentInit DEF AInit, AgentInv, StateInv
<1>9. Explained
  BY DEF Explained, AInit
<1> QED
  BY <1>4, <1>5, <1>6, <1>7, <1>8, <1>9 DEF RefusalInv

\* Every step of a thread or of a switch keeps the agreement.
LEMMA RefusalStep == AInv /\ RefusalInv /\ [ANext]_avars => RefusalInv'
<1> SUFFICES ASSUME AInv, RefusalInv, [ANext]_avars PROVE RefusalInv'
  OBVIOUS
<1>1. CASE ProcessStep /\ Queue /\ UNCHANGED dp
  BY <1>1, WorkerRefusal, BindRefusal, IdentifyRefusal, JoinOrLeaveRefusal,
     ClientRefusal, InsertRefusal, SendNextRefusal, MainRefusal
  DEF ProcessStep, WorkerStep, ClientStep
<1>2. CASE \E c \in Conns : Deliver(c)
  BY <1>2, DeliverRefusal
<1>3. CASE UNCHANGED avars
  <2>1. UNCHANGED <<conn, bound, store, members, buckets, groupmod, early, thread,
                    wire, dp>>
    BY <1>3 DEF avars, binding, sessions, state
  <2>2. \A t \in Threads : thread'[t].id <= MaxGroupId
    BY <2>1 DEF RefusalInv, IdsInRange
  <2>3. /\ IdsInRange' /\ StartInv' /\ ClientInv' /\ StateInv'
        /\ InstalledIds' = InstalledIds
        /\ IdsCollide' <=> IdsCollide
    BY <2>1, <2>2, SessionsKept
  <2>4. Unsent'
    BY <2>1 DEF RefusalInv, Unsent, Has
  <2>5. Explained'
    BY <2>1, <2>3 DEF RefusalInv, Explained, WireAgrees, Has
  <2> QED
    BY <2>3, <2>4, <2>5 DEF RefusalInv
<1> QED
  BY <1>1, <1>2, <1>3 DEF ANext

\* The two threads' messages mix on the connection, and a switch refuses one of
\* them only if two sessions share a group id, which a lost increment of the
\* counter makes them do (MCGroup.hh:85), if two connections were bound
\* (MCApps.hh:137), or if a packet which the hook had not punted was served for a
\* root's group before the client had sent its group-mod (MCApps.hh:303-310).
THEOREM RefusalsAlwaysExplained == ASpec => []RefusalsExplained
<1>1. RefusalInv => RefusalsExplained
  <2> SUFFICES ASSUME RefusalInv, NEW c \in Conns, dp[c].refused, ~IdsCollide, ~early
               PROVE  Cardinality(bound) > 1
    BY DEF RefusalsExplained
  <2>1. IsFiniteSet(bound) /\ c \in bound
    BY DEF RefusalInv, Unsent
  <2>2. bound # {c}
    BY DEF RefusalInv, Explained, WireAgrees
  <2>3. PICK b \in bound : b # c
    BY <2>1, <2>2
  <2>4. {b, c} \subseteq bound
    BY <2>1, <2>3
  <2>5. Cardinality({b, c}) = 2
    <3>1. Cardinality({c}) = 1 /\ IsFiniteSet({c})
      BY FS_Singleton
    <3>2. Cardinality({c} \cup {b}) = 2
      BY <2>3, <3>1, FS_AddElement
    <3>3. {c} \cup {b} = {b, c}
      OBVIOUS
    <3> QED
      BY <3>2, <3>3
  <2>6. Cardinality({b, c}) <= Cardinality(bound) /\ Cardinality(bound) \in Nat
    BY <2>1, <2>4, FS_Subset, FS_CardinalityType
  <2> QED
    BY <2>5, <2>6
<1> QED
  BY <1>1, AInitInv, AInvStep, RefusalInit, RefusalStep, PTL DEF ASpec

=============================================================================
