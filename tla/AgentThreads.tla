---------------------------- MODULE AgentThreads ----------------------------
(***************************************************************************)
(* The agent's process with its threads interleaved: main, which waits for *)
(* a datapath and then starts the client of the network controller; the    *)
(* client, which reads records from a stream and creates groups; and the   *)
(* server's workers, one per OpenFlow connection, which bind the agent to  *)
(* a connection and serve joins and leaves.  Store, id counter, ofconn and *)
(* dpid are shared without a lock.                                         *)
(*                                                                         *)
(* A step is what happens between two accesses that another thread can get *)
(* in between of.  A member map belongs to the one worker of the bound     *)
(* connection, so join and leave are steps (MulticastApp's Join, Leave);   *)
(* of two workers that are both bound, and of a worker in the middle of    *)
(* the client's group-mod, see JoinOrLeave.                                *)
(***************************************************************************)
EXTENDS MulticastApp

CONSTANTS
  Main, Client,    \* threads; the workers are named after their connections
  HonoursOutPort,  \* BOOLEAN: the switch filters deletions by out_port
  Scenarios,       \* what the network controller sends, a sequence of records,
                   \* which switches connect, and (BOUND) which packets they
                   \* may punt, once each
  Stray,           \* what a record that begins in the middle of another means
  Arrivals,        \* numbers of half-records that arrive at once
  MaxRecords       \* BOUND: records in a stream

Threads == Conns \cup {Main, Client}

Record == [sip : GroupIPs, dip : DestIPs, sport : UdpPorts, dport : UdpPorts,
           is_root : BOOLEAN]

\* what a worker keeps of a packet-in; hooked: it was the flow create_group
\* installs for its address that punted it, and not another rule of the switch
UDPPacket == [protocol : {"UDP"}, ip : GroupIPs, us : UdpPorts, ud : UdpPorts,
              intf : Intfs, host : Hosts, hooked : BOOLEAN]
IGMPPacket == [protocol : {"IGMP"}, ip : GroupIPs]
Packet == UDPPacket \cup IGMPPacket

ASSUME ThreadsAssumption ==
  /\ Main # Client /\ {Main, Client} \cap Conns = {}
  /\ NULL \notin Threads /\ NULL \notin Packet
  /\ Stray \in Record
  /\ \A s \in Scenarios :
       /\ s.stream \in Seq(Record) /\ Len(s.stream) <= MaxRecords
       /\ \A k \in DOMAIN s.stream : s.stream[k].sip # Stray.sip
       /\ s.switches \subseteq Conns /\ s.packets \subseteq Packet
  /\ Arrivals \subseteq Nat \ {0}

VARIABLES
  iterator, \* multicast_session_store_iterator: a key of the store, NULL for end
  dpid,     \* 0 (NULL here), or the connection whose datapath id it is
  thread,   \* what each thread is doing
  switches, \* the connections that will be made
  stream,   \* the records of the network controller, in 16 bytes each
  arrived,  \* half-records that have arrived
  taken,    \* half-records that read_cb has removed from the input buffer
  packets,  \* packets that the switches may still punt
  wire,     \* wire[c]: messages sent on c that its switch has not processed
  dp,       \* dp[c]: the datapath of c's switch
  bound,    \* history: the connections ofconn has been set to
  merged,   \* history: something else than a whole record has arrived at once
  early     \* history: a root's group has been changed before it was sent

binding == <<conn, ofconn, dpid, bound>>
sessions == <<state, OFMsgGroupIdGen, iterator, early>>
network == <<switches, stream, arrived, taken, merged>>
avars == <<binding, sessions, out, crashed, thread, network, packets, wire, dp>>

Switch == INSTANCE OpenFlowSwitch

\* todo: the messages create_group has still to send; key: the session that
\* handle_UDP_packet has read from the iterator
Idle == [pc |-> "idle", id |-> 0, job |-> NULL, todo |-> <<>>, key |-> NULL]

AInit ==
  /\ Init
  /\ iterator = NULL
  /\ dpid = NULL
  /\ thread = [t \in Threads |-> [Idle EXCEPT
                 !.pc = CASE t = Main -> "poll"
                          [] t = Client -> "none"
                          [] OTHER -> "idle"]]
  /\ \E s \in Scenarios :
       stream = s.stream /\ switches = s.switches /\ packets = s.packets
  /\ arrived = 0 /\ taken = 0 /\ merged = FALSE
  /\ wire = [c \in Conns |-> <<>>]
  /\ dp = [c \in Conns |-> Switch!EmptyDatapath]
  /\ bound = {} /\ early = FALSE

\* main has not returned, and nothing has killed the process
Alive == Running /\ thread[Main].pc # "done"

At(t, step) == Alive /\ thread[t].pc = step

Goto(t, step) == thread' = [thread EXCEPT ![t].pc = step]

\* What becomes of a map that one thread changes while another is about to
\* use it is undefined: the process may die.
Racing(t, step) ==
  IF \E u \in Threads \ {t} : thread[u].pc = step THEN BOOLEAN ELSE {FALSE}

\* a step that sends nothing
Silent == out' = <<>>

-----------------------------------------------------------------------------
(* A worker: connections *)

Connect(c) ==
  /\ Alive
  /\ thread[Main].pc \in {"poll", "wait"}
  /\ c \in switches
  /\ conn[c] = "none"
  /\ conn' = [conn EXCEPT ![c] = "started"]
  /\ Silent
  /\ UNCHANGED <<ofconn, dpid, bound, sessions, crashed, thread, network, packets>>

\* the features reply of c: ofconn is looked at ...
SwitchIsUp(c, ofversion) ==
  /\ At(c, "idle")
  /\ conn[c] = "started"
  /\ conn' = [conn EXCEPT ![c] = "up"]
  /\ Goto(c, IF ofversion = 4 /\ ofconn = NULL THEN "bind" ELSE "idle")
  /\ Silent
  /\ UNCHANGED <<ofconn, dpid, bound, sessions, crashed, network, packets>>

\* ... set ...
Bind(c) ==
  /\ At(c, "bind")
  /\ ofconn' = c
  /\ bound' = bound \cup {c}
  /\ Goto(c, "identify")
  /\ Silent
  /\ UNCHANGED <<conn, dpid, sessions, crashed, network, packets>>

\* ... the datapath id is set, and a role asked for, on what is bound by then
Identify(c) ==
  /\ At(c, "identify")
  /\ dpid' = c
  /\ Goto(c, "idle")
  /\ Send(<<RoleRequest>>)
  /\ UNCHANGED <<conn, ofconn, bound, sessions, crashed, network, packets>>

Disconnect(c) ==
  /\ At(c, "idle")
  /\ conn[c] \in {"started", "up"}
  /\ conn' = [conn EXCEPT ![c] = "down"]
  /\ Silent
  /\ UNCHANGED <<ofconn, dpid, bound, sessions, crashed, thread, network, packets>>

-----------------------------------------------------------------------------
(* The id counter, on any thread: ++ loads and stores, nothing makes it     *)
(* atomic.  groupid_ is the value this thread has stored.                  *)

LoadGroupId(t) ==
  /\ At(t, "load")
  /\ OFMsgGroupIdGen < MaxGroupId
  /\ thread' = [thread EXCEPT ![t].pc = "store", ![t].id = NextGroupId(OFMsgGroupIdGen)]
  /\ Silent
  /\ UNCHANGED <<binding, sessions, crashed, network, packets>>

StoreGroupId(t) ==
  /\ At(t, "store")
  /\ OFMsgGroupIdGen' = thread[t].id
  /\ Goto(t, "find")
  /\ Silent
  /\ UNCHANGED <<binding, state, iterator, early, crashed, network, packets>>

-----------------------------------------------------------------------------
(* A worker: packets *)

\* packet p as c's switch punts it
Punted(c, p) ==
  IF p.protocol = "UDP" THEN [p EXCEPT !.hooked = p.ip \in dp[c].hooks] ELSE p

\* EVENT_PACKET_IN, whether the agent's own hook punts p or a rule of somebody
\* else, and with a session for its address or without.  The id comparison
\* dereferences ofconn, bound or not; the packets of another connection than the
\* bound one are dropped.
PacketIn(c, p) ==
  /\ At(c, "idle")
  /\ conn[c] \in {"started", "up"}
  /\ packets' = packets \ {p}
  /\ \/ /\ ofconn = c
        /\ thread' = [thread EXCEPT ![c] =
             [Idle EXCEPT !.pc = "load", !.job = Punted(c, p)]]
        /\ UNCHANGED crashed
     \/ /\ ofconn \in Conns \ {c}
        /\ UNCHANGED <<thread, crashed>>
     \/ /\ ofconn \in {NULL, Garbage}
        /\ crashed' \in (IF ofconn = NULL THEN {TRUE} ELSE BOOLEAN)
        /\ UNCHANGED thread
  /\ Silent
  /\ UNCHANGED <<binding, sessions, network>>

\* The session is looked up, while the client may be inserting another; the
\* iterator is a member of the application, not of the handler.
FindSession(c) ==
  LET ip == thread[c].job.ip
  IN  /\ At(c, "find")
      /\ iterator' = IF store[ip] = NULL THEN NULL ELSE ip
      /\ crashed' \in Racing(c, "insert")
      /\ Goto(c, "key")
      /\ Silent
      /\ UNCHANGED <<binding, state, OFMsgGroupIdGen, early, network, packets>>

\* what packet p asks of the session the iterator is at: 0 is nothing.
\* handle_IGMP_packet does nothing with the session it finds.
Asked(p) ==
  IF iterator = NULL \/ p.protocol = "IGMP" THEN 0
  ELSE Mflag(store[iterator], p.us, p.ud)

\* iterator->first is read, and its ports are compared with the packet's
ReadKey(c) ==
  /\ At(c, "key")
  /\ thread' = [thread EXCEPT ![c] =
       IF Asked(thread[c].job) = 0 THEN Idle
       ELSE [@ EXCEPT !.pc = "act", !.key = iterator]]
  /\ Silent
  /\ UNCHANGED <<binding, sessions, crashed, network, packets>>

\* create_group has inserted the session of root g, and has not sent its group
Pending(g) ==
  /\ thread[Client].pc = "send" /\ thread[Client].job.sip = g
  /\ Head(thread[Client].todo).type = "group"

\* iterator->second is read, and the member joins or leaves.  If another
\* worker has moved the iterator since ->first was read, or the client is at
\* work on the same group-mod, the process may die; and in the first case
\* that is as far as the model follows it.
JoinOrLeave(c) ==
  LET p == thread[c].job
      g == thread[c].key
  IN  /\ At(c, "act")
      /\ \/ /\ iterator = g
            /\ \/ Mflag(store[g], p.us, p.ud) = 1 /\ Join(g, p.intf, p.host)
               \/ Mflag(store[g], p.us, p.ud) = 2 /\ Leave(g, p.intf)
            /\ early' = (early \/ Pending(g))
         \/ /\ iterator # g \/ Pending(g)
            /\ crashed' = TRUE
            /\ Silent
            /\ UNCHANGED <<state, early>>
      /\ thread' = [thread EXCEPT ![c] = Idle]
      /\ UNCHANGED <<binding, OFMsgGroupIdGen, iterator, network, packets>>

-----------------------------------------------------------------------------
(* The network controller's client *)

\* bufferevent_socket_connect succeeds, and the datapath id is written
ClientConnects ==
  /\ At(Client, "connect")
  /\ Goto(Client, "loop")
  /\ Silent
  /\ UNCHANGED <<binding, sessions, crashed, network, packets>>

\* it does not, or the connection ends: that is logged, and nothing retried
ClientDisconnected ==
  /\ At(Client, "connect") \/ At(Client, "loop")
  /\ Goto(Client, "lost")
  /\ Silent
  /\ UNCHANGED <<binding, sessions, crashed, network, packets>>

\* n half-records arrive and read_cb is called, once for all of them
Arrive(n) ==
  /\ At(Client, "loop")
  /\ arrived + n <= 2 * Len(stream)
  /\ arrived' = arrived + n
  /\ merged' = (merged \/ n # 2)
  /\ Goto(Client, "read")
  /\ Silent
  /\ UNCHANGED <<binding, sessions, crashed, switches, stream, taken, packets>>

\* the 16 bytes behind the first k half-records, as create_group gets them
RecordAt(k) == IF k % 2 = 0 THEN stream[k \div 2 + 1] ELSE Stray

\* what is done with a record: an id is drawn unless it looks like class D
Begin(r) == [Idle EXCEPT !.pc = IF LooksClassD(r.dip) THEN "loop" ELSE "load",
                         !.job = r]

\* a buffer of 8 bytes, as the comment of read_cb describes it
MutantRead ==
  /\ At(Client, "read")
  /\ taken' = taken + 1
  /\ Goto(Client, "loop")
  /\ Silent
  /\ UNCHANGED <<binding, sessions, crashed, switches, stream, arrived, merged,
                 packets>>

\* read_cb removes up to 16 bytes.  Fewer are an error and are gone; what is
\* behind the 16 stays until more arrives.
Read ==
  /\ At(Client, "read")
  /\ \/ /\ arrived - taken >= 2
        /\ taken' = taken + 2
        /\ thread' = [thread EXCEPT ![Client] = Begin(RecordAt(taken))]
     \/ /\ arrived - taken = 1
        /\ taken' = taken + 1
        /\ Goto(Client, "loop")
  /\ Silent
  /\ UNCHANGED <<binding, sessions, crashed, switches, stream, arrived, merged,
                 packets>>

\* the hook is installed first, as the one thing every group needs
MutantCreation(sip, s) ==
  <<HookFlowMod(sip)>>
  \o IF s.is_root THEN <<GroupMod("ADD", s.groupid, buckets[sip]),
                         FlowMod("ADD", DownstreamFlow(sip, s))>>
     ELSE <<>>

\* what create_group sends for session s of address sip
Creation(sip, s) ==
  (IF s.is_root THEN <<GroupMod("ADD", s.groupid, buckets[sip]),
                       FlowMod("ADD", DownstreamFlow(sip, s))>>
   ELSE <<>>)
  \o <<HookFlowMod(sip)>>

\* create_group looks for the group
FindGroup ==
  /\ At(Client, "find")
  /\ Goto(Client, IF store[thread[Client].job.sip] = NULL THEN "insert" ELSE "loop")
  /\ Silent
  /\ UNCHANGED <<binding, sessions, crashed, network, packets>>

\* It inserts the session, while a worker may be searching the store, and fills
\* in the downstream flow-mod before a worker can have found the session.
InsertGroup ==
  LET r == thread[Client].job
      s == [sport |-> r.sport, dport |-> r.dport, is_root |-> r.is_root,
            groupid |-> thread[Client].id]
  IN  /\ At(Client, "insert")
      /\ store' = [store EXCEPT ![r.sip] = s]
      /\ groupmod' = IF r.is_root
                     THEN [groupmod EXCEPT ![r.sip].group_id = s.groupid]
                     ELSE groupmod
      /\ thread' = [thread EXCEPT ![Client].pc = "send",
                                  ![Client].todo = Creation(r.sip, s)]
      /\ crashed' \in Racing(Client, "find")
      /\ Silent
      /\ UNCHANGED <<binding, members, buckets, OFMsgGroupIdGen, iterator, early,
                     network, packets>>

\* A group-mod is packed when it is sent, with the buckets it has by then.
Packed(m, g) ==
  IF m.type = "group" THEN [m EXCEPT !.buckets = buckets[g]] ELSE m

\* One of the messages is sent, on what is bound.  After main has stopped the
\* server there is no connection any more to call send() of.
SendNext ==
  LET todo == thread[Client].todo
  IN  /\ At(Client, "send")
      /\ Send(<<Packed(Head(todo), thread[Client].job.sip)>>)
      /\ thread' = [thread EXCEPT
           ![Client].todo = Tail(todo),
           ![Client].pc = IF Tail(todo) = <<>> THEN "loop" ELSE "send"]
      /\ crashed' \in IF thread[Main].pc = "stop_client" THEN BOOLEAN ELSE {FALSE}
      /\ UNCHANGED <<binding, sessions, network, packets>>

-----------------------------------------------------------------------------
(* main *)

\* the client is started without waiting
MutantDatapathKnown ==
  /\ At(Main, "poll")
  /\ thread' = [thread EXCEPT ![Main].pc = "wait", ![Client].pc = "connect"]
  /\ Silent
  /\ UNCHANGED <<binding, sessions, crashed, network, packets>>

\* main sees a datapath id and starts the client's thread
DatapathKnown ==
  /\ At(Main, "poll")
  /\ dpid # NULL
  /\ thread' = [thread EXCEPT ![Main].pc = "wait", ![Client].pc = "connect"]
  /\ Silent
  /\ UNCHANGED <<binding, sessions, crashed, network, packets>>

\* SIGINT: ctrl.stop() closes the connections and waits for the workers ...
StopServer ==
  /\ At(Main, "wait")
  /\ \A c \in Conns : thread[c].pc = "idle"
  /\ conn' = [c \in Conns |-> "down"]
  /\ Goto(Main, "stop_client")
  /\ Silent
  /\ UNCHANGED <<ofconn, dpid, bound, sessions, crashed, network, packets>>

\* ... and mcnw_cc->stop() frees the buffer that the client may be reading
StopClient ==
  /\ At(Main, "stop_client")
  /\ crashed' \in Racing(Main, "read")
  /\ Goto(Main, "done")
  /\ Silent
  /\ UNCHANGED <<binding, sessions, network, packets>>

-----------------------------------------------------------------------------
WorkerStep(c) ==
  \/ Bind(c) \/ Identify(c)
  \/ LoadGroupId(c) \/ StoreGroupId(c)
  \/ FindSession(c) \/ ReadKey(c) \/ JoinOrLeave(c)

ClientStep ==
  \/ LoadGroupId(Client) \/ StoreGroupId(Client)
  \/ Read \/ FindGroup \/ InsertGroup \/ SendNext

ProcessStep ==
  \/ \E c \in Conns :
       \/ Connect(c)
       \/ \E ofversion \in {1, 4} : SwitchIsUp(c, ofversion)
       \/ Disconnect(c)
       \/ \E p \in packets : PacketIn(c, p)
       \/ WorkerStep(c)
  \/ ClientConnects \/ ClientDisconnected
  \/ \E n \in Arrivals : Arrive(n)
  \/ ClientStep
  \/ DatapathKnown \/ StopServer \/ StopClient

\* what a step sends is queued on the connection that is bound
Queue ==
  wire' = IF out' = <<>> THEN wire ELSE [wire EXCEPT ![ofconn] = @ \o out']

\* c's switch processes the oldest message
Deliver(c) ==
  /\ Alive
  /\ wire[c] # <<>>
  /\ conn[c] = "up"
  /\ dp' = [dp EXCEPT ![c] = Switch!Apply(@, Head(wire[c]))]
  /\ wire' = [wire EXCEPT ![c] = Tail(@)]
  /\ UNCHANGED <<binding, sessions, out, crashed, thread, network, packets>>

ANext ==
  \/ ProcessStep /\ Queue /\ UNCHANGED dp
  \/ \E c \in Conns : Deliver(c)

\* The client's thread goes on with what it is doing.
ASpec == AInit /\ [][ANext]_avars
         /\ WF_avars(ClientStep /\ Queue /\ UNCHANGED dp)

-----------------------------------------------------------------------------
(* Properties *)

\* The client's thread never finds the agent unbound: main starts it when dpid
\* is set, and that is after ofconn (MCApps.hh:138-141), whichever worker sets
\* them and however they overtake each other.  create_group does not test
\* ofconn.  If only one connection was bound, dpid is its datapath's.
BoundBeforeClient ==
  thread[Client].pc # "none" =>
    /\ ofconn \in bound /\ dpid \in bound
    /\ conn[ofconn] \in {"up", "down"}

\* The hook that lets joins and leaves through is sent last (MCApps.hh:319), so
\* that none of the packets it punts meets its group half made: while a worker
\* has such a packet, its session is in the store, and the client has sent
\* everything the group consists of.  Of packets that another rule of the switch
\* punts, or that nothing hooks, this is not so.
HookLast ==
  \A c \in Conns :
    LET p == thread[c].job
    IN  p # NULL /\ p.protocol = "UDP" /\ p.hooked =>
          /\ store[p.ip] # NULL
          /\ ~(thread[Client].pc = "send" /\ thread[Client].job.sip = p.ip)

IdsCollide ==
  \E g, h \in GroupIPs :
    /\ g # h /\ store[g] # NULL /\ store[h] # NULL
    /\ store[g].groupid = store[h].groupid

\* The two threads' messages mix on the connection, and still a switch refuses
\* none of them but for one of three races: an increment of the id counter was
\* lost (MCGroup.hh:85), so that two sessions share a group id; two workers
\* both found the agent unbound (MCApps.hh:137); or a packet that the group's
\* hook had not punted joined a root's group between the insertion of its
\* session and the sending of its group-mod (MCApps.hh:303-310).
RefusalsExplained ==
  (\E c \in Conns : dp[c].refused) =>
    IdsCollide \/ Cardinality(bound) > 1 \/ early

Handled(k) ==
  k \in DOMAIN stream
  /\ (store[stream[k].sip] # NULL \/ LooksClassD(stream[k].dip))

\* A record that has arrived as every record before it did, whole and alone, is
\* handled, whatever comes after it (MCNWClient.hh:79-86).  The rest of
\* an arrival that read_cb leaves in the buffer waits for the next one.
RecordsHandled ==
  \A k \in 1..MaxRecords :
    (k <= Len(stream) /\ arrived >= 2 * k /\ ~merged) ~> (Handled(k) \/ ~Alive)

=============================================================================
