--------------------------- MODULE SwitchDatapath ---------------------------
(***************************************************************************)
(* The datapath of the example OpenFlow 1.0 switch (examples/switch):      *)
(* a capture thread per port looks packets up in the flow table and saves  *)
(* those that match nothing for the controller, while the thread of the    *)
(* event loop executes the controller's flow-mods and packet-outs.  They   *)
(* share the flow table, the packet buffer and the counter of buffer ids   *)
(* without a lock, so the steps of the threads are interleaved.            *)
(*                                                                         *)
(* A captured packet is a pointer into the capture ring of its port; the   *)
(* ring's slots are reused while the pointer may still be in the buffer.   *)
(* The connection to the controller is lost and renewed under all this,    *)
(* and main closes the captures and then the event loop when it stops.     *)
(***************************************************************************)
EXTENDS FlowMatch, SequencesExt

CONSTANTS
  Ports,       \* OpenFlow port numbers
  Loop,        \* the thread of the event loop
  Frames,      \* contents of captured frames: header values and addresses
  Rules,       \* matches, priorities and actions of the flow-mods
  AnswerRules, \* those of them that answer a packet-in
  Deletes,     \* matches of the flow-mods that delete
  ActionLists, \* action lists of packet-outs
  Slots,       \* slots of a capture ring
  MaxPackets,  \* BOUND: packets captured, or carried by packet-outs
  MaxIds,      \* BOUND: buffer ids, given out or made up by the controller
  MaxFlows,    \* BOUND: flows in the table
  NULL         \* no entry in the packet buffer, no frame in a slot

\* Ports are numbered from 1; in_port is one of the fields of a match.
ASSUME DatapathAssumption ==
  /\ Ports \subseteq Nat \ {0} /\ Loop \notin Ports
  /\ "in_port" \in Fields /\ Ports \subseteq Values
  /\ Frames \subseteq [val : [Fields \ {"in_port"} -> Values],
                       nw_src : Address, nw_dst : Address]
  /\ Deletes \subseteq Match
  /\ MaxPackets \in Nat /\ MaxIds \in Nat /\ MaxFlows \in Nat /\ Slots \in Nat \ {0}
  /\ NULL \notin Nat

\* ofp_port of OpenFlow 1.0; OFPP_ALL does what OFPP_FLOOD does
OFPP_IN_PORT == 65528
OFPP_FLOOD == 65531
OFPP_CONTROLLER == 65533
OFPP_NONE == 65535

FlowEntry == [match : Match, priority : Nat, nw_src_mask : {NoMask},
              nw_dst_mask : {NoMask}, actions : Seq(Nat)]

ASSUME RulesAssumption ==
  /\ Rules \subseteq FlowEntry /\ AnswerRules \subseteq Rules
  /\ \A acts \in ActionLists : acts \in Seq(Nat)

VARIABLES
  flow_table,  \* the flows in the order of the set
  pkt_buffer,  \* pkt_buffer[id]: index into packets, 0 for a null pointer,
               \* or NULL if there is no entry
  buffer_id,   \* the last buffer id given out
  packets,     \* every struct packet allocated, in order of allocation
  ring,        \* ring[p][s]: the frame in slot s of the ring of port p
  thread,      \* what each thread is doing
  pending,     \* packet-ins the controller has not answered
  named,       \* history: ids that the controller has named
  emitted,     \* what the last step sent, and from which port's capture
  conn,        \* "none" (the pointer is null), "up" or "down"
  closed,      \* ports whose capture main has closed
  main,        \* "running", "stopped" or "deleted": what main has made of the switch
  crashed,     \* the process has been killed by undefined behaviour
  overlapped,  \* history: two threads have been giving out ids at one time
  zeroed       \* history: every flow there has been held 0 where it is wild

switch == <<conn, closed, main>>
vars == <<flow_table, pkt_buffer, buffer_id, packets, ring, thread, pending,
          named, emitted, switch, crashed, overlapped, zeroed>>

Threads == Ports \cup {Loop}

Idle == [pc |-> "idle", pkt |-> 0, acts |-> <<>>, id |-> 0, miss |-> FALSE]

Init ==
  /\ flow_table = <<>>
  /\ pkt_buffer = [id \in 1..MaxIds |-> NULL]
  /\ buffer_id = 0
  /\ packets = <<>>
  /\ ring = [p \in Ports |-> [s \in 1..Slots |-> NULL]]
  /\ thread = [t \in Threads |-> Idle]
  /\ pending = {} /\ named = {}
  /\ emitted = {}
  /\ conn = "none" /\ closed = {} /\ main = "running"
  /\ crashed = FALSE
  /\ overlapped = FALSE /\ zeroed = TRUE

Running == ~crashed

\* the bytes behind the data pointer of packet k, and the match made of them;
\* a packet-out that carries its packet keeps the bytes for its duration
Data(k) ==
  IF packets[k].slot = 0 THEN packets[k].captured
  ELSE ring[packets[k].in_port][packets[k].slot]

\* the bytes of packet k went with the capture they were in
Freed(k) == packets[k].slot # 0 /\ packets[k].in_port \in closed

\* packet k is used no more: it has been deleted, or its bytes have
Lost(k) == ~packets[k].live \/ Freed(k)

PacketMatch(k) ==
  LET frame == Data(k)
  IN  [val |-> [f \in Fields |-> IF f = "in_port" THEN packets[k].in_port
                                 ELSE frame.val[f]],
       wild |-> {}, nw_src |-> frame.nw_src, nw_dst |-> frame.nw_dst]

-----------------------------------------------------------------------------
(* The flow table: a set ordered by cmp_priority, whose <= puts a new flow  *)
(* in front of those of the same priority.                                 *)

\* the new flow is put behind those of the same priority and the larger ones
MutantInserted(table, flow) == Append(table, flow)

Inserted(table, flow) ==
  InsertAt(table, Cardinality({ k \in DOMAIN table :
                                  table[k].priority < flow.priority }) + 1, flow)

\* nothing is erased
MutantWithoutFirstStrict(table, flow) == table

\* the first flow that strictly matches is erased, and the loop ends
WithoutFirstStrict(table, flow) ==
  LET same == { k \in DOMAIN table : strict_match(table[k], flow) }
  IN  IF same = {} THEN table ELSE RemoveAt(table, Min(same))

\* the members of a set of numbers in their order
InOrder(numbers) ==
  CHOOSE f \in [1..Cardinality(numbers) -> numbers] :
    \A i, j \in DOMAIN f : i < j => f[i] < f[j]

\* the flows that a delete's match matches non-strictly are erased
WithoutMatching(table, match) ==
  LET kept == { k \in DOMAIN table : ~non_strict_match(FlowOf(match, 0), table[k]) }
  IN  [i \in 1..Cardinality(kept) |-> table[InOrder(kept)[i]]]

\* undefined behaviour: the process may die, or go on
May(undefined) == IF undefined THEN BOOLEAN ELSE {FALSE}

\* What becomes of a container that one thread changes while other threads
\* are about to use it, or are using it, is undefined: the process may die.
Racing(others, step) == May(\E t \in others : thread[t].pc = step)

TableChanged(table) ==
  /\ flow_table' = table
  /\ crashed' \in Racing(Ports, "lookup")

-----------------------------------------------------------------------------
(* A capture thread *)

\* packet_handler is called with the next frame, in some slot of the ring
Capture(p, frame, s) ==
  /\ Running
  /\ thread[p].pc = "idle"
  /\ p \notin closed
  /\ Len(packets) < MaxPackets
  /\ ring' = [ring EXCEPT ![p][s] = frame]
  /\ packets' = Append(packets, [in_port |-> p, slot |-> s, captured |-> frame,
                                 live |-> TRUE])
  /\ thread' = [thread EXCEPT ![p] = [Idle EXCEPT !.pc = "lookup",
                                                  !.pkt = Len(packets) + 1]]
  /\ emitted' = {}
  /\ UNCHANGED <<flow_table, pkt_buffer, buffer_id, pending, named, switch, crashed>>

\* the first flow of the set that matches applies; otherwise it is a miss
Lookup(p) ==
  LET matching == { k \in DOMAIN flow_table :
                      pkt_match(flow_table[k], PacketMatch(thread[p].pkt)) }
  IN  /\ Running
      /\ thread[p].pc = "lookup"
      /\ \/ /\ matching # {}
            /\ thread' = [thread EXCEPT ![p].pc = "act",
                                        ![p].acts = flow_table[Min(matching)].actions]
         \/ /\ matching = {}
            /\ thread' = [thread EXCEPT ![p].pc = "load", ![p].miss = TRUE]
      /\ crashed' \in May(Freed(thread[p].pkt))
      /\ emitted' = {}
      /\ UNCHANGED <<flow_table, pkt_buffer, buffer_id, packets, ring, pending, named,
                     switch>>

-----------------------------------------------------------------------------
(* action_handler, on any thread, and saving a packet that matched nothing *)

\* the ports an output action sends packet k to, which are not checked
OutPorts(output, k) ==
  CASE output = OFPP_IN_PORT -> {packets[k].in_port}
    [] output = OFPP_FLOOD -> Ports \ {packets[k].in_port}
    [] OTHER -> {output}

\* Sending on a port that does not exist is undefined, and so are sending on
\* one whose capture main has closed and sending what is lost.
Output(t) ==
  LET k == thread[t].pkt
      to == OutPorts(Head(thread[t].acts), k)
      open == Ports \ closed
  IN  /\ Running
      /\ thread[t].pc = "act"
      /\ thread[t].acts # <<>>
      /\ Head(thread[t].acts) # OFPP_CONTROLLER
      /\ emitted' = { [port |-> p, frame |-> Data(k), pkt |-> k] : p \in to \cap open }
      /\ crashed' \in May(Lost(k) \/ to \ open # {})
      /\ thread' = [thread EXCEPT ![t].acts = Tail(@)]
      /\ UNCHANGED <<flow_table, pkt_buffer, buffer_id, packets, ring, pending, named,
                     switch>>

OutputController(t) ==
  /\ Running
  /\ thread[t].pc = "act"
  /\ thread[t].acts # <<>>
  /\ Head(thread[t].acts) = OFPP_CONTROLLER
  /\ thread' = [thread EXCEPT ![t].pc = "load", ![t].acts = Tail(@),
                              ![t].miss = FALSE]
  /\ emitted' = {}
  /\ UNCHANGED <<flow_table, pkt_buffer, buffer_id, packets, ring, pending, named,
                 switch, crashed>>

\* ++Datapath::buffer_id loads and stores; nothing makes it atomic
LoadBufferId(t) ==
  /\ Running
  /\ thread[t].pc = "load"
  /\ buffer_id < MaxIds
  /\ thread' = [thread EXCEPT ![t].pc = "store", ![t].id = buffer_id]
  /\ emitted' = {}
  /\ UNCHANGED <<flow_table, pkt_buffer, buffer_id, packets, ring, pending, named,
                 switch, crashed>>

\* the counter is not incremented
MutantStoreBufferId(t) ==
  /\ Running
  /\ thread[t].pc = "store"
  /\ buffer_id' = IF buffer_id = 0 THEN 1 ELSE buffer_id
  /\ thread' = [thread EXCEPT ![t].pc = "insert", ![t].id = buffer_id']
  /\ emitted' = {}
  /\ UNCHANGED <<flow_table, pkt_buffer, packets, ring, pending, named, switch, crashed>>

StoreBufferId(t) ==
  /\ Running
  /\ thread[t].pc = "store"
  /\ buffer_id' = thread[t].id + 1
  /\ thread' = [thread EXCEPT ![t].pc = "insert", ![t].id = @ + 1]
  /\ emitted' = {}
  /\ UNCHANGED <<flow_table, pkt_buffer, packets, ring, pending, named, switch, crashed>>

\* the value a later mention of Datapath::buffer_id yields: the compiler may
\* keep the one this thread has stored or read the variable again
BufferIdSeen(t) == {thread[t].id, buffer_id}

\* std::map::insert leaves an entry that is there as it is, a null one too
Insert(t) ==
  /\ Running
  /\ thread[t].pc = "insert"
  /\ \E id \in BufferIdSeen(t) :
       pkt_buffer' = [pkt_buffer EXCEPT ![id] = IF @ = NULL THEN thread[t].pkt ELSE @]
  /\ crashed' \in Racing(Threads \ {t}, "insert")
  /\ thread' = [thread EXCEPT ![t].pc = "announce"]
  /\ emitted' = {}
  /\ UNCHANGED <<flow_table, buffer_id, packets, ring, pending, named, switch>>

\* a miss is announced with its buffer id if there is a connection ...
AnnounceMiss(t) ==
  /\ Running
  /\ thread[t].pc = "announce"
  /\ thread[t].miss
  /\ \E id \in BufferIdSeen(t) :
       pending' = IF conn = "up"
                  THEN pending \cup {[id |-> id, pkt |-> thread[t].pkt]}
                  ELSE pending
  /\ crashed' \in May(conn # "none" /\ Lost(thread[t].pkt))
  /\ thread' = [thread EXCEPT ![t] = Idle]
  /\ emitted' = {}
  /\ UNCHANGED <<flow_table, pkt_buffer, buffer_id, packets, ring, named, switch>>

\* ... and a packet output to the controller with the id that means none
AnnounceOutput(t) ==
  /\ Running
  /\ thread[t].pc = "announce"
  /\ ~thread[t].miss
  /\ crashed' \in May(Lost(thread[t].pkt))
  /\ thread' = [thread EXCEPT ![t].pc = "act"]
  /\ emitted' = {}
  /\ UNCHANGED <<flow_table, pkt_buffer, buffer_id, packets, ring, pending, named,
                 switch>>

\* The action list is done.  The event loop deletes the packet, a capture
\* thread does not; the entry in the buffer stays either way.
Finish(t) ==
  /\ Running
  /\ thread[t].pc = "act"
  /\ thread[t].acts = <<>>
  /\ packets' = IF t = Loop /\ thread[t].pkt # 0 THEN [packets EXCEPT ![thread[t].pkt].live = FALSE]
                ELSE packets
  /\ thread' = [thread EXCEPT ![t] = Idle]
  /\ emitted' = {}
  /\ UNCHANGED <<flow_table, pkt_buffer, buffer_id, ring, pending, named, switch, crashed>>

-----------------------------------------------------------------------------
(* The event loop *)

Connect ==
  /\ Running
  /\ main = "running"
  /\ thread[Loop].pc = "idle"
  /\ conn # "up"
  /\ conn' = "up"
  /\ emitted' = {}
  /\ UNCHANGED <<flow_table, pkt_buffer, buffer_id, packets, ring, thread,
                 pending, named, closed, main, crashed>>

\* EVENT_CLOSED: flows and buffered packets stay, the controller may remember
\* what it was asked, and the pointer leads to a connection that is closed.  A
\* thread may be sending on it at that moment.
Disconnect ==
  /\ Running
  /\ thread[Loop].pc = "idle"
  /\ conn = "up"
  /\ conn' = "down"
  /\ crashed' \in Racing(Ports, "announce")
  /\ emitted' = {}
  /\ UNCHANGED <<flow_table, pkt_buffer, buffer_id, packets, ring, thread,
                 pending, named, closed, main>>

\* pkt_buffer[id] makes an entry with a null pointer if there is none
Fetched(id) == IF pkt_buffer[id] = NULL THEN 0 ELSE pkt_buffer[id]

Fetch(id) == pkt_buffer' = [pkt_buffer EXCEPT ![id] = Fetched(id)]

\* Using the packet fetched: a null pointer kills the process, a packet that
\* has been deleted may.
Using(id) ==
  IF Fetched(id) = 0 THEN {TRUE}
  ELSE May(Lost(Fetched(id)) \/ \E t \in Ports : thread[t].pc = "insert")

Perform(k, acts) ==
  thread' = [thread EXCEPT ![Loop] = [Idle EXCEPT !.pc = "act", !.pkt = k,
                                                  !.acts = acts]]

\* The controller names a buffer id, any one: of a packet-in it was told of, of
\* one it has answered before, or one it has made up.
Names(id) ==
  /\ conn = "up"
  /\ thread[Loop].pc = "idle"
  /\ pending' = { r \in pending : r.id # id }
  /\ named' = named \cup {id}
  /\ Fetch(id)

\* handle_packet_out for a buffered packet; without actions a null pointer is
\* only deleted, which does nothing
PacketOut(id, acts) ==
  /\ Running
  /\ Names(id)
  /\ crashed' \in IF acts = <<>> /\ Fetched(id) = 0 THEN {FALSE} ELSE Using(id)
  /\ Perform(Fetched(id), acts)
  /\ emitted' = {}
  /\ UNCHANGED <<flow_table, buffer_id, packets, ring, switch>>

\* handle_packet_out for a packet that the message carries; in_port is the
\* controller's word
PacketOutData(p, frame, acts) ==
  /\ Running
  /\ conn = "up"
  /\ thread[Loop].pc = "idle"
  /\ Len(packets) < MaxPackets
  /\ packets' = Append(packets, [in_port |-> p, slot |-> 0, captured |-> frame,
                                 live |-> TRUE])
  /\ Perform(Len(packets) + 1, acts)
  /\ emitted' = {}
  /\ UNCHANGED <<flow_table, pkt_buffer, buffer_id, ring, pending, named, switch,
                 crashed>>

\* handle_flow_mod, OFPFC_ADD without a buffered packet
AddFlow(flow) ==
  /\ Running
  /\ conn = "up"
  /\ thread[Loop].pc = "idle"
  /\ TableChanged(Inserted(WithoutFirstStrict(flow_table, flow), flow))
  /\ Len(flow_table') <= MaxFlows
  /\ emitted' = {}
  /\ UNCHANGED <<pkt_buffer, buffer_id, packets, ring, thread, pending, named, switch>>

\* OFPFC_ADD with one: the packet is sent on and deleted if the flow matches
\* it, and left alone if it does not
AddFlowFor(id, flow) ==
  LET k == Fetched(id)
  IN  /\ Running
      /\ Names(id)
      /\ flow_table' = Inserted(WithoutFirstStrict(flow_table, flow), flow)
      /\ Len(flow_table') <= MaxFlows
      /\ crashed' \in { racing \/ using : racing \in Racing(Ports, "lookup"),
                                          using \in Using(id) }
      /\ IF k # 0 /\ pkt_match(flow, PacketMatch(k)) THEN Perform(k, flow.actions)
         ELSE UNCHANGED thread
      /\ emitted' = {}
      /\ UNCHANGED <<buffer_id, packets, ring, switch>>

\* OFPFC_DELETE
DeleteFlows(match) ==
  /\ Running
  /\ conn = "up"
  /\ thread[Loop].pc = "idle"
  /\ TableChanged(WithoutMatching(flow_table, match))
  /\ emitted' = {}
  /\ UNCHANGED <<pkt_buffer, buffer_id, packets, ring, thread, pending, named, switch>>

-----------------------------------------------------------------------------
(* main: SIGINT, stop() and the destructors *)

\* The next port's capture is closed, which frees the ring that pcap_loop is
\* using on its thread: its memory may hold anything from here on.  The thread
\* is waited for before the next port.
StopPort(p) ==
  /\ Running
  /\ p \in Ports \ closed
  /\ \A q \in closed : q < p /\ thread[q].pc = "idle"
  /\ \A q \in Ports : q < p => q \in closed
  /\ closed' = closed \cup {p}
  /\ \E freed \in [1..Slots -> Frames] : ring' = [ring EXCEPT ![p] = freed]
  /\ crashed' \in BOOLEAN
  /\ emitted' = {}
  /\ UNCHANGED <<flow_table, pkt_buffer, buffer_id, packets, thread, pending, named,
                 conn, main>>

\* OFClient::stop closes the connection and waits for the event loop.
StopLoop ==
  /\ Running
  /\ main = "running"
  /\ closed = Ports
  /\ \A t \in Threads : thread[t].pc = "idle"
  /\ main' = "stopped"
  /\ conn' = IF conn = "none" THEN conn ELSE "down"
  /\ pending' = {}
  /\ emitted' = {}
  /\ UNCHANGED <<flow_table, pkt_buffer, buffer_id, packets, ring, thread, named,
                 closed, crashed>>

\* ~Datapath deletes what the entries of the buffer point at, what the event
\* loop has deleted (Finish) once more.
Destroy ==
  LET entries == { id \in DOMAIN pkt_buffer : pkt_buffer[id] \notin {NULL, 0} }
  IN  /\ Running
      /\ main = "stopped"
      /\ main' = "deleted"
      /\ packets' = [k \in DOMAIN packets |->
           [packets[k] EXCEPT !.live = @ /\ \A id \in entries : pkt_buffer[id] # k]]
      /\ crashed' \in May(\E id \in entries :
                              \/ ~packets[pkt_buffer[id]].live
                              \/ \E e \in entries \ {id} : pkt_buffer[e] = pkt_buffer[id])
      /\ emitted' = {}
      /\ UNCHANGED <<flow_table, pkt_buffer, buffer_id, ring, thread, pending, named,
                     conn, closed>>

-----------------------------------------------------------------------------
ThreadStep(t) ==
  \/ Output(t) \/ OutputController(t)
  \/ LoadBufferId(t) \/ StoreBufferId(t) \/ Insert(t)
  \/ AnnounceMiss(t) \/ AnnounceOutput(t)
  \/ Finish(t)

Step ==
  \/ \E p \in Ports : Lookup(p)
                      \/ \E frame \in Frames, s \in 1..Slots : Capture(p, frame, s)
  \/ \E t \in Threads : ThreadStep(t)
  \/ Connect \/ Disconnect
  \/ \E id \in 1..MaxIds : \/ \E acts \in ActionLists : PacketOut(id, acts)
                            \/ \E flow \in AnswerRules : AddFlowFor(id, flow)
  \/ \E p \in Ports \cup {OFPP_NONE}, frame \in Frames, acts \in ActionLists :
       PacketOutData(p, frame, acts)
  \/ \E flow \in Rules : AddFlow(flow)
  \/ \E match \in Deletes : DeleteFlows(match)
  \/ \E p \in Ports : StopPort(p)
  \/ StopLoop \/ Destroy

\* t is between the increment of Datapath::buffer_id and its last use of it
GivingOutId(t) == thread[t].pc \in {"load", "store", "insert", "announce"}

\* match m holds 0 in the fields that it wildcards
ZeroWhereWild(m) == \A f \in m.wild : m.val[f] = 0

Next ==
  /\ Step
  /\ overlapped' = (overlapped
                     \/ \E t, u \in Threads : t # u /\ GivingOutId(t)' /\ GivingOutId(u)')
  /\ zeroed' = (zeroed /\ \A k \in DOMAIN flow_table' : ZeroWhereWild(flow_table'[k].match))

Spec == Init /\ [][Next]_vars

-----------------------------------------------------------------------------
(* Properties *)

\* However rules are added, replaced and deleted, the set with the comparator
\* <= (datapath.hh:14), which is not an order, keeps them by priority.
TableOrdered ==
  \A j, k \in DOMAIN flow_table : j < k => flow_table[j].priority <= flow_table[k].priority

\* No rule is in the table twice.
NoDuplicateRules ==
  \A j, k \in DOMAIN flow_table : j # k => ~strict_match(flow_table[j], flow_table[k])

\* The table is ordered by priority whatever the flow-mods.  The loop of
\* OFPFC_ADD (datapath.cc:68-74) stops at the first rule it replaces, so it
\* relies on there being one.  That is so as long as every match a peer has
\* sent holds 0 in its wildcarded fields, which handle_flow_mod does not see to
\* (datapath.cc:61-67): strict_match takes two rules for one if the values of a
\* field are equal though one of them wildcards it (flow.hh:22-26), so with
\* other values there it is not transitive, one ADD may match two rules of
\* which it erases one, and the table comes to hold a rule twice.
TableSound == TableOrdered /\ (zeroed => NoDuplicateRules)

\* the ring slot of packet k has been captured into again
Reused(k) ==
  \E j \in k + 1..Len(packets) :
    packets[j].in_port = packets[k].in_port /\ packets[j].slot = packets[k].slot

\* A packet leaves with the bytes it was captured with, however long it waited
\* and whichever thread sends it, unless its slot of the ring has been reused,
\* its port's capture closed or the packet deleted.
SentAsCaptured ==
  \A e \in emitted :
    e.frame = packets[e.pkt].captured \/ Reused(e.pkt) \/ Lost(e.pkt)

\* The controller finds the packet of a packet-in it answers, connections that
\* break and a switch that stops notwithstanding: the buffer id that was
\* announced (port.cc:69) leads to that packet, which has not been deleted, as
\* long as the controller has not named that very id before.  Ids that it has
\* made up or answered twice, for which pkt_buffer[id] makes an entry or finds
\* a deleted packet (datapath.cc:77, 126), take no other packet-in its packet.
\* And what is sent of a packet is what was captured ("Save the packet into the
\* buffer", port.cc:64).  The exceptions are those of the code: ids given
\* out by two threads at one time, a slot of the ring reused or freed, and the
\* use of a packet that has been deleted.
AnswersFindPackets ==
  /\ ~overlapped =>
       \A r \in pending : r.id \notin named =>
         pkt_buffer[r.id] = r.pkt /\ packets[r.pkt].live
  /\ SentAsCaptured

=============================================================================
