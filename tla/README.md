# Verification of the libfluid example programs

The repository bundles the documentation of libfluid (an OpenFlow controller
library, whose two halves `libfluid_base` and `libfluid_msg` are git submodules
and not part of the tree) with the programs written on top of it.  Those programs
are what is modelled: the multicast agent, the controller framework with its
learning switches, and the example OpenFlow 1.0 switch with its client library.
The library itself, the OpenFlow switch underneath the agent and the network are
*external*: they appear in the models only as their callers rely on them.

Line references below are relative to `examples/`.

## 1. Inventory

### Multicast agent (`controller/mc-agent`)

* **State.** `multicast_session_store_` maps an `MCGroup` (source address, UDP
  ports, an OpenFlow context) to an `MCGroupMemberMap` (interface to
  `MCGroupMember`).  The context keeps the vector of buckets
  (`member_of13_buckets`), one reusable group-mod (`ofgroupmod`) and one reusable
  flow-mod.  Every member keeps the *index* of its bucket.  A static counter
  hands out OpenFlow group ids; one pointer, `ofconn`, names the switch.
* **Operations.** `event_callback` (switch up, switch down, packet-in),
  `handle_IGMP_packet`, `handle_UDP_packet`, `join_member_to_group`,
  `leave_member_from_group`, `create_group`.
* **Interactions.** OpenFlow events arrive on the library's worker threads; groups
  are created from the thread of the network-controller client
  (`MCNWClient.hh`); everything leaves through `ofconn->send`, which queues and
  returns.  Nothing is acknowledged and no error is listened for.
* **Hard.** Two vectors and a map of indexes that have to stay in step over every
  order of joins and leaves; ADD/MODIFY/DELETE of a group chosen from the size of
  a map, tested before the change in one handler and after it in another; messages
  in flight while the next decision is taken; a connection that is never released;
  narrowed integers, byte orders and a wrapping counter.
* **Correct when** the switch forwards exactly what the agent has recorded, no
  message is refused, a bucket reaches the interface its member is on, upstream
  knows whether there are members, and who joined is eventually served.

### Network-controller client (`controller/mc-agent/MCNWClient.hh`)

A thread of its own reads fixed-size records from a TCP stream and calls
`create_group`.  *Hard:* the stream is not framed, the store is shared with the
OpenFlow workers without a lock, `stop()` frees what the thread uses, a lost
connection is not re-established.

### Controller framework (`controller/Controller.hh`)

`Controller` turns library callbacks into events and hands each to the registered
applications, synchronously, on the worker thread of the connection; `running` is
cleared by `stop()` in another thread.  *Hard:* dispatch racing with stop, who
frees a message's buffer, a signal between the test of `quit` and the sleep.

### Learning switches (`Controller.hh`, `msg`, `raw`, `loci`, `android`, `java`, `python`)

A table of MAC addresses per connection, kept as the connection's application data
and replaced on every features reply; packet-ins learn the source and forward or
flood.  *Hard:* what survives of a table when the switch goes away or answers
twice, stations that move, packets the switch has buffered.

### Example switch (`switch`)

A flow table (an ordered set), a packet buffer, one capture thread per port, and
the OpenFlow client's event loop that executes flow-mods and packet-outs.
*Hard:* no lock anywhere; a static buffer id incremented by several threads;
packets freed while they are still in the buffer; match functions whose wildcard
tests use `~` on a Boolean; priorities compared with `<=` in a set; the client's
reconnection, echo and version negotiation.

### Not program logic

SWIG interface files, Mininet's files, Android resources, vendored protocol
headers and `*_backup` files have no behaviour of their own.

## 2. The modules

### Multicast agent: `MulticastApp`, `OpenFlowSwitch`, `MulticastSwitch`, `MulticastWire`, `MulticastService`

`MulticastApp` has one action per way into the agent.

| action | code (`controller/mc-agent`) |
|---|---|
| `ConnectionStarted`, `SwitchUp`, `SwitchDown` | `event_callback`, the branches of `EVENT_SWITCH_UP` and `EVENT_SWITCH_DOWN`, and what `Controller.hh` dispatches |
| `UnboundPacketIn`, `ForeignPacketIn` | the comparison of connection ids in `event_callback`, where `ofconn` may be NULL or was never set |
| `IGMPPacketIn` | `handle_IGMP_packet` |
| `UDPPacketIn` | `handle_UDP_packet` down to `join_member_to_group` and `leave_member_from_group` |
| `CreateGroup` | `create_group`, called from the network-controller client's thread |

`store`, `members`, `buckets` and `groupmod` are `multicast_session_store_`,
`MCGroupMemberMap`, `member_of13_buckets` and `ofgroupmod`.  A member's
`bucket_index` is the code's; removing a member erases the bucket and renumbers
the members behind it as the loop in `MCGroup.cc` does.  Port numbers are
truncated as the code truncates them, first to `uint16_t` and then to `uint8_t`.
`ofconn` starts out as NULL or as whatever was in memory, since no constructor
sets it.  The messages a handler sends are in `out`.  A handler is one step here: nothing in it
waits for the switch, and `AgentThreads` is where threads interleave.

`OpenFlowSwitch` (external) is the group and flow table of an OpenFlow 1.3 switch,
restricted to the messages the agent sends, with a flag that says whether it would
have answered one with an error.  `HonoursOutPort` leaves open whether the switch
filters deletions by `out_port`, which the agent sets to 0.  `MulticastSwitch`
composes the two with handlers' messages processed at once; `MulticastWire` extends it:
a FIFO connection is between the two, and the switch processes one message at a time;
what is queued when the connection goes down is lost.  `MulticastService` is the abstract
specification: the sets of copies the switch makes of each source's traffic, which
change by one receiver at a time and only for opened sources.  It does not know who
asks.  `MulticastSwitch` implements it, and a copy that comes or goes is the one of the
receiver and session whose packet the handler has in hand (`ImplementsService`, with
`OnlyForAsker`).  `MulticastWire` implements the service after *every single message*
(`ServiceAtEveryInstant`); over a connection the packet that asked was handled some
steps before its copy changes, so there the one copy that a message changes is not tied
to a packet.

### A tree of agents: `MulticastTree`

Two instances of `MulticastSwitch`, a root and an edge, and a link that may lose
packets.  The edge's `send_upstream_packet_out` puts the receiver's own packet on
the link; at the root the hook punts it, if it is there yet, and the root's agent
takes the link's port for one more receiver.  The root's own receivers join and
leave meanwhile.  `missed` is a history variable: the last packet for a group was
lost or came before the hook.

### The agent's threads: `AgentThreads`

The process of `MulticastController.cc`, on top of `MulticastApp`'s definitions:

| thread | steps | code |
|---|---|---|
| a worker per connection | `SwitchIsUp`, `Bind`, `Identify`; `PacketIn`, `LoadGroupId`, `StoreGroupId`, `FindSession`, `ReadKey`, `JoinOrLeave`; `Disconnect` | `event_callback`, `handle_IGMP_packet`, `handle_UDP_packet` |
| the client | `ClientConnects`, `ClientDisconnected`, `Arrive`, `Read`, then `LoadGroupId`, `StoreGroupId`, `FindGroup`, `InsertGroup`, `SendNext` | `MCNWClient.hh`, `create_group` |
| main | `DatapathKnown`, `StopServer`, `StopClient` | `main` |

A step ends wherever another thread can get in between to what the two share: the id
counter (a load and a store), the store and its iterator (a member of the
application), `ofconn` and `dpid`, and the connection, on which each message of
`create_group` is sent by a step of its own.  A map searched while it is changed, a
connection used after the server has stopped, or a buffer freed while it is read
may each end the process.  The handler reads `->first` of the iterator (`ReadKey`) and
`->second` some lines later (`JoinOrLeave`); if another bound worker has moved it in
between, the model takes that for the end of the process and follows it no further.

A packet-in may be of any packet.  `Punted` notes whether the agent's own hook punted it
(`hooked`), but `PacketIn` asks nothing of it: other rules of the switch may punt packets
for addresses without a hook, for groups half made and for addresses nobody has a session
for, IGMP packets among them; packets of another connection than the bound one are
dropped, and one that comes before any is bound ends the process.  `early` is a history
variable: such a packet was served for a root's group between the insertion of the session
and the sending of its group-mod (`Pending`).  The stream of records arrives in pieces of half a record
(8 of its 16 bytes), any number at a time; `Stray` is what the code makes of 16
bytes that begin in the middle of a record.

### The controller framework: `ControllerEvents`

`Controller.hh` under the programs built on it (`Programs`: what they register for,
whether they are a `BaseLearningSwitch`, whether `start` blocks): the workers'
`message_callback`, `connection_callback` and `dispatch_event`, one step per access
to what is shared (`running`, the map of listeners, the list of tables and its
mutex, the message), and main's `wait_for_sigint`, `stop` and return.  What the
library owes is in the module's head: a connection belongs to one worker, messages
are freed by who gets them (`keep_data_ownership(false)`), and `OFServer::stop`
closes the connections and waits for the workers.

### Example switch: `FlowMatch`, `ExtractFields`, `SwitchDatapath`

`FlowMatch` holds the matching functions of `switch/flow.hh` and `flow.cc`:
`pkt_match`, `strict_match`, `non_strict_match` and the address comparisons with
masks.  A field is wildcarded by membership in a set; an address is the set of
its one-bits, so the C expressions over words become set operations.
`FlowMatchCheck` compares them with a reference definition, the set of packets
each rule matches.

`ExtractFields` is `extract_flow_fields` as a step-by-step machine over a frame cut off
at any byte: which header it looks at next, and how many bytes it believes are left.

`SwitchDatapath` is the switch with its threads interleaved at the accesses to
what they share: the set of flows (a sequence, in the order that `cmp_priority`
gives it), `pkt_buffer`, the static `buffer_id`, and the capture ring whose slots
are reused while pointers into them are in the buffer.  An increment of
`buffer_id` is a load and a store; a mention of it later is either the value the
thread stored or the variable read again, since the compiler may do both.  Two
threads in a container at the same time may end the process (`crashed`).
`overlapped` is a history variable: two threads have been giving out ids at one time.
The connection may be lost and renewed (`Disconnect`, `Connect`): flows and buffered
packets stay, what the controller was asked is never answered.  After SIGINT main
closes one capture after the other, waiting for the thread of each (`StopPort`), then
the connection (`StopLoop`), and deletes the switch (`Destroy`).  Undefined behaviour
(`May`) is a possible end of the process: an output to a port that is not there, a
capture closed under `pcap_loop` or under packets still in the buffer, an entry
that is deleted twice.  Memory that has been freed holds any frame.

The controller may name any buffer id at any time: one it was told of, one it has answered
before, or one it has made up, for which `pkt_buffer[id]` makes an entry with a null
pointer (`datapath.cc:77`, `126`).  `named` is a history variable: the ids it has named.  A flow-mod
carries what its sender put there, values in fields that it wildcards included
(`datapath.cc:61-67`); `zeroed` is a history variable: so far they were all 0.

### OpenFlow client of the switch: `OFClient`

The main thread (start and the three steps of stop), the thread that connects, and
the event loop, with the callbacks of `switch/client` and of `Switch.hh`.  A
connection is identified by its number, the `phase` of the `BaseOFConnection` and
the `state` and `alive` of the `OFConnection` around it.  Of the library it is
used that `close()` makes the event loop report `EVENT_CLOSED` and that deleting a
connection ends its timers.  The controller may ask for the features any number of times
(in a run `MaxTimers`), and every request adds one more echo timer (`OFClient.cc:55-66`).
Time is not modelled: a timer may come due at any moment, right after another one and
while an answer is late.  The one assumption is in the guard of `SendEcho`: the event loop
sees that the peer has closed the connection before it runs a timer of it.

### Learning switches: `LearningSwitch`

The six programs that keep a learning table (`msg` with OpenFlow 1.0 and 1.3,
`raw`, `java`, `python` with either version; `loci` is a copy of `raw`) in one
module: they share a design and differ in who makes the table, in what they do of a
broadcast, in the timeouts and in the default flow of OpenFlow 1.3.  The switch
(external) keeps flows, expires them and asks about packets that match none;
stations move between its ports at any time, and may send to their own address
(`ToSelf`), which no program tests for.  A switch may send its features again
(`Announce`), and every such SWITCH_UP empties the table (`Controller.hh:217-227`).
`seen` is a history variable: the ports a station has sent from.

`Expire` is an OpenFlow switch's.  The repository's own example switch, on which
`switch/README.md:91-93` says `msg`'s learning switch can be tried, ignores the timeouts
of a flow-mod and keeps flows for ever (`datapath.cc:63-75`): there a station that moves is
not found again, and `StationsLearned` and `FlowsConverge` do not hold.

## 3. The runs

| run | instance | shows |
|---|---|---|
| `app_safety` | 2 connections, 2 groups, 1 receiver, interfaces 1, 3 and 258, at most 6 groups constructed | agent and switch agree (`DatapathMirrors`), no message is refused, group ids are distinct, indexes and buckets stay in step in every order of joins and leaves, a bucket reaches its member's interface if that is a number of 8 bits, upstream knows whether there are members, nothing reaches the switch once its connection is down, and the pair implements the service, each handler for the receiver that asked |
| `wire` | 1 connection, 2 groups, 1 receiver, 2 interfaces, messages in flight, a switch that ignores `out_port` | no flow ever points at a missing group, every single message is at most one step of the service, receivers are eventually served and released (`ReceiversFollowed`) |
| `tree` | an edge with receivers on 2 ports below a root with receivers on 1, 1 group, at most 9 and 12 groups constructed | what the root copies down the branch is what the edge needs, or is about to be asked for (`BranchInStep`), and follows each first join and last leave that is not missed (`BranchFollows`) |
| `agent_threads` | 7 scenarios of the network controller, the switches and the packets they punt (below), 2 connections, up to 3 records that arrive half a record, one or two at a time | the client finds the agent bound; no packet that a hook punts reaches a group half made; only three races make a switch refuse a message; a record that arrives whole and alone, behind others that did, is handled |
| `controller` | 2 workers with a connection each, 4 programs, 3 messages | messages are freed once, tables are neither lost nor freed early, no application hears of what `stop()` closes, SIGINT ends the program |
| `matching` | every pair of rules over 2 fields and 1 address bit, with all masks | the matching functions mean what OpenFlow 1.0 says of sets of packets |
| `frame_parsing` | frames of every length up to 62 bytes with up to 2 VLAN tags | no header is read out of bounds, only whole ICMP headers leak memory, an untagged frame is parsed fully, the function returns |
| `datapath` | 2 ports, 1 ring slot each, 2 packets, 2 buffer ids; up to 3 flows of 5 rules on 1 field, three of which wildcard it, and 2 priorities, or (`MCFocus`) one of 2 rules where there are packets | the table stays ordered by priority, and free of duplicates as long as wildcarded fields were sent as 0 (`TableSound`); whatever ids the controller names, through lost connections and the stop, the first answer to a packet-in finds its packet unless two threads gave out ids at one time, and sends what was captured unless its slot of the ring was reused or freed or the packet deleted (`AnswersFindPackets`) |
| `learning` | 1 connection, 2 stations of which one sends to itself too, 2 ports, every program but `msg10` (whose handlers and timeouts are those of `raw`), 2 features replies, 1 message in flight either way | a flow leads to a port its destination has sent from (`FlowsLeadToStations`); in the end tables know the stations that have stopped moving, and flows lead to where they are |
| `client` | 2 successive connections, 2 echo timers on each, 1 message in flight | one connection at a time, no death once an answer has been read, silence is noticed, a closed connection comes back |
| `vlan_tags` (violation) | as `frame_parsing` | a VLAN-tagged frame's network header is never parsed (`flow.cc:105`) |
| `listener_map` (violation) | as `controller` | a worker adds an entry to the map of listeners while another is in it (`Controller.hh:174`) |

**Why these bounds.**  Of connections, groups, receivers and UDP ports the agent
only ever tests equality, so two of each show every confusion of one with another,
and they are symmetric (`MCSymmetry`).  A receiver's address is copied into its
bucket and never looked at; one receiver on every interface is enough.  Three
members is the least number with a bucket before, at and behind the erased one.
`MaxGroupId` lets a group be created after others have used ids up, and an ADD follow a
DELETE.  It stays below `IdSpace`, so in no run does the counter wrap around, and nothing
is said of ids after it has: `GroupIdsDistinct` and the theorems that use it assume that
fewer ids are drawn than the counter has values.

In `tree` groups do not interact, so one is enough; the edge's two receivers make a
first and a last that differ, and its 9 ids let it ask upstream several times over.
The seven scenarios of `agent_threads` are a group told of twice before another
(records behind one that fails, ids drawn in vain, up to two halves of records at once); a
record that looks like class D before a root's and an edge's; three groups of a root and a
packet for none of their ports (an increment of the id counter that is lost makes two of
them the same); a root's and an edge's with joins; an edge's alone with a join from each
port, a leave and an IGMP packet; a root's alone with a join, a leave and other traffic;
and a root's with two switches that come up at once, and a packet for an address without a
session.  A packet may be punted before, during and after
the creation of its group.  Together they reach each of the three races that
`RefusalsExplained` names without the other two.  Two workers are
the least for every race in `ControllerEvents`, and three messages give one
connection two SWITCH_UPs and a packet-in, or one message to each worker and one
that becomes no event.

62 bytes hold the longest headers there are, 802.3 with LLC and SNAP, IPv4 and TCP,
and every frame shorter than that is one of the cases.  A match function treats its
fields alike and address bits one by one, so two fields and one bit show every
combination of them (the theorems cover any number).  In the datapath two ports run
three threads, and two packets are the least that can be confused or share a slot.  Three
flows are the least for a rule that replaces one of two.  `MCFocus`, a constraint of the
run, keeps tables of several flows apart from packets and made-up ids, and the stop apart
from threads that have given out ids at one time; the theorems have all of that at once.  The learning switches' connections share nothing, so one is enough for the runs, and
`FlowsAlwaysLead` has any number.
Two connections are the least for a reconnection; the client is the same from the
second on.

**Deadlock** is not checked: agent, controller, switch and client may be stopped,
the bounded counters run out, and `extract_flow_fields` returns.

## 4. Fairness

* `MulticastWire`: weak fairness of delivery while the process lives.  The
  library's event loop flushes a connection's output buffer whenever the socket is
  writable.  No fairness of joins, leaves or of the agent's own handlers is assumed.
* `MulticastTree`: weak fairness of `LinkDelivers` while the root's agent lives: the
  link forwards what it does not lose.  Nothing obliges it not to lose.
* `AgentThreads`: weak fairness of the client's own steps: a thread that has work is
  scheduled.  The network controller, the switches and the user owe nothing.
* `ControllerEvents`: weak fairness of main and of each worker.  `sleep` returns
  (1000 seconds is a long time but an end), the library's `stop` returns when the
  workers are idle, and no assumption is made on switches or on SIGINT.
* `ExtractFields`: weak fairness of its steps; it is sequential code.
* `LearningSwitch`: weak fairness of handlers, of delivery and of a flow's expiry;
  strong fairness of `Ask`, the one assumption on the environment: stations go on
  sending to each other, so one whose packets the switch would ask about again and
  again gets one through.  Without it the tables of silent stations are never
  renewed.  `StationsLearned` and `FlowsConverge` are about stations that stop moving, on a
  switch that keeps OpenFlow's timeouts; the example switch does not (section 2).
* `OFClient`: weak fairness of connecting (the controller accepts in the end; the
  code retries every five seconds) and of the event loop's own steps.  The
  controller owes nothing, not even an answer to an echo.

## 5. What is proved

TLAPS checks these for every value of the constants, under the assumptions the
modules name.

| module | theorems | inductive invariant or argument |
|---|---|---|
| `MulticastAppProofs` | `TypeCorrect`, `BucketsAlwaysMatch`, `GroupModAlwaysInStep`, `GroupIdsAlwaysDistinct`, `BucketsAlwaysReach` | `AgentInv`, with `MembersAtTheirInterface` for the last |
| `MulticastSwitchProofs` | `DatapathAlwaysMirrors`, `NothingEverRefused`, `UpstreamAlwaysTracks`, `FrozenOnceDown` | `SwInv` |
| | `ServiceImplemented` (the refinement of the abstract service) | `ServiceInv` |
| | `NeverDangling`, `ServiceMessageByMessage` (with messages in flight) | `WireInv` |
| `AgentThreadsProofs` | `ThreadTypes`, `ClientAlwaysBound`, `HookAlwaysLast`, `RefusalsAlwaysExplained` | `ATypeOK`, `BoundInv`, `HookInv`, `RefusalInv` |
| `ControllerEventsProofs` | `ControllerTypes`, `MessagesAlwaysFreed`, `StopAlwaysSilent`, `TablesAlwaysKept` | `CTypeOK`, `MessagesOwned`, `LateInv`, `TablesInv` |
| `MulticastTreeProofs` | `BranchAlwaysInStep` | `TreeInv` |
| `SwitchDatapathProofs` | `TableAlwaysSound`, `DatapathTypes`, `AnswersAlwaysFindPackets` | `Sound`, `DatapathInv` |
| `ExampleSwitchProofs` | `AddressesAlwaysNest`, `AddressesAlwaysEqual`, `DeleteReachesContained`, `PacketMatchAlwaysAgrees` | set reasoning, no induction |
| | `ReadsAlwaysInBounds`, `LeakOnlyOnICMP`, `UntaggedAlwaysParsed` | with the type invariant the first is inductive; the others follow the parser from header to header |
| | `ClientTypes`, `AlwaysOneConnection`, `NeverFalselyDead` | `CInv`, `AnswerDue` |
| `LearningSwitchProofs` | `FlowsAlwaysLead` | `LInv` |

* **The agent.**  `BucketsMatchMembers` is inductive only together with the types
  (indexes never become negative) and with the group-mod's contents.  The heart is
  `EraseMatches`: erasing bucket *k* and lowering the indexes above *k* keeps a
  one-to-one correspondence.  `GroupIdsAlwaysDistinct` needs
  `MaxGroupId < IdSpace`: fewer groups are constructed than there are ids.
  `BucketsAlwaysReach` is two invariants: which bucket is a member's, and at which
  interface the member is.
* **Agent and switch.**  `SwInv` is `AgentInv` with the distinctness of ids, the fact
  that the bound connection was up once, and `SwitchInv`: while attached, groups and
  flows in the switch are those of the sessions.  `NothingRefused` alone is not
  inductive: that an ADD is not refused follows from the group's absence, which
  follows from there being no members, which is `DatapathMirrors`.  The proof has a
  lemma per batch of messages (what the switch looks like after it) and one per handler.
  `DatapathAlwaysMirrors`, `NothingEverRefused` and `UpstreamAlwaysTracks`
  assume `MaxGroupId < IdSpace` too.
* **The service.**  `ServiceImplemented` says that whatever handler runs, the copies the
  switch makes change by one receiver at most, only for a source that has been opened, and
  only for the receiver and the session of the packet in hand: a copy comes only if that
  receiver has just asked to join, and goes only if it has asked to leave.
  `ServiceInv` adds to `SwInv` that no flow points at a group that is not there,
  that members are at the interfaces they joined on, and that the hooks in the switch are
  those of the sessions.  It assumes
  `IntfsDistinct`, that the interfaces in use still differ in 8 bits: of two that do
  not (1 and 257), the second receiver's join is a second copy on the first one's port
  (`MCGroupMember.hh:73`).
* **Messages in flight.**  `WireInv` says that there is a *trail*, a list of the states the
  switch goes through as it processes what is queued: it begins with the switch as it
  is, each state in it is sound, each message is at most one step of the service, and
  `ServiceInv` holds of its last state, which is the one the agent has decided for.  A handler
  appends its messages' states to the trail, a delivery takes the first one off, and a
  lost connection leaves the switch in the first state, which is sound like all others.
* **A tree of agents.**  `TreeInv` has `ServiceInv` of either agent, the sessions the
  network controller asks for (`SessionsInv`: the same two UDP ports at both, and only the
  root is a root), and `InStep` of every group: the last packet on the link is a join
  exactly if the edge has members, and once none is left the edge is a member at the root
  exactly if it has members itself, unless that last packet was missed.  That an agent
  asks upstream for what it has become, and asks for nothing when its becoming empty or
  not has not changed, is `PacketAsks`, proved for any agent; that copies are made for
  members and for nobody else is `CopiesServeMembers`.  `BranchAlwaysInStep` assumes that
  the bounds on group ids are below `IdSpace` and that the ports of a switch differ in
  8 bits (`PortsDistinct`), at the root the port of the link included.
* **Threads of the agent.**  `BoundInv` says where every worker may stand between
  `ofconn = ...` and `dpid = ...` (`MCApps.hh:138-141`): whoever overtakes whom, `dpid` is
  not set before `ofconn` is, and the client starts after `dpid`.  `HookInv` follows a
  hook from the client's list of messages over the connection into the switch and from
  there, as a packet that it punts, into a worker's hands: everywhere on this way its group is
  one that `create_group` has finished with.  Of packets that other rules punt nothing of the
  kind holds, and nothing is claimed.
  `RefusalInv` says why no switch refuses a message while one connection is bound, no two
  sessions share an id and no packet has come `early`.  The messages queued on the
  connection are each accepted and *lead* the set of groups in the switch to the groups the
  agent takes for installed: those of root sessions whose group-mod the client has sent, and
  those of other sessions with members.  A worker may change a session whose hook, or whose
  flow, the client has still to send; only a root's whose group-mod is still to be sent is
  not installed when the worker's MODIFY goes out, and that is the third race.  What the
  client has still to send belongs to the session it has inserted.  On a connection that is
  not bound nothing is ever sent.  The three races that `RefusalsExplained` names are the only
  ways out.
* **The controller framework.**  `MessagesOwned`: a message that is not yet freed has one
  worker, and no two have the same.  `TablesInv`: a table is in the list or in one
  worker's hands, and whoever has the mutex copies the list as it is, so no push
  overwrites another.  `LateInv`: connections are closed by `stop()` only after
  `running` has been cleared, so a worker that is told of it does not dispatch it.
* **The example switch.**  `Sound` of the flow table needs the loops of `add_flow` and of
  the deletions alone; they are proved by the order of the numbers of the entries they
  leave.  Priorities are in order for any flow-mods.  That no rule is there twice is proved
  while `zeroed`: then strict matching means equal wildcards and values, which is transitive, so
  a new rule matches one old one at most.  `DatapathInv` has a part that always holds (who
  works on what, what is in the ring unless its slot has been reused or freed, what is left
  after the stop) and `AloneInv`, which holds until two threads give out buffer ids at one
  time: the id in hand is the last one given out, its entry is made by that thread unless the
  controller has named the id already, and a packet is being handled or waiting for its first
  answer in one place only.
* **`extract_flow_fields`.**  A leak is the buffer of a whole ICMP header, and a frame
  without a VLAN tag is parsed as far as its bytes go, for frames of every length.
* **The client.**  `CInv` adds to the types that no connection is being made while
  one is live.  `AnswerDue`: while `alive` is false the controller owes an answer to an echo,
  or its answer is in flight, if the controller is there.  So for any number of features
  requests and of timers a timer that finds `alive` false does so before the answer has been
  read (`NeverFalselyDead`).  It does not say that a controller is given time to answer:
  with two timers it may not be.
* **The learning switches.**  `LInv` says of tables, packet-ins, flows in flight and
  flows installed that their ports are ones the station has been seen at; `seen` only grows.

**Only model-checked:**

* everything with fairness, which is out of the prover's reach: `ReceiversFollowed`,
  `BranchFollows`, `RecordsHandled`, `Stops`, `StationsLearned`, `FlowsConverge`,
  `SilenceNoticed`, `ComesBack`, `Returns`;
* the properties of the two violation runs, which do not hold.

What a fold returns takes an induction over its sequence, which the provers cannot do:
`WireInv` says that a trail exists, which is kept step by step, and `WithoutMatching` of
`SwitchDatapath` is written by the numbers of the entries that stay.

## 6. What is not modelled, and what was seen on the way

Not modelled:

* trees of more than two agents, and agents of a tree that lose their switch
  (`MulticastSwitch` has one agent that does);
* what a map is like after a race: in the models the process dies or goes on unharmed, and
  where another worker has moved the agent's iterator it dies;
* packets that are neither UDP nor IGMP over IP, which the agent drops before anything else;
* the secure program's two controllers in one process, and parsing of arguments;
* the switch's barrier replies, which change no state;
* packets' contents: how raw and loci copy them into a packet-out;
* the library itself, TLS, JNI, SWIG and Mininet's files.

Places where code and comments, or two parts of the code, differ and that no run
reports:

* The member's interface is a `uint8_t`, so an interface above 255 gets a bucket for
  another one (`MCGroupMember.hh:73`); `BucketReachesInterface` excludes it by name.
* A second group of the same source is dropped by the store although
  `MCGroupMember.hh:52-53` speaks of sessions by address and port (`MCGroup.hh:128`).
* Equal UDP ports of source and receivers, the class-D test's byte order and the
  wrap of the group-id counter are each taken as the code has them.
* `strict_wild` applies `~` to a Boolean, so its test that neither match wildcards a field is
  always true, and rules of which one does match strictly if the values are equal
  (`flow.hh:25`; the comment at 16 says otherwise).  `nonstrict_wild` does the same
  (`flow.hh:80`; the comment at 68-71).  `OFPFF_CHECK_OVERLAP` is ignored.
* Values that a flow-mod holds in wildcarded fields are kept as sent, and with `flow.hh:25`
  they decide which rules replace each other: one ADD may match two rules, of which it erases
  the first, and a rule is then in the table twice (`datapath.cc:68-74`).
* A buffer id the controller makes up leaves an entry with a null pointer, which keeps the
  packet that is given this id later from being saved (`datapath.cc:126`, `port.cc:68`).
* A second features request adds a second echo timer, which may close a connection that
  works right after the first one has asked (`OFClient.cc:55-66`).
* A packet that another rule than the hook punts, between the insertion of a root's session
  and its group-mod, makes a MODIFY precede the ADD (`MCApps.hh:303-310`).
* `RawApps.hh:139` copies the start of the message, not the packet, into a flooded
  packet-out; loci's carries no data.
* `LearningSwitch.java:56` compares with a broadcast address that lacks a byte.
* `Controller.hh` accepts OpenFlow 1.3 only (line 123), although raw and loci are 1.0
  applications and `controller/README.md:24-25` says that msg's `l2` works with 1.0 and
  1.3 at the same time; the Android copy accepts both.
* Two capture threads that increment `Datapath::buffer_id` at one time give one id to
  two packets, or announce an id that is another packet's (`port.cc:65-69`); a packet
  in the buffer is a pointer into the capture ring, whose slot is reused while it waits
  (`port.cc:42`).  `AnswersFindPackets` excepts both by name; without either exception it fails.
* `Switch::stop` closes a capture before it has waited for the thread that runs
  `pcap_loop` on it (`Switch.hh:95-97`), and `~Datapath` deletes packets that
  `handle_packet_out` or `handle_flow_mod` has deleted (`datapath.cc:9`).
* `OFClient::stop` closes the connection the event loop has seen come up: one that
  `try_connect` has just made is left open (`OFClient.hh:50`).
* A record of the network controller that arrives with another waits for a third, and
  a part of one is thrown away, after which every record is cut in the wrong place
  (`MCNWClient.hh:83-88`).  Its comment speaks of 8 bytes; there are 16.
* Two workers may bind two connections, after which the role request, and what main
  believes to be the datapath, can be the other one's (`MCApps.hh:137-141`).
* A lost increment of the group-id counter gives two sessions one group id (`MCGroup.hh:85`).
* After `ctrl.stop()` the client's thread may still send on a connection that is gone
  (`MulticastController.cc:37-38`); the client does not reconnect.
* Messages that are neither packet-in nor features reply are never freed
  (`Controller.hh:137-144`).
* An unbuffered packet to a known destination is dropped by the OpenFlow 1.3 programs.
* The client reconnects after the controller closes a connection but not after
  `EVENT_DEAD`, and its test of the hello's version (`not x & y`) refuses nothing.

## 7. Plan

| order | module | what it models | status |
|---|---|---|---|
| 1 | `MulticastApp`, `OpenFlowSwitch`, `MulticastSwitch`, `MulticastService`, `MulticastWire` | the agent and its switch | done, proved |
| 2 | `FlowMatch`, `ExtractFields` | matching and parsing of the example switch | done, proved |
| 3 | `SwitchDatapath` | threads, buffer and table of the example switch | done, proved |
| 4 | `OFClient`, `LearningSwitch` | the switch's client, the learning switches | done, proved |
| 5 | `MulticastTree` | an edge agent below a root agent | done, proved |
| 6 | `AgentThreads` | the agent's threads and the network controller's stream | done, proved |
| 7 | `ControllerEvents` | dispatch, `running`, `stop()`, who frees messages and tables | done, proved |

