--------------------------- MODULE LearningSwitch ---------------------------
(***************************************************************************)
(* The learning-switch applications (examples/controller/msg, raw, loci,   *)
(* java, python) with a switch and its stations.  A packet that matches no *)
(* flow of the switch goes to the application, which learns behind which   *)
(* port its sender is and installs a flow to its destination if it has     *)
(* learned that one, or has the packet flooded if it has not.              *)
(*                                                                         *)
(* All programs have this design; they differ in the OpenFlow version, the *)
(* timeouts of their flows, what they do of a broadcast, and in who makes  *)
(* the table of a connection.  Packets are a source and a destination:     *)
(* their contents, and how a packet-out carries them, are left out.  The   *)
(* version is taken as negotiated: of the two copies of Controller.hh only *)
(* the one for Android accepts OpenFlow 1.0, on which raw and loci rely.   *)
(***************************************************************************)
EXTENDS Integers, Sequences, FiniteSets

CONSTANTS
  Conns,      \* connections of switches
  Macs,       \* addresses of stations
  Broadcast,  \* the address ff:ff:ff:ff:ff:ff
  Ports,      \* ports of a switch
  Programs,   \* which of the programs below may be running
  ToSelf,     \* stations that also send to their own address
  MaxToCtl,   \* BOUND: messages in flight to the application
  MaxToSw,    \* BOUND: messages in flight to the switch
  MaxReplies, \* BOUND: features replies of a switch over a connection
  NULL        \* no table, no entry in a table

AllPrograms == {"msg10", "msg13", "raw", "java", "python10", "python13"}

ASSUME LearningAssumption ==
  /\ Programs \subseteq AllPrograms
  /\ Broadcast \notin Macs /\ NULL \notin Ports
  /\ MaxToCtl \in Nat \ {0} /\ MaxToSw \in Nat \ {0} /\ MaxReplies \in Nat
  /\ ToSelf \subseteq Macs

\* the programs that are applications of Controller.hh; loci is a copy of raw
ControllerApps == {"msg10", "msg13", "raw"}

\* with OpenFlow 1.3 a switch asks nobody about a packet that matches no flow
Version13 == {"msg13", "python13"}

\* flows go after this long; 0 would mean never
MutantHardTimeout(program) == 0

HardTimeout(program) ==
  CASE program \in ControllerApps -> 10
    [] program = "python13" -> 60
    [] OTHER -> 300

Flow == [src : Macs, dst : Macs \cup {Broadcast}, out : Ports, hard : Nat]

VARIABLES
  program,  \* the program that runs
  conn,     \* conn[c]: "new", "up" or "down"
  table,    \* table[c]: the L2TABLE of a connection, or NULL
  at,       \* at[c][m]: the port station m is behind
  seen,     \* seen[c][m]: the ports it has sent from
  flows,    \* flows[c]: the flows of the switch
  default,  \* default[c]: packets that match no flow go to the application
  toCtl,    \* toCtl[c]: messages of the switch in flight
  toSw,     \* toSw[c]: messages of the application in flight
  replies   \* replies[c]: features replies the switch has sent

vars == <<program, conn, table, at, seen, flows, default, toCtl, toSw, replies>>

EmptyTable == [m \in Macs |-> NULL]

Init ==
  /\ program \in Programs
  /\ conn = [c \in Conns |-> "new"]
  /\ table = [c \in Conns |-> NULL]
  /\ at \in [Conns -> [Macs -> Ports]]
  /\ seen = [c \in Conns |-> [m \in Macs |-> {}]]
  /\ flows = [c \in Conns |-> {}]
  /\ default = [c \in Conns |-> program \notin Version13]
  /\ toCtl = [c \in Conns |-> <<>>]
  /\ toSw = [c \in Conns |-> <<>>]
  /\ replies = [c \in Conns |-> 0]

-----------------------------------------------------------------------------
(* The switch and its stations *)

Connect(c) ==
  /\ conn[c] = "new"
  /\ conn' = [conn EXCEPT ![c] = "up"]
  /\ toCtl' = [toCtl EXCEPT ![c] = <<[type |-> "features_reply"]>>]
  /\ replies' = [replies EXCEPT ![c] = 1]
  /\ UNCHANGED <<program, table, at, seen, flows, default, toSw>>

\* The switch sends its features again, unasked: every features reply is a
\* SWITCH_UP to the application.
Announce(c) ==
  /\ conn[c] = "up"
  /\ replies[c] < MaxReplies
  /\ Len(toCtl[c]) < MaxToCtl
  /\ toCtl' = [toCtl EXCEPT ![c] = Append(@, [type |-> "features_reply"])]
  /\ replies' = [replies EXCEPT ![c] = @ + 1]
  /\ UNCHANGED <<program, conn, table, at, seen, flows, default, toSw>>

Move(c, m, p) ==
  /\ at[c][m] # p
  /\ at' = [at EXCEPT ![c][m] = p]
  /\ UNCHANGED <<program, conn, table, seen, flows, default, toCtl, toSw, replies>>

Matched(c, m, d) == \E f \in flows[c] : f.src = m /\ f.dst = d

\* a station sends a packet that the switch asks the application about
Ask(c, m, d) ==
  /\ conn[c] = "up" /\ default[c]
  /\ ~Matched(c, m, d)
  /\ Len(toCtl[c]) < MaxToCtl
  /\ toCtl' = [toCtl EXCEPT ![c] =
                 Append(@, [type |-> "packet_in", src |-> m, dst |-> d,
                            in_port |-> at[c][m]])]
  /\ seen' = [seen EXCEPT ![c][m] = @ \cup {at[c][m]}]
  /\ UNCHANGED <<program, conn, table, at, flows, default, toSw, replies>>

\* A flow's hard timeout, or its idle timeout.  This is an OpenFlow switch's:
\* the repository's own example switch (datapath.cc) keeps flows for ever.
Expire(c, f) ==
  /\ f \in flows[c]
  /\ f.hard # 0
  /\ flows' = [flows EXCEPT ![c] = @ \ {f}]
  /\ UNCHANGED <<program, conn, table, at, seen, default, toCtl, toSw, replies>>

\* The switch processes the oldest message.  A flow replaces one with the same
\* match; a packet-out changes nothing that is modelled.
Deliver(c) ==
  LET msg == Head(toSw[c])
  IN  /\ toSw[c] # <<>>
      /\ toSw' = [toSw EXCEPT ![c] = Tail(@)]
      /\ \/ /\ msg.type = "flow_mod"
            /\ flows' = [flows EXCEPT ![c] =
                 { f \in @ : f.src # msg.flow.src \/ f.dst # msg.flow.dst } \cup {msg.flow}]
            /\ UNCHANGED default
         \/ /\ msg.type = "default_flow"
            /\ default' = [default EXCEPT ![c] = TRUE]
            /\ UNCHANGED flows
         \/ /\ msg.type = "packet_out"
            /\ UNCHANGED <<flows, default>>
      /\ UNCHANGED <<program, conn, table, at, seen, toCtl, replies>>

-----------------------------------------------------------------------------
(* The application.  Every handler takes the oldest message and appends its *)
(* answer to what is in flight to the switch.                              *)

Receive(c, type) ==
  /\ conn[c] = "up"
  /\ toCtl[c] # <<>>
  /\ Head(toCtl[c]).type = type
  /\ toCtl' = [toCtl EXCEPT ![c] = Tail(@)]

Answer(c, msgs) ==
  /\ Len(toSw[c]) < MaxToSw
  /\ toSw' = [toSw EXCEPT ![c] = @ \o msgs]

\* OFPP_FLOOD of the packet in a packet-out
Flood == [type |-> "packet_out"]

InstallFlow(pi, out) ==
  [type |-> "flow_mod",
   flow |-> [src |-> pi.src, dst |-> pi.dst, out |-> out,
             hard |-> HardTimeout(program)]]

\* the destination is learned instead of the source
MutantLearn(t, pi) ==
  IF pi.dst = Broadcast THEN t ELSE [t EXCEPT ![pi.dst] = pi.in_port]

Learn(t, pi) == [t EXCEPT ![pi.src] = pi.in_port]

\* no station sends from the broadcast address, so that is never found
Known(t, d) == d # Broadcast /\ t[d] # NULL

\* learn the source, then flood or install a flow
LearnAndForward(c, pi, before) ==
  LET after == Learn(before, pi)
  IN  /\ table' = [table EXCEPT ![c] = after]
      /\ Answer(c, IF Known(after, pi.dst) THEN <<InstallFlow(pi, after[pi.dst])>>
                   ELSE <<Flood>>)

\* a connection whose SWITCH_UP has not been seen has no table
AppPacketIn(c, pi) ==
  \/ /\ table[c] = NULL
     /\ UNCHANGED <<table, toSw>>
  \/ /\ table[c] # NULL
     /\ LearnAndForward(c, pi, table[c])

MsgPacketIn(c, pi) == program \in {"msg10", "msg13"} /\ AppPacketIn(c, pi)
RawPacketIn(c, pi) == program = "raw" /\ AppPacketIn(c, pi)

\* the table is made with the first packet that needs it
TableOrNew(c) == IF table[c] = NULL THEN EmptyTable ELSE table[c]

\* the constant that is compared with is not the broadcast address: it lacks
\* a byte of ones
JavaPacketIn(c, pi) ==
  /\ program = "java"
  /\ LearnAndForward(c, pi, TableOrNew(c))

\* the sender of a broadcast is not learned
PythonPacketIn(c, pi) ==
  \/ /\ pi.dst = Broadcast
     /\ Answer(c, <<Flood>>)
     /\ UNCHANGED table
  \/ /\ pi.dst # Broadcast
     /\ LearnAndForward(c, pi, TableOrNew(c))

Python10PacketIn(c, pi) == program = "python10" /\ PythonPacketIn(c, pi)
Python13PacketIn(c, pi) == program = "python13" /\ PythonPacketIn(c, pi)

PacketIn(c) ==
  /\ Receive(c, "packet_in")
  /\ LET pi == Head(toCtl[c])
     IN  \/ MsgPacketIn(c, pi) \/ RawPacketIn(c, pi)
         \/ JavaPacketIn(c, pi)
         \/ Python10PacketIn(c, pi) \/ Python13PacketIn(c, pi)
  /\ UNCHANGED <<program, conn, at, seen, flows, default, replies>>

\* the default flow is forgotten
MutantSwitchUp(c) ==
  /\ Receive(c, "features_reply")
  /\ table' = IF program \in ControllerApps THEN [table EXCEPT ![c] = EmptyTable]
              ELSE table
  /\ UNCHANGED <<program, conn, at, seen, flows, default, toSw, replies>>

\* a features reply: the applications of Controller.hh make a table, in place
\* of any they had, and those of OpenFlow 1.3 install the flow that sends the
\* rest to the controller
SwitchUp(c) ==
  /\ Receive(c, "features_reply")
  /\ table' = IF program \in ControllerApps THEN [table EXCEPT ![c] = EmptyTable]
              ELSE table
  /\ Answer(c, IF program \in Version13 THEN <<[type |-> "default_flow"]>> ELSE <<>>)
  /\ UNCHANGED <<program, conn, at, seen, flows, default, replies>>

\* the connection is closed or found dead; the switch keeps its flows
SwitchDown(c) ==
  /\ conn[c] = "up"
  /\ conn' = [conn EXCEPT ![c] = "down"]
  /\ table' = IF program \in ControllerApps /\ table[c] # NULL
              THEN [table EXCEPT ![c] = EmptyTable] ELSE table
  /\ toCtl' = [toCtl EXCEPT ![c] = <<>>]
  /\ toSw' = [toSw EXCEPT ![c] = <<>>]
  /\ UNCHANGED <<program, at, seen, flows, default, replies>>

-----------------------------------------------------------------------------
\* the programs do not ask whether a packet is addressed to its sender
Destinations(m) == { d \in Macs \cup {Broadcast} : d # m \/ m \in ToSelf }

Next ==
  \E c \in Conns :
    \/ Connect(c) \/ Announce(c)
    \/ \E m \in Macs : \/ \E p \in Ports : Move(c, m, p)
                       \/ \E d \in Destinations(m) : Ask(c, m, d)
    \/ \E f \in flows[c] : Expire(c, f)
    \/ Deliver(c)
    \/ PacketIn(c)
    \/ SwitchUp(c)
    \/ SwitchDown(c)

\* The event loops of the two ends run, a flow's time runs out on a switch that
\* keeps OpenFlow's timeouts, and a station whose packets the switch would ask
\* about again and again gets one through: stations are taken to go on sending
\* to each other.
Fairness ==
  \A c \in Conns :
    /\ WF_vars(Deliver(c))
    /\ WF_vars(PacketIn(c))
    /\ WF_vars(SwitchUp(c))
    /\ \A m \in Macs : \A d \in Macs \ {m} : SF_vars(Ask(c, m, d))
    /\ \A m, d \in Macs : \A p \in Ports :
         WF_vars(Expire(c, [src |-> m, dst |-> d, out |-> p,
                            hard |-> HardTimeout(program)]))

Spec == Init /\ [][Next]_vars /\ Fairness

-----------------------------------------------------------------------------
(* Properties *)

PacketInMsg == [type : {"packet_in"}, src : Macs, dst : Macs \cup {Broadcast},
                in_port : Ports]

\* The type invariant: a table holds ports, and a flow one of the switch's.
TypeOK ==
  /\ program \in Programs
  /\ conn \in [Conns -> {"new", "up", "down"}]
  /\ table \in [Conns -> [Macs -> Ports \cup {NULL}] \cup {NULL}]
  /\ at \in [Conns -> [Macs -> Ports]]
  /\ seen \in [Conns -> [Macs -> SUBSET Ports]]
  /\ flows \in [Conns -> SUBSET Flow]
  /\ replies \in [Conns -> Nat]
  /\ default \in [Conns -> BOOLEAN]
  /\ toCtl \in [Conns -> Seq(PacketInMsg \cup [type : {"features_reply"}])]
  /\ toSw \in [Conns -> Seq([type : {"packet_out", "default_flow"}]
                             \cup [type : {"flow_mod"}, flow : Flow])]

InFlight(c) == { toSw[c][k].flow : k \in { j \in DOMAIN toSw[c] : toSw[c][j].type = "flow_mod" } }

\* A flow, installed or on its way, is for packets to a station, never for
\* broadcasts, and sends them to a port that this station has sent from on the
\* switch of the connection: whatever order packet-ins, moves and replacements
\* of the table come in, the two ends of a packet are never mixed up, not even
\* when they are the same station (MsgApps.hh:62-88).
FlowsLeadToStations ==
  \A c \in Conns : \A f \in flows[c] \cup InFlight(c) :
    /\ f.dst \in Macs
    /\ f.out \in seen[c][f.dst]

Stays(c, m, p) == conn[c] = "up" /\ at[c][m] = p

\* The application knows a station that stays where it is in the end, although
\* flows it has installed keep the station's packets away from it: the match
\* has no in_port, so only the timeouts (MsgApps.hh:112-113) let a moved
\* station's packets through again; a features reply that comes late empties
\* the table once more.
StationsLearned ==
  \A c \in Conns, m \in Macs, p \in Ports :
    <>[]Stays(c, m, p) => <>[](table[c] # NULL /\ table[c][m] = p)

\* And in the end no flow sends its packets anywhere else, although flows are
\* installed from a table that was old and are in flight when it is not.
FlowsConverge ==
  \A c \in Conns, m \in Macs, p \in Ports :
    <>[]Stays(c, m, p) => <>[](\A f \in flows[c] : f.dst = m => f.out = p)

=============================================================================
