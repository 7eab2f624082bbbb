------------------------ MODULE LearningSwitchProofs ------------------------
(***************************************************************************)
(* Flows lead to stations, for every number of connections, stations, ports *)
(* and messages in flight, and for every one of the programs.              *)
(***************************************************************************)
EXTENDS LearningSwitch, SequenceTheorems, TLAPS

Table == [Macs -> Ports \cup {NULL}]
CtlMsg == PacketInMsg \cup [type : {"features_reply"}]
SwMsg == [type : {"packet_out", "default_flow"}] \cup [type : {"flow_mod"}, flow : Flow]

\* With from[m] the ports that station m has sent from, a table holds such
\* ports,
TableSeen(from, t) == \A m \in Macs : t[m] # NULL => t[m] \in from[m]

\* a packet-in comes from one,
PacketSeen(from, pi) ==
  pi.type = "packet_in" => pi.in_port \in from[pi.src]

\* and a flow, installed or in a message, leads to one.
Leads(from, f) == f.dst \in Macs /\ f.out \in from[f.dst]

MessageLeads(from, msg) == msg.type = "flow_mod" => Leads(from, msg.flow)

\* The inductive invariant: tables and packet-ins, from which flows are made,
\* hold only ports that have been seen too.
Sound(c) ==
  /\ table[c] # NULL => TableSeen(seen[c], table[c])
  /\ \A k \in 1..Len(toCtl[c]) : PacketSeen(seen[c], toCtl[c][k])
  /\ \A k \in 1..Len(toSw[c]) : MessageLeads(seen[c], toSw[c][k])
  /\ \A f \in flows[c] : Leads(seen[c], f)

LInv == TypeOK /\ \A c \in Conns : Sound(c)

\* The types of what one connection has, one by one.
LEMMA TypeOKParts ==
  ASSUME TypeOK, NEW c \in Conns
  PROVE  /\ toCtl[c] \in Seq(CtlMsg) /\ Len(toCtl[c]) \in Nat
         /\ toSw[c] \in Seq(SwMsg) /\ Len(toSw[c]) \in Nat
         /\ flows[c] \subseteq Flow
         /\ seen[c] \in [Macs -> SUBSET Ports]
         /\ at[c] \in [Macs -> Ports]
         /\ table[c] # NULL => table[c] \in Table
<1>1. toCtl \in [Conns -> Seq(CtlMsg)] /\ toSw \in [Conns -> Seq(SwMsg)]
  BY DEF TypeOK, CtlMsg, SwMsg
<1> QED
  BY <1>1 DEF TypeOK, Table

\* The invariant gives the property.
LEMMA LInvLeads == LInv => FlowsLeadToStations
<1> SUFFICES ASSUME LInv, NEW c \in Conns, NEW f \in flows[c] \cup InFlight(c)
             PROVE  Leads(seen[c], f)
  BY DEF FlowsLeadToStations, Leads
<1>1. CASE f \in flows[c]
  BY <1>1 DEF LInv, Sound
<1>2. CASE f \in InFlight(c)
  <2>1. DOMAIN toSw[c] = 1..Len(toSw[c])
    BY TypeOKParts DEF LInv
  <2>2. PICK k \in 1..Len(toSw[c]) : toSw[c][k].type = "flow_mod" /\ f = toSw[c][k].flow
    BY <1>2, <2>1 DEF InFlight
  <2> QED
    BY <2>2 DEF LInv, Sound, MessageLeads
<1> QED
  BY <1>1, <1>2

\* The invariant holds before any station has sent.
LEMMA InitLInv == Init => LInv
<1> SUFFICES ASSUME Init PROVE LInv
  OBVIOUS
<1>1. TypeOK
  BY DEF Init, TypeOK, EmptyTable
<1>2. \A c \in Conns : Sound(c)
  BY DEF Init, Sound
<1> QED
  BY <1>1, <1>2 DEF LInv

-----------------------------------------------------------------------------
(* Messages in flight *)

\* The parts of a queue that is not empty.
LEMMA HeadTail ==
  ASSUME NEW S, NEW s \in Seq(S), s # <<>>
  PROVE  /\ Head(s) = s[1] /\ Head(s) \in S
         /\ Tail(s) \in Seq(S) /\ 1 \in 1..Len(s)
         /\ Len(s) \in Nat \ {0}
         /\ Len(Tail(s)) = Len(s) - 1
         /\ \A k \in 1..(Len(s) - 1) : Tail(s)[k] = s[k + 1] /\ k + 1 \in 1..Len(s)
  OBVIOUS

\* An answer of one message or none keeps what is in flight sound.
LEMMA AnswerSound ==
  ASSUME TypeOK, NEW c \in Conns, Sound(c), NEW msg \in SwMsg,
         MessageLeads(seen[c], msg), Answer(c, <<msg>>) \/ Answer(c, <<>>)
  PROVE  /\ toSw' \in [Conns -> Seq(SwMsg)]
         /\ \A d \in Conns : d # c => toSw'[d] = toSw[d]
         /\ \A k \in 1..Len(toSw'[c]) : MessageLeads(seen[c], toSw'[c][k])
<1>1. toSw[c] \in Seq(SwMsg) /\ Len(toSw[c]) \in Nat /\ toSw \in [Conns -> Seq(SwMsg)]
  BY TypeOKParts DEF TypeOK, SwMsg
<1>2. PICK msgs \in {<<msg>>, <<>>} : toSw' = [toSw EXCEPT ![c] = toSw[c] \o msgs]
  BY DEF Answer
<1>3. /\ msgs \in Seq(SwMsg) /\ Len(msgs) \in Nat
      /\ \A k \in 1..Len(msgs) : msgs[k] = msg
  <2>1. CASE msgs = <<msg>>
    BY <2>1
  <2>2. CASE msgs = <<>>
    BY <2>2
  <2> QED
    BY <2>1, <2>2
<1>4. /\ toSw[c] \o msgs \in Seq(SwMsg)
      /\ Len(toSw[c] \o msgs) = Len(toSw[c]) + Len(msgs)
      /\ \A k \in 1..(Len(toSw[c]) + Len(msgs)) :
           (toSw[c] \o msgs)[k] = IF k <= Len(toSw[c]) THEN toSw[c][k]
                                  ELSE msgs[k - Len(toSw[c])]
  BY <1>1, <1>3, ConcatProperties
<1>5. /\ toSw' \in [Conns -> Seq(SwMsg)]
      /\ toSw'[c] = toSw[c] \o msgs
      /\ \A d \in Conns : d # c => toSw'[d] = toSw[d]
  BY <1>1, <1>2, <1>4
<1>6. ASSUME NEW k \in 1..(Len(toSw[c]) + Len(msgs))
      PROVE  MessageLeads(seen[c], (toSw[c] \o msgs)[k])
  <2>1. CASE k <= Len(toSw[c])
    <3>1. k \in 1..Len(toSw[c]) /\ (toSw[c] \o msgs)[k] = toSw[c][k]
      BY <1>1, <1>3, <1>4, <2>1
    <3> QED
      BY <3>1 DEF Sound
  <2>2. CASE ~(k <= Len(toSw[c]))
    <3>1. k - Len(toSw[c]) \in 1..Len(msgs)
      BY <1>1, <1>3, <2>2
    <3>2. (toSw[c] \o msgs)[k] = msg
      BY <1>3, <1>4, <2>2, <3>1
    <3> QED
      BY <3>2
  <2> QED
    BY <2>1, <2>2
<1> QED
  BY <1>4, <1>5, <1>6

\* Receiving a message takes one away.
LEMMA ReceiveSound ==
  ASSUME TypeOK, NEW c \in Conns, Sound(c), NEW type, Receive(c, type)
  PROVE  /\ toCtl' \in [Conns -> Seq(CtlMsg)]
         /\ \A d \in Conns : d # c => toCtl'[d] = toCtl[d]
         /\ \A k \in 1..Len(toCtl'[c]) : PacketSeen(seen[c], toCtl'[c][k])
         /\ Head(toCtl[c]) \in CtlMsg /\ Head(toCtl[c]).type = type
         /\ PacketSeen(seen[c], Head(toCtl[c]))
<1>1. toCtl[c] \in Seq(CtlMsg) /\ toCtl \in [Conns -> Seq(CtlMsg)]
  BY TypeOKParts DEF TypeOK, CtlMsg
<1>2. /\ toCtl[c] # <<>> /\ Head(toCtl[c]).type = type
      /\ toCtl' = [toCtl EXCEPT ![c] = Tail(toCtl[c])]
  BY DEF Receive
<1>3. /\ Head(toCtl[c]) = toCtl[c][1] /\ Head(toCtl[c]) \in CtlMsg
      /\ Tail(toCtl[c]) \in Seq(CtlMsg) /\ 1 \in 1..Len(toCtl[c])
      /\ Len(Tail(toCtl[c])) = Len(toCtl[c]) - 1
      /\ \A k \in 1..(Len(toCtl[c]) - 1) :
           Tail(toCtl[c])[k] = toCtl[c][k + 1] /\ k + 1 \in 1..Len(toCtl[c])
  BY <1>1, <1>2, HeadTail
<1>4. /\ toCtl' \in [Conns -> Seq(CtlMsg)]
      /\ toCtl'[c] = Tail(toCtl[c])
      /\ \A d \in Conns : d # c => toCtl'[d] = toCtl[d]
  BY <1>1, <1>2, <1>3
<1>5. \A k \in 1..Len(toCtl'[c]) : PacketSeen(seen[c], toCtl'[c][k])
  BY <1>3, <1>4 DEF Sound
<1>6. PacketSeen(seen[c], Head(toCtl[c]))
  BY <1>3 DEF Sound
<1> QED
  BY <1>2, <1>3, <1>4, <1>5, <1>6

-----------------------------------------------------------------------------
(* The switch and its stations *)

\* Ports are only ever added to those a station has sent from, and what was
\* right of a table, a packet-in and a flow stays right.
LEMMA SeenGrows ==
  ASSUME NEW from \in [Macs -> SUBSET Ports], NEW now \in [Macs -> SUBSET Ports],
         \A m \in Macs : from[m] \subseteq now[m]
  PROVE  /\ \A t \in Table : TableSeen(from, t) => TableSeen(now, t)
         /\ \A msg \in CtlMsg : PacketSeen(from, msg) => PacketSeen(now, msg)
         /\ \A f \in Flow : Leads(from, f) => Leads(now, f)
         /\ \A msg \in SwMsg : MessageLeads(from, msg) => MessageLeads(now, msg)
<1>1. \A t \in Table : TableSeen(from, t) => TableSeen(now, t)
  BY DEF TableSeen
<1>2. ASSUME NEW msg \in CtlMsg, PacketSeen(from, msg) PROVE PacketSeen(now, msg)
  <2>1. CASE msg \in PacketInMsg
    BY <1>2, <2>1 DEF PacketSeen, PacketInMsg
  <2>2. CASE msg \in [type : {"features_reply"}]
    BY <2>2 DEF PacketSeen
  <2> QED
    BY <2>1, <2>2 DEF CtlMsg
<1>3. \A f \in Flow : Leads(from, f) => Leads(now, f)
  BY DEF Leads
<1>4. ASSUME NEW msg \in SwMsg, MessageLeads(from, msg) PROVE MessageLeads(now, msg)
  <2>1. CASE msg \in [type : {"flow_mod"}, flow : Flow]
    <3>1. msg.type = "flow_mod" /\ msg.flow \in Flow
      BY <2>1
    <3> QED
      BY <1>3, <1>4, <3>1 DEF MessageLeads
  <2>2. CASE msg \in [type : {"packet_out", "default_flow"}]
    BY <2>2 DEF MessageLeads
  <2> QED
    BY <2>1, <2>2 DEF SwMsg
<1> QED
  BY <1>1, <1>2, <1>3, <1>4

\* A connection of which nothing changes stays sound.
LEMMA SameSound ==
  ASSUME NEW c \in Conns, Sound(c), UNCHANGED <<table[c], toSw[c], toCtl[c], flows[c], seen[c]>>
  PROVE  Sound(c)'
  BY DEF Sound

\* A switch that connects has sent a features reply and no packet-in.
LEMMA ConnectLInv ==
  ASSUME LInv, NEW c \in Conns, Connect(c)
  PROVE  LInv'
<1> DEFINE reply == [type |-> "features_reply"]
<1>1. /\ toCtl' = [toCtl EXCEPT ![c] = <<reply>>]
      /\ replies' = [replies EXCEPT ![c] = 1]
      /\ UNCHANGED <<program, table, at, seen, flows, default, toSw>>
  BY DEF Connect
<1>2. <<reply>> \in Seq(CtlMsg) /\ PacketSeen(seen[c], reply)
  BY DEF CtlMsg, PacketSeen
<1> HIDE DEF reply
<1>3. /\ toCtl' \in [Conns -> Seq(CtlMsg)]
      /\ toCtl'[c] = <<reply>>
      /\ \A d \in Conns : d # c => toCtl'[d] = toCtl[d]
  BY <1>1, <1>2 DEF LInv, TypeOK, CtlMsg
<1>4. TypeOK'
  <2>1. replies' \in [Conns -> Nat]
    BY <1>1 DEF LInv, TypeOK
  <2> QED
    BY <1>1, <1>3, <2>1 DEF Connect, LInv, TypeOK, CtlMsg
<1>5. ASSUME NEW d \in Conns PROVE Sound(d)'
  <2>1. CASE d = c
    <3>1. \A k \in 1..Len(toCtl'[c]) : PacketSeen(seen[c], toCtl'[c][k])
      BY <1>2, <1>3
    <3> QED
      BY <1>1, <2>1, <3>1 DEF LInv, Sound
  <2>2. CASE d # c
    BY <1>1, <1>3, <2>2, SameSound DEF LInv
  <2> QED
    BY <2>1, <2>2
<1> QED
  BY <1>4, <1>5 DEF LInv

\* Another features reply is no packet-in either.
LEMMA AnnounceLInv ==
  ASSUME LInv, NEW c \in Conns, Announce(c)
  PROVE  LInv'
<1> DEFINE reply == [type |-> "features_reply"]
<1>0. TypeOK
  BY DEF LInv
<1>1. /\ toCtl[c] \in Seq(CtlMsg) /\ Len(toCtl[c]) \in Nat
      /\ toCtl \in [Conns -> Seq(CtlMsg)]
  BY <1>0, TypeOKParts DEF TypeOK, CtlMsg
<1>2. /\ toCtl' = [toCtl EXCEPT ![c] = Append(toCtl[c], reply)]
      /\ replies' = [replies EXCEPT ![c] = replies[c] + 1]
      /\ UNCHANGED <<program, conn, table, at, seen, flows, default, toSw>>
  BY DEF Announce
<1>3. reply \in CtlMsg /\ PacketSeen(seen[c], reply)
  BY DEF CtlMsg, PacketSeen
<1> HIDE DEF reply
<1>4. /\ Append(toCtl[c], reply) \in Seq(CtlMsg)
      /\ Len(Append(toCtl[c], reply)) = Len(toCtl[c]) + 1
      /\ \A k \in 1..Len(toCtl[c]) : Append(toCtl[c], reply)[k] = toCtl[c][k]
      /\ Append(toCtl[c], reply)[Len(toCtl[c]) + 1] = reply
  BY <1>1, <1>3
<1>5. /\ toCtl' \in [Conns -> Seq(CtlMsg)]
      /\ toCtl'[c] = Append(toCtl[c], reply)
      /\ \A d \in Conns : d # c => toCtl'[d] = toCtl[d]
  BY <1>1, <1>2, <1>4
<1>6. TypeOK'
  <2>1. replies' \in [Conns -> Nat]
    BY <1>0, <1>2 DEF TypeOK
  <2> QED
    BY <1>0, <1>2, <1>5, <2>1 DEF TypeOK, CtlMsg
<1>7. ASSUME NEW d \in Conns PROVE Sound(d)'
  <2>1. CASE d = c
    <3>1. \A k \in 1..(Len(toCtl[c]) + 1) : k \in 1..Len(toCtl[c]) \/ k = Len(toCtl[c]) + 1
      BY <1>1
    <3>2. \A k \in 1..Len(toCtl'[c]) : PacketSeen(seen[c], toCtl'[c][k])
      BY <1>3, <1>4, <1>5, <3>1 DEF LInv, Sound
    <3> QED
      BY <1>2, <2>1, <3>2 DEF LInv, Sound
  <2>2. CASE d # c
    BY <1>2, <1>5, <2>2, SameSound DEF LInv
  <2> QED
    BY <2>1, <2>2
<1> QED
  BY <1>6, <1>7 DEF LInv

\* A packet-in reports a port that its station has just been seen at.
LEMMA AskLInv ==
  ASSUME LInv, NEW c \in Conns, NEW m \in Macs, NEW d \in Destinations(m), Ask(c, m, d)
  PROVE  LInv'
<1> DEFINE pi == [type |-> "packet_in", src |-> m, dst |-> d, in_port |-> at[c][m]]
<1>0. TypeOK
  BY DEF LInv
<1>1. /\ toCtl[c] \in Seq(CtlMsg) /\ Len(toCtl[c]) \in Nat
      /\ toCtl \in [Conns -> Seq(CtlMsg)]
  BY <1>0, TypeOKParts DEF TypeOK, CtlMsg
<1>2. pi \in CtlMsg /\ at[c][m] \in Ports
  BY <1>0 DEF TypeOK, CtlMsg, PacketInMsg, Destinations
<1>3. /\ toCtl' = [toCtl EXCEPT ![c] = Append(toCtl[c], pi)]
      /\ seen' = [seen EXCEPT ![c][m] = seen[c][m] \cup {at[c][m]}]
      /\ UNCHANGED <<program, conn, table, at, flows, default, toSw, replies>>
  BY DEF Ask
<1>4. /\ seen' \in [Conns -> [Macs -> SUBSET Ports]]
      /\ \A e \in Conns : e # c => seen'[e] = seen[e]
      /\ \A n \in Macs : seen[c][n] \subseteq seen'[c][n]
      /\ at[c][m] \in seen'[c][m]
  BY <1>0, <1>2, <1>3 DEF TypeOK
<1>5. PacketSeen(seen'[c], pi)
  BY <1>2, <1>4 DEF PacketSeen
<1> HIDE DEF pi
<1>6. /\ Append(toCtl[c], pi) \in Seq(CtlMsg)
      /\ Len(Append(toCtl[c], pi)) = Len(toCtl[c]) + 1
      /\ \A k \in 1..Len(toCtl[c]) : Append(toCtl[c], pi)[k] = toCtl[c][k]
      /\ Append(toCtl[c], pi)[Len(toCtl[c]) + 1] = pi
  BY <1>1, <1>2
<1>7. /\ toCtl' \in [Conns -> Seq(CtlMsg)]
      /\ toCtl'[c] = Append(toCtl[c], pi)
      /\ \A e \in Conns : e # c => toCtl'[e] = toCtl[e]
  BY <1>1, <1>3, <1>6
<1>8. TypeOK'
  BY <1>0, <1>3, <1>4, <1>7 DEF TypeOK, CtlMsg
<1>9. ASSUME NEW e \in Conns PROVE Sound(e)'
  <2>1. CASE e # c
    BY <1>3, <1>4, <1>7, <2>1, SameSound DEF LInv
  <2>2. CASE e = c
    <3>1. /\ Sound(c)
          /\ seen[c] \in [Macs -> SUBSET Ports] /\ seen'[c] \in [Macs -> SUBSET Ports]
          /\ flows[c] \subseteq Flow
          /\ toSw[c] \in Seq(SwMsg)
          /\ table[c] # NULL => table[c] \in Table
      BY <1>0, <1>4, TypeOKParts DEF LInv
    <3>2. table[c] # NULL => TableSeen(seen'[c], table[c])
      BY <1>4, <3>1, SeenGrows DEF Sound
    <3>3. \A f \in flows[c] : Leads(seen'[c], f)
      BY <1>4, <3>1, SeenGrows DEF Sound
    <3>4. \A k \in 1..Len(toSw[c]) : MessageLeads(seen'[c], toSw[c][k])
      BY <1>4, <3>1, SeenGrows DEF Sound
    <3>5. \A k \in 1..(Len(toCtl[c]) + 1) : PacketSeen(seen'[c], Append(toCtl[c], pi)[k])
      <4>1. ASSUME NEW k \in 1..Len(toCtl[c]) PROVE PacketSeen(seen'[c], toCtl[c][k])
        <5>1. toCtl[c][k] \in CtlMsg /\ PacketSeen(seen[c], toCtl[c][k])
          BY <1>1, <3>1 DEF Sound
        <5> QED
          BY <1>4, <3>1, <5>1, SeenGrows
      <4>2. \A k \in 1..(Len(toCtl[c]) + 1) : k \in 1..Len(toCtl[c]) \/ k = Len(toCtl[c]) + 1
        BY <1>1
      <4> QED
        BY <1>5, <1>6, <4>1, <4>2
    <3> QED
      BY <1>3, <1>6, <1>7, <2>2, <3>2, <3>3, <3>4, <3>5 DEF Sound
  <2> QED
    BY <2>1, <2>2
<1> QED
  BY <1>8, <1>9 DEF LInv

\* A flow that reaches the switch leads where it did on the way.
LEMMA DeliverLInv ==
  ASSUME LInv, NEW c \in Conns, Deliver(c)
  PROVE  LInv'
<1>0. TypeOK /\ Sound(c)
  BY DEF LInv
<1>1. /\ toSw[c] \in Seq(SwMsg) /\ toSw[c] # <<>>
      /\ toSw \in [Conns -> Seq(SwMsg)]
      /\ toSw' = [toSw EXCEPT ![c] = Tail(toSw[c])]
      /\ UNCHANGED <<program, conn, table, at, seen, toCtl, replies>>
  BY <1>0, TypeOKParts DEF Deliver, TypeOK, SwMsg
<1>2. /\ Head(toSw[c]) = toSw[c][1] /\ Head(toSw[c]) \in SwMsg
      /\ Tail(toSw[c]) \in Seq(SwMsg) /\ 1 \in 1..Len(toSw[c])
      /\ Len(Tail(toSw[c])) = Len(toSw[c]) - 1
      /\ \A k \in 1..(Len(toSw[c]) - 1) :
           Tail(toSw[c])[k] = toSw[c][k + 1] /\ k + 1 \in 1..Len(toSw[c])
  BY <1>1, HeadTail
<1>3. /\ toSw' \in [Conns -> Seq(SwMsg)]
      /\ toSw'[c] = Tail(toSw[c])
      /\ \A d \in Conns : d # c => toSw'[d] = toSw[d]
  BY <1>1, <1>2
<1>4. \A k \in 1..Len(toSw'[c]) : MessageLeads(seen[c], toSw'[c][k])
  BY <1>0, <1>2, <1>3 DEF Sound
<1>5. /\ flows' \in [Conns -> SUBSET Flow] /\ default' \in [Conns -> BOOLEAN]
      /\ \A d \in Conns : d # c => flows'[d] = flows[d]
      /\ \A f \in flows'[c] : Leads(seen[c], f)
  <2>1. CASE UNCHANGED flows /\ (UNCHANGED default \/ default' = [default EXCEPT ![c] = TRUE])
    BY <1>0, <2>1 DEF TypeOK, Sound
  <2>2. CASE /\ Head(toSw[c]).type = "flow_mod"
             /\ flows' = [flows EXCEPT ![c] =
                  { f \in flows[c] : f.src # Head(toSw[c]).flow.src \/
                                     f.dst # Head(toSw[c]).flow.dst }
                    \cup {Head(toSw[c]).flow}]
             /\ UNCHANGED default
    <3> DEFINE new == Head(toSw[c]).flow
               old == { f \in flows[c] : f.src # new.src \/ f.dst # new.dst }
    <3>1. Leads(seen[c], new)
      BY <1>0, <1>2, <2>2 DEF Sound, MessageLeads
    <3>2. new \in Flow
      <4>1. Head(toSw[c]) \in [type : {"flow_mod"}, flow : Flow]
        BY <1>2, <2>2 DEF SwMsg
      <4> QED
        BY <4>1
    <3>3. flows' = [flows EXCEPT ![c] = old \cup {new}]
      BY <2>2
    <3>4. old \subseteq flows[c]
      OBVIOUS
    <3> HIDE DEF new, old
    <3> QED
      BY <1>0, <2>2, <3>1, <3>2, <3>3, <3>4 DEF TypeOK, Sound
  <2> QED
    BY <2>1, <2>2 DEF Deliver
<1>6. TypeOK'
  BY <1>0, <1>1, <1>3, <1>5 DEF TypeOK, SwMsg
<1>7. ASSUME NEW d \in Conns PROVE Sound(d)'
  <2>1. CASE d = c
    BY <1>0, <1>1, <1>4, <1>5, <2>1 DEF Sound
  <2>2. CASE d # c
    BY <1>1, <1>3, <1>5, <2>2, SameSound DEF LInv
  <2> QED
    BY <2>1, <2>2
<1> QED
  BY <1>6, <1>7 DEF LInv

\* Stations that move and flows that expire disturb nothing.
LEMMA StationLInv ==
  ASSUME LInv, NEW c \in Conns,
         \/ \E m \in Macs, p \in Ports : Move(c, m, p)
         \/ \E f \in flows[c] : Expire(c, f)
  PROVE  LInv'
<1>0. TypeOK
  BY DEF LInv
<1>1. ASSUME NEW m \in Macs, NEW p \in Ports, Move(c, m, p)
      PROVE  LInv'
  <2>1. TypeOK'
    BY <1>0, <1>1 DEF Move, TypeOK
  <2> QED
    BY <1>1, <2>1, SameSound DEF Move, LInv
<1>2. ASSUME NEW f \in flows[c], Expire(c, f)
      PROVE  LInv'
  <2>1. /\ flows' = [flows EXCEPT ![c] = flows[c] \ {f}]
        /\ UNCHANGED <<program, conn, table, at, seen, default, toCtl, toSw, replies>>
    BY <1>2 DEF Expire
  <2>2. TypeOK'
    BY <1>0, <2>1 DEF TypeOK
  <2>3. ASSUME NEW d \in Conns PROVE Sound(d)'
    <3>1. flows'[d] \subseteq flows[d]
      BY <1>0, <2>1 DEF TypeOK
    <3> QED
      BY <2>1, <3>1 DEF LInv, Sound
  <2> QED
    BY <2>2, <2>3 DEF LInv
<1> QED
  BY <1>1, <1>2

-----------------------------------------------------------------------------
(* The application *)

\* What a handler does of a packet-in of connection c to tables and to what
\* is in flight to the switch.
Handled(c) ==
  /\ table' \in [Conns -> Table \cup {NULL}]
  /\ \A d \in Conns : d # c => table'[d] = table[d]
  /\ table'[c] # NULL => TableSeen(seen[c], table'[c])
  /\ toSw' \in [Conns -> Seq(SwMsg)]
  /\ \A d \in Conns : d # c => toSw'[d] = toSw[d]
  /\ \A k \in 1..Len(toSw'[c]) : MessageLeads(seen[c], toSw'[c][k])

\* Learning a seen port and forwarding by a seen table sends seen flows alone.
LEMMA ForwardHandled ==
  ASSUME LInv, NEW c \in Conns, NEW pi \in PacketInMsg, PacketSeen(seen[c], pi),
         NEW before \in Table, TableSeen(seen[c], before),
         LearnAndForward(c, pi, before)
  PROVE  Handled(c)
<1> DEFINE after == Learn(before, pi)
<1>0. TypeOK /\ Sound(c)
  BY DEF LInv
<1>1. /\ pi.type = "packet_in" /\ pi.src \in Macs /\ pi.in_port \in Ports
      /\ pi.dst \in Macs \cup {Broadcast}
      /\ pi.in_port \in seen[c][pi.src]
  BY DEF PacketInMsg, PacketSeen
<1>2. /\ after \in Table
      /\ \A m \in Macs : after[m] = IF m = pi.src THEN pi.in_port ELSE before[m]
  BY <1>1 DEF Learn, Table
<1>3. TableSeen(seen[c], after)
  BY <1>1, <1>2 DEF TableSeen
<1> HIDE DEF after
<1>4. /\ table' = [table EXCEPT ![c] = after]
      /\ \/ Known(after, pi.dst) /\ Answer(c, <<InstallFlow(pi, after[pi.dst])>>)
         \/ Answer(c, <<Flood>>)
  BY DEF LearnAndForward, after
<1>5. /\ table' \in [Conns -> Table \cup {NULL}]
      /\ \A d \in Conns : d # c => table'[d] = table[d]
      /\ table'[c] = after
  BY <1>0, <1>2, <1>4 DEF TypeOK, Table
<1>6. CASE Answer(c, <<Flood>>)
  <2>1. Flood \in SwMsg /\ MessageLeads(seen[c], Flood)
    BY DEF Flood, SwMsg, MessageLeads
  <2> QED
    BY <1>0, <1>3, <1>5, <1>6, <2>1, AnswerSound DEF Handled
<1>7. CASE Known(after, pi.dst) /\ Answer(c, <<InstallFlow(pi, after[pi.dst])>>)
  <2> DEFINE flow == [src |-> pi.src, dst |-> pi.dst, out |-> after[pi.dst],
                      hard |-> HardTimeout(program)]
  <2>1. pi.dst \in Macs /\ after[pi.dst] # NULL
    BY <1>1, <1>7 DEF Known
  <2>2. after[pi.dst] \in Ports /\ after[pi.dst] \in seen[c][pi.dst]
    BY <1>2, <1>3, <2>1 DEF Table, TableSeen
  <2>3. flow \in Flow /\ Leads(seen[c], flow)
    BY <1>1, <2>1, <2>2 DEF Flow, Leads, HardTimeout
  <2>4. InstallFlow(pi, after[pi.dst]) = [type |-> "flow_mod", flow |-> flow]
    BY DEF InstallFlow
  <2> HIDE DEF flow
  <2>5. /\ InstallFlow(pi, after[pi.dst]) \in SwMsg
        /\ MessageLeads(seen[c], InstallFlow(pi, after[pi.dst]))
    BY <2>3, <2>4 DEF SwMsg, MessageLeads
  <2> QED
    BY <1>0, <1>3, <1>5, <1>7, <2>5, AnswerSound DEF Handled
<1> QED
  BY <1>4, <1>6, <1>7

\* An answer, or none, that leaves the tables alone.
LEMMA FloodHandled ==
  ASSUME LInv, NEW c \in Conns, UNCHANGED table, Answer(c, <<Flood>>) \/ UNCHANGED toSw
  PROVE  Handled(c)
<1>0. TypeOK /\ Sound(c)
  BY DEF LInv
<1>1. table \in [Conns -> Table \cup {NULL}] /\ toSw \in [Conns -> Seq(SwMsg)]
  BY <1>0 DEF TypeOK, Table, SwMsg
<1>2. CASE UNCHANGED toSw
  BY <1>0, <1>1, <1>2 DEF Handled, Sound
<1>3. CASE Answer(c, <<Flood>>)
  <2>1. Flood \in SwMsg /\ MessageLeads(seen[c], Flood)
    BY DEF Flood, SwMsg, MessageLeads
  <2> QED
    BY <1>0, <1>1, <1>3, <2>1, AnswerSound DEF Handled, Sound
<1> QED
  BY <1>2, <1>3

\* The table that is there, or a new one, holds seen ports alone.
LEMMA TableOrNewSeen ==
  ASSUME LInv, NEW c \in Conns
  PROVE  TableOrNew(c) \in Table /\ TableSeen(seen[c], TableOrNew(c))
<1>1. EmptyTable \in Table /\ TableSeen(seen[c], EmptyTable)
  BY DEF EmptyTable, Table, TableSeen
<1> QED
  BY <1>1, TypeOKParts DEF LInv, Sound, TableOrNew

\* Each of the programs handles a packet-in so.
LEMMA ProgramHandled ==
  ASSUME LInv, NEW c \in Conns, NEW pi \in PacketInMsg, PacketSeen(seen[c], pi),
         \/ MsgPacketIn(c, pi) \/ RawPacketIn(c, pi) \/ JavaPacketIn(c, pi)
         \/ Python10PacketIn(c, pi) \/ Python13PacketIn(c, pi)
  PROVE  Handled(c)
<1>1. CASE AppPacketIn(c, pi)
  <2>1. CASE table[c] # NULL /\ LearnAndForward(c, pi, table[c])
    <3>1. table[c] \in Table /\ TableSeen(seen[c], table[c])
      BY <2>1, TypeOKParts DEF LInv, Sound
    <3> QED
      BY <2>1, <3>1, ForwardHandled
  <2>2. CASE UNCHANGED <<table, toSw>>
    BY <2>2, FloodHandled
  <2> QED
    BY <1>1, <2>1, <2>2 DEF AppPacketIn
<1>2. CASE JavaPacketIn(c, pi)
  BY <1>2, TableOrNewSeen, ForwardHandled DEF JavaPacketIn
<1>3. CASE PythonPacketIn(c, pi)
  <2>1. CASE Answer(c, <<Flood>>) /\ UNCHANGED table
    BY <2>1, FloodHandled
  <2>2. CASE LearnAndForward(c, pi, TableOrNew(c))
    BY <2>2, TableOrNewSeen, ForwardHandled
  <2> QED
    BY <1>3, <2>1, <2>2 DEF PythonPacketIn
<1> QED
  BY <1>1, <1>2, <1>3 DEF MsgPacketIn, RawPacketIn, Python10PacketIn, Python13PacketIn

\* A packet-in that is handled keeps the invariant.
LEMMA PacketInLInv ==
  ASSUME LInv, NEW c \in Conns, PacketIn(c)
  PROVE  LInv'
<1> DEFINE pi == Head(toCtl[c])
<1>0. TypeOK /\ Sound(c)
  BY DEF LInv
<1>1. /\ Receive(c, "packet_in")
      /\ UNCHANGED <<program, conn, at, seen, flows, default, replies>>
  BY DEF PacketIn
<1>2. /\ toCtl' \in [Conns -> Seq(CtlMsg)]
      /\ \A d \in Conns : d # c => toCtl'[d] = toCtl[d]
      /\ \A k \in 1..Len(toCtl'[c]) : PacketSeen(seen[c], toCtl'[c][k])
      /\ pi \in CtlMsg /\ pi.type = "packet_in" /\ PacketSeen(seen[c], pi)
  BY <1>0, <1>1, ReceiveSound
<1>3. pi \in PacketInMsg
  BY <1>2 DEF CtlMsg
<1>4. Handled(c)
  BY <1>2, <1>3, ProgramHandled DEF PacketIn
<1> HIDE DEF pi
<1>5. TypeOK'
  BY <1>0, <1>1, <1>2, <1>4 DEF Handled, TypeOK, Table, CtlMsg, SwMsg
<1>6. ASSUME NEW d \in Conns PROVE Sound(d)'
  <2>1. CASE d = c
    BY <1>0, <1>1, <1>2, <1>4, <2>1 DEF Handled, Sound
  <2>2. CASE d # c
    BY <1>1, <1>2, <1>4, <2>2, SameSound DEF Handled, LInv
  <2> QED
    BY <2>1, <2>2
<1> QED
  BY <1>5, <1>6 DEF LInv

\* So does a features reply, whatever becomes of the old table,
LEMMA SwitchUpLInv ==
  ASSUME LInv, NEW c \in Conns, SwitchUp(c)
  PROVE  LInv'
<1> DEFINE default_flow == [type |-> "default_flow"]
<1>0. TypeOK /\ Sound(c)
  BY DEF LInv
<1>1. /\ Receive(c, "features_reply")
      /\ UNCHANGED <<program, conn, at, seen, flows, default, replies>>
      /\ table' = [table EXCEPT ![c] = EmptyTable] \/ UNCHANGED table
      /\ Answer(c, <<default_flow>>) \/ Answer(c, <<>>)
  BY DEF SwitchUp
<1>2. /\ toCtl' \in [Conns -> Seq(CtlMsg)]
      /\ \A d \in Conns : d # c => toCtl'[d] = toCtl[d]
      /\ \A k \in 1..Len(toCtl'[c]) : PacketSeen(seen[c], toCtl'[c][k])
  BY <1>0, <1>1, ReceiveSound
<1>3. default_flow \in SwMsg /\ MessageLeads(seen[c], default_flow)
  BY DEF SwMsg, MessageLeads
<1> HIDE DEF default_flow
<1>4. /\ toSw' \in [Conns -> Seq(SwMsg)]
      /\ \A d \in Conns : d # c => toSw'[d] = toSw[d]
      /\ \A k \in 1..Len(toSw'[c]) : MessageLeads(seen[c], toSw'[c][k])
  BY <1>0, <1>1, <1>3, AnswerSound
<1>5. EmptyTable \in Table /\ TableSeen(seen[c], EmptyTable)
  BY DEF EmptyTable, Table, TableSeen
<1>6. /\ table' \in [Conns -> Table \cup {NULL}]
      /\ \A d \in Conns : d # c => table'[d] = table[d]
      /\ table'[c] # NULL => TableSeen(seen[c], table'[c])
  BY <1>0, <1>1, <1>5 DEF TypeOK, Table, Sound
<1>7. TypeOK'
  BY <1>0, <1>1, <1>2, <1>4, <1>6 DEF TypeOK, Table, CtlMsg, SwMsg
<1>8. ASSUME NEW d \in Conns PROVE Sound(d)'
  <2>1. CASE d = c
    BY <1>0, <1>1, <1>2, <1>4, <1>6, <2>1 DEF Sound
  <2>2. CASE d # c
    BY <1>1, <1>2, <1>4, <1>6, <2>2, SameSound DEF LInv
  <2> QED
    BY <2>1, <2>2
<1> QED
  BY <1>7, <1>8 DEF LInv

\* and the end of a connection.
LEMMA SwitchDownLInv ==
  ASSUME LInv, NEW c \in Conns, SwitchDown(c)
  PROVE  LInv'
<1>0. TypeOK /\ Sound(c)
  BY DEF LInv
<1>1. /\ conn' = [conn EXCEPT ![c] = "down"]
      /\ table' = [table EXCEPT ![c] = EmptyTable] \/ UNCHANGED table
      /\ toCtl' = [toCtl EXCEPT ![c] = <<>>]
      /\ toSw' = [toSw EXCEPT ![c] = <<>>]
      /\ UNCHANGED <<program, at, seen, flows, default, replies>>
  BY DEF SwitchDown
<1>2. /\ toCtl' \in [Conns -> Seq(CtlMsg)] /\ toSw' \in [Conns -> Seq(SwMsg)]
      /\ toCtl'[c] = <<>> /\ toSw'[c] = <<>>
      /\ \A d \in Conns : d # c => toCtl'[d] = toCtl[d] /\ toSw'[d] = toSw[d]
  BY <1>0, <1>1 DEF TypeOK, CtlMsg, SwMsg
<1>3. EmptyTable \in Table /\ TableSeen(seen[c], EmptyTable)
  BY DEF EmptyTable, Table, TableSeen
<1>4. /\ table' \in [Conns -> Table \cup {NULL}]
      /\ \A d \in Conns : d # c => table'[d] = table[d]
      /\ table'[c] # NULL => TableSeen(seen[c], table'[c])
  BY <1>0, <1>1, <1>3 DEF TypeOK, Table, Sound
<1>5. conn' \in [Conns -> {"new", "up", "down"}]
  BY <1>0, <1>1 DEF TypeOK
<1>6. TypeOK'
  BY <1>0, <1>1, <1>2, <1>4, <1>5 DEF TypeOK, Table, CtlMsg, SwMsg
<1>7. ASSUME NEW d \in Conns PROVE Sound(d)'
  <2>1. CASE d = c
    BY <1>0, <1>1, <1>2, <1>4, <2>1 DEF Sound
  <2>2. CASE d # c
    BY <1>1, <1>2, <1>4, <2>2, SameSound DEF LInv
  <2> QED
    BY <2>1, <2>2
<1> QED
  BY <1>6, <1>7 DEF LInv

\* Every step keeps the invariant.
LEMMA NextLInv == LInv /\ [Next]_vars => LInv'
<1> SUFFICES ASSUME LInv, [Next]_vars PROVE LInv'
  OBVIOUS
<1>1. CASE UNCHANGED vars
  <2>1. TypeOK'
    BY <1>1 DEF LInv, TypeOK, vars
  <2> QED
    BY <1>1, <2>1, SameSound DEF LInv, vars
<1>2. CASE Next
  <2> PICK c \in Conns :
        \/ Connect(c) \/ Announce(c)
        \/ \E m \in Macs : \/ \E p \in Ports : Move(c, m, p)
                           \/ \E d \in Destinations(m) : Ask(c, m, d)
        \/ \E f \in flows[c] : Expire(c, f)
        \/ Deliver(c)
        \/ PacketIn(c)
        \/ SwitchUp(c)
        \/ SwitchDown(c)
    BY <1>2 DEF Next
  <2> QED
    BY ConnectLInv, AnnounceLInv, StationLInv, AskLInv, DeliverLInv, PacketInLInv, SwitchUpLInv,
       SwitchDownLInv
<1> QED
  BY <1>1, <1>2

\* A flow, installed or on its way, sends packets to a port that their
\* destination, a station, has sent from on the same switch, for any number of
\* switches, stations and ports, with any number of messages in flight and
\* however often the table is replaced.
THEOREM FlowsAlwaysLead == Spec => []FlowsLeadToStations
<1>1. Spec => []LInv
  BY InitLInv, NextLInv, PTL DEF Spec
<1> QED
  BY <1>1, LInvLeads, PTL

=============================================================================
