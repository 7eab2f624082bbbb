------------------------------ MODULE OFClient ------------------------------
(***************************************************************************)
(* The OpenFlow client under the example switch (examples/switch/client)   *)
(* with the callback of Switch.hh: a thread that tries to connect, the     *)
(* thread of the event loop, on which a connection comes up, receives,     *)
(* checks that its controller is alive and goes down, and the main thread  *)
(* that stops them.                                                        *)
(*                                                                         *)
(* Connection i is a BaseOFConnection and the OFConnection around it, both *)
(* of libfluid_base.  What is used of that library: close() has the event  *)
(* loop report EVENT_CLOSED and nothing else, and does nothing to a        *)
(* connection that is closed; one that the peer has closed is reported     *)
(* with EVENT_DOWN; and deleting a connection ends its timers.             *)
(***************************************************************************)
EXTENDS Integers, Sequences, FiniteSets

CONSTANTS
  Reconnects,         \* BOOLEAN: EVENT_CLOSED reconnects, as in Switch.hh
  supported_versions, \* versions of OFServerSettings
  Versions,           \* versions a controller may say hello with
  MaxConns,           \* BOUND: connections made
  MaxTimers,          \* BOUND: features requests of one connection
  MaxWire             \* BOUND: messages of a controller in flight

ASSUME ClientAssumption ==
  /\ Reconnects \in BOOLEAN
  /\ Versions \subseteq Nat /\ supported_versions # {}
  /\ MaxConns \in Nat /\ MaxTimers \in Nat /\ MaxWire \in Nat

VARIABLES
  main,       \* what the main thread does
  loop,       \* the event loop runs
  connector,  \* the thread conn_t: "none", "trying", "done"
  made,       \* connections made so far
  phase,      \* phase[i]: of a BaseOFConnection
  link,       \* link[i]: "open", "silent" (nothing arrives), "reset" (by peer)
  toSw,       \* toSw[i]: messages of the controller in flight
  state,      \* state[i]: of the OFConnection
  alive,      \* alive[i]: of the OFConnection
  timers,     \* timers[i]: how many echo timers have been added
  echo,       \* echo[i]: an echo request has not been answered
  conn        \* this->conn: a connection, 0 for NULL

cvars == <<phase, link, toSw, state, alive, timers, echo>>
vars == <<main, loop, connector, made, phase, link, toSw, state, alive,
          timers, echo, conn>>

Ids == 1..MaxConns

Init ==
  /\ main = "new"
  /\ loop = FALSE
  /\ connector = "none"
  /\ made = 0
  /\ phase = [i \in Ids |-> "none"]
  /\ link = [i \in Ids |-> "open"]
  /\ toSw = [i \in Ids |-> <<>>]
  /\ state = [i \in Ids |-> "started"]
  /\ alive = [i \in Ids |-> TRUE]
  /\ timers = [i \in Ids |-> 0]
  /\ echo = [i \in Ids |-> FALSE]
  /\ conn = 0

-----------------------------------------------------------------------------
(* The main thread and the connecting thread *)

Start ==
  /\ main = "new"
  /\ main' = "running"
  /\ loop' = TRUE
  /\ connector' = "trying"
  /\ UNCHANGED <<made, cvars, conn>>

\* connect() succeeds in the end; until then it is tried every 5 seconds
TryConnect ==
  /\ connector = "trying"
  /\ made < MaxConns
  /\ connector' = "done"
  /\ made' = made + 1
  /\ phase' = [phase EXCEPT ![made'] = "new"]
  /\ UNCHANGED <<main, loop, link, toSw, state, alive, timers, echo, conn>>

\* OFConnection::close of this->conn
Closing(i) ==
  IF i # 0 /\ phase[i] \in {"new", "up"}
  THEN [phase EXCEPT ![i] = "closing"] ELSE phase

\* stop() closes the connection ...
StopConn ==
  /\ main = "running"
  /\ main' = "conn_stopped"
  /\ phase' = Closing(conn)
  /\ UNCHANGED <<loop, connector, made, link, toSw, state, alive, timers, echo, conn>>

\* ... cancels the last thread that was started to connect ...
CancelConnector ==
  /\ main = "conn_stopped"
  /\ main' = "cancelled"
  /\ connector' = IF connector = "trying" THEN "none" ELSE connector
  /\ UNCHANGED <<loop, made, cvars, conn>>

\* ... and stops the event loop and joins its thread
StopLoop ==
  /\ main = "cancelled"
  /\ main' = "stopped"
  /\ loop' = FALSE
  /\ UNCHANGED <<connector, made, cvars, conn>>

-----------------------------------------------------------------------------
(* The controller at the other end *)

Controller(i, msg) ==
  /\ phase[i] \in {"new", "up"} /\ link[i] = "open"
  /\ Len(toSw[i]) < MaxWire
  /\ toSw' = [toSw EXCEPT ![i] = Append(@, msg)]
  /\ UNCHANGED <<main, loop, connector, made, phase, link, state, alive, timers, conn>>

\* it says hello, asks for the features, and may ask for an echo
SendHello(i) ==
  /\ \E v \in Versions : Controller(i, [type |-> "hello", version |-> v])
  /\ UNCHANGED echo

AskFeatures(i) ==
  /\ timers[i] + Cardinality({k \in DOMAIN toSw[i] :
       toSw[i][k].type = "features_request"}) < MaxTimers
  /\ Controller(i, [type |-> "features_request"])
  /\ UNCHANGED echo

AskEcho(i) ==
  /\ Controller(i, [type |-> "echo_request"])
  /\ UNCHANGED echo

AnswerEcho(i) ==
  /\ echo[i]
  /\ Controller(i, [type |-> "echo_reply"])
  /\ echo' = [echo EXCEPT ![i] = FALSE]

\* it closes the connection, or nothing gets through any more
Fails(i, how) ==
  /\ phase[i] \in {"new", "up"} /\ link[i] = "open"
  /\ link' = [link EXCEPT ![i] = how]
  /\ UNCHANGED <<main, loop, connector, made, phase, toSw, state, alive, timers,
                 echo, conn>>

-----------------------------------------------------------------------------
(* The event loop *)

\* EVENT_UP: hello is sent
Up(i) ==
  /\ loop
  /\ phase[i] = "new"
  /\ phase' = [phase EXCEPT ![i] = "up"]
  /\ conn' = i
  /\ UNCHANGED <<main, loop, connector, made, link, toSw, state, alive, timers, echo>>

Receive(i, type) ==
  /\ loop
  /\ phase[i] = "up"
  /\ toSw[i] # <<>>
  /\ Head(toSw[i]).type = type
  /\ toSw' = [toSw EXCEPT ![i] = Tail(@)]
  /\ UNCHANGED <<main, loop, connector, made, link, conn, echo>>

\* an echo request is answered with nothing but the reply
EchoRequest(i) ==
  /\ Receive(i, "echo_request")
  /\ UNCHANGED <<phase, state, alive, timers>>

\* not binds tighter than &: the bit of version 1 of the truth value of "there
\* are no supported versions"
Refused(version) == supported_versions = {} /\ version = 1

Hello(i) ==
  /\ Receive(i, "hello")
  /\ IF Refused(Head(toSw[i]).version)
     THEN /\ phase' = Closing(i)
          /\ state' = [state EXCEPT ![i] = "failed"]
     ELSE UNCHANGED <<phase, state>>
  /\ UNCHANGED <<alive, timers>>

\* the reply is taken for one to something else
MutantEchoReply(i) ==
  /\ Receive(i, "echo_reply")
  /\ UNCHANGED <<phase, state, alive, timers>>

EchoReply(i) ==
  /\ Receive(i, "echo_reply")
  /\ alive' = [alive EXCEPT ![i] = TRUE]
  /\ UNCHANGED <<phase, state, timers>>

\* every features request adds another echo timer
FeaturesRequest(i) ==
  /\ Receive(i, "features_request")
  /\ state' = [state EXCEPT ![i] = "running"]
  /\ timers' = [timers EXCEPT ![i] = @ + 1]
  /\ UNCHANGED <<phase, alive>>

\* the connection is not taken for dead until it has answered
MutantSendEcho(i) ==
  /\ loop
  /\ phase[i] = "up" /\ timers[i] > 0 /\ link[i] # "reset"
  /\ alive' = [alive EXCEPT ![i] = FALSE]
  /\ echo' = [echo EXCEPT ![i] = echo[i] \/ alive[i]]
  /\ UNCHANGED <<main, loop, connector, made, phase, link, toSw, state, timers, conn>>

\* A timer comes due, any of them at any time: the last answer may be under
\* way still.  The event loop looks at its connections before its timers, so
\* one that the peer has closed is reported down first.  EVENT_DEAD is not
\* acted on.
SendEcho(i) ==
  /\ loop
  /\ phase[i] = "up" /\ timers[i] > 0 /\ link[i] # "reset"
  /\ \/ /\ ~alive[i]
        /\ phase' = [phase EXCEPT ![i] = "closing"]
        /\ state' = [state EXCEPT ![i] = "dead"]
        /\ UNCHANGED <<alive, echo>>
     \/ /\ alive[i]
        /\ alive' = [alive EXCEPT ![i] = FALSE]
        /\ echo' = [echo EXCEPT ![i] = TRUE]
        /\ UNCHANGED <<phase, state>>
  /\ UNCHANGED <<main, loop, connector, made, link, toSw, timers, conn>>

\* the old connection is not closed
MutantReconnect ==
  /\ UNCHANGED phase
  /\ connector' = "trying"

\* it is closed and that is all
MutantCloseOnly ==
  /\ phase' = Closing(conn)
  /\ UNCHANGED connector

\* EVENT_CLOSED of the OFConnection, in Switch.hh: stop_conn and start_conn
Reconnect ==
  /\ phase' = Closing(conn)
  /\ connector' = "trying"

\* EVENT_DOWN is passed on as EVENT_CLOSED of this->conn, whichever
\* connection went down
Down(i) ==
  /\ loop
  /\ phase[i] = "up" /\ link[i] = "reset"
  /\ IF Reconnects THEN Reconnect
     ELSE phase' = [phase EXCEPT ![i] = "down"] /\ UNCHANGED connector
  /\ UNCHANGED <<main, loop, made, link, toSw, state, alive, timers, echo, conn>>

\* EVENT_CLOSED of the BaseOFConnection
Closed(i) ==
  /\ loop
  /\ phase[i] = "closing"
  /\ phase' = [phase EXCEPT ![i] = "deleted"]
  /\ toSw' = [toSw EXCEPT ![i] = <<>>]
  /\ timers' = [timers EXCEPT ![i] = 0]
  /\ UNCHANGED <<main, loop, connector, made, link, state, alive, echo, conn>>

-----------------------------------------------------------------------------
LoopStep(i) ==
  \/ Up(i)
  \/ EchoRequest(i) \/ Hello(i) \/ EchoReply(i) \/ FeaturesRequest(i)
  \/ SendEcho(i)
  \/ Down(i)
  \/ Closed(i)

PeerStep(i) ==
  \/ SendHello(i) \/ AskFeatures(i) \/ AskEcho(i) \/ AnswerEcho(i)
  \/ Fails(i, "silent") \/ Fails(i, "reset")

Next ==
  \/ Start \/ TryConnect \/ StopConn \/ CancelConnector \/ StopLoop
  \/ \E i \in Ids : LoopStep(i) \/ PeerStep(i)

\* The event loop comes round to every event, and a controller accepts.
Fairness ==
  /\ WF_vars(TryConnect)
  /\ \A i \in Ids :
       /\ WF_vars(Up(i)) /\ WF_vars(Down(i)) /\ WF_vars(Closed(i))
       /\ WF_vars(SendEcho(i))

Spec == Init /\ [][Next]_vars /\ Fairness

-----------------------------------------------------------------------------
(* Properties *)

Message == [type : {"features_request", "echo_request", "echo_reply"}]
             \cup [type : {"hello"}, version : Versions]

\* The type invariant: the connections made are those there are, and conn
\* points to one of them if it is not NULL.
TypeOK ==
  /\ main \in {"new", "running", "conn_stopped", "cancelled", "stopped"}
  /\ loop \in BOOLEAN
  /\ connector \in {"none", "trying", "done"}
  /\ made \in 0..MaxConns
  /\ phase \in [Ids -> {"none", "new", "up", "down", "closing", "deleted"}]
  /\ \A i \in Ids : phase[i] = "none" <=> i > made
  /\ link \in [Ids -> {"open", "silent", "reset"}]
  /\ toSw \in [Ids -> Seq(Message)]
  /\ state \in [Ids -> {"started", "running", "failed", "dead"}]
  /\ alive \in [Ids -> BOOLEAN]
  /\ timers \in [Ids -> Nat]
  /\ echo \in [Ids -> BOOLEAN]
  /\ conn \in 0..made

\* The client has one connection: none is live while another is being made,
\* and the one that is up is the one this->conn points to, so EVENT_DOWN of
\* a connection never closes another (OFClient.cc:109-111).
OneConnection ==
  /\ \A i \in Ids : phase[i] \in {"new", "up"} => connector # "trying" /\ i = made
  /\ \A i \in Ids : phase[i] = "up" => i = conn

\* An answer of connection i has arrived and has not been read.
Answered(i) == \E k \in 1..Len(toSw[i]) : toSw[i][k].type = "echo_reply"

\* A controller that is there is taken for dead only while it owes the answer
\* to the last echo request, or while that answer has not been read: once it
\* has been read no timer closes the connection before asking again
\* (OFClient.cc:47-52, 118-138).  That is all the code ensures.  With one timer
\* an interval has passed since the request; a second features request adds a
\* second timer (OFClient.cc:66), which may come due right after the first and
\* close a connection that works.
NoFalseDeath ==
  [][\A i \in Ids : link[i] = "open" /\ state[i] # "dead" /\ state'[i] = "dead"
       => echo[i] \/ Answered(i)]_vars

Gone == main \notin {"new", "running"}

\* A controller that has gone silent is noticed: its connection is closed.
SilenceNoticed ==
  \A i \in Ids :
    phase[i] = "up" /\ timers[i] > 0 /\ link[i] = "silent" ~> phase[i] # "up" \/ Gone

\* When the controller closes the connection the switch has another one in
\* the end (Switch.hh:103-108).
ComesBack ==
  \A i \in Ids :
    phase[i] = "up" /\ link[i] = "reset" /\ made < MaxConns
      ~> (conn > i /\ phase[conn] = "up") \/ Gone

=============================================================================
