-------------------------- MODULE ControllerEvents --------------------------
(***************************************************************************)
(* The controller framework (examples/controller/Controller.hh) under the  *)
(* programs built on it: the workers of the library's server turn messages *)
(* and the ends of connections into events and dispatch them to the        *)
(* program's application, while main waits for SIGINT, stops the server    *)
(* and returns, which destroys the application.  BaseLearningSwitch keeps  *)
(* a table per switch that comes up; what the tables hold is               *)
(* LearningSwitch's matter.                                                *)
(*                                                                         *)
(* Of the library (external) it is used that a connection belongs to one   *)
(* worker, that the receiver of a message frees it                         *)
(* (keep_data_ownership(false)), and that OFServer::stop closes every      *)
(* connection and returns when the workers have ended.                     *)
(***************************************************************************)
EXTENDS Naturals, SequencesExt

CONSTANTS
  Workers,      \* threads of the server
  Conns,        \* connections of switches
  WorkerOf,     \* the worker each connection belongs to
  Programs,     \* the programs: what their applications listen for and are
  MaxMessages,  \* BOUND: messages received
  NULL          \* no table, no message, nobody

EventTypes == {"PACKET_IN", "SWITCH_UP", "SWITCH_DOWN"}

\* registers: the types an application is registered for; learns: it is a
\* BaseLearningSwitch; blocks: start(true) never returns (Android)
Program == [registers : SUBSET EventTypes, learns : BOOLEAN, blocks : BOOLEAN]

\* id: messages are received one after the other
Msg == [id : Nat, type : EventTypes \cup {"other"}]

ASSUME ControllerAssumption ==
  /\ WorkerOf \in [Conns -> Workers]
  /\ Programs \subseteq Program
  /\ MaxMessages \in Nat
  /\ NULL \notin Nat \cup Workers \cup Conns \cup Msg

VARIABLES
  program,    \* the program that runs
  main,       \* what its main thread is doing
  quit,       \* set by the handler of SIGINT
  running,    \* the controller dispatches events
  listeners,  \* the types that have an entry in event_listeners
  worker,     \* what each worker is doing
  conn,       \* conn[c]: "none", "open", "closing" (by stop) or "closed"
  data,       \* data[c]: the table that is c's application data
  received,   \* number of messages received
  messages,   \* those of them that nobody has freed
  created,    \* number of tables created
  tables,     \* those of them that nobody has freed
  l2tables,   \* the list of tables
  mutex,      \* the worker that holds l2tables_lock
  crashed     \* the process has been killed by undefined behaviour

server == <<listeners, worker, conn, received, messages, crashed>>
learning == <<data, created, tables, l2tables, mutex>>
vars == <<program, main, quit, running, server, learning>>

\* late: the event tells of a connection that stop() has closed
Idle == [pc |-> "idle", type |-> NULL, conn |-> NULL, msg |-> NULL,
         late |-> FALSE, table |-> NULL, copy |-> <<>>]

Init ==
  /\ program \in Programs
  /\ main = "start" /\ quit = FALSE /\ running = TRUE
  /\ listeners = program.registers
  /\ worker = [w \in Workers |-> Idle]
  /\ conn = [c \in Conns |-> "none"]
  /\ data = [c \in Conns |-> NULL]
  /\ received = 0 /\ messages = {}
  /\ created = 0 /\ tables = {} /\ l2tables = <<>>
  /\ mutex = NULL
  /\ crashed = FALSE

Running == ~crashed

\* the server's threads run
Serving == Running /\ main \notin {"start", "destroy", "exited"}

At(w, step) == Serving /\ worker[w].pc = step

Goto(w, step) == worker' = [worker EXCEPT ![w].pc = step]

-----------------------------------------------------------------------------
(* What the library calls on worker w = WorkerOf[c] *)

\* EVENT_STARTED and EVENT_ESTABLISHED are only logged
Connect(c) ==
  /\ At(WorkerOf[c], "idle")
  /\ main \notin {"close", "join"}
  /\ conn[c] = "none"
  /\ conn' = [conn EXCEPT ![c] = "open"]
  /\ UNCHANGED <<program, main, quit, running, listeners, worker, received,
                 messages, crashed, learning>>

Event(type, c, msg, late) ==
  [pc |-> "dispatch", type |-> type, conn |-> c, msg |-> msg, late |-> late,
   table |-> NULL, copy |-> <<>>]

\* message_callback: a packet-in or a features reply becomes an event; the
\* data of any other message is left alone, and nobody frees it.
Message(c, type) ==
  LET m == [id |-> received + 1, type |-> type]
      w == WorkerOf[c]
  IN  /\ At(w, "idle")
      /\ conn[c] = "open"
      /\ received < MaxMessages
      /\ received' = received + 1
      /\ messages' = messages \cup {m}
      /\ worker' = IF type \in EventTypes
                   THEN [worker EXCEPT ![w] = Event(type, c, m, FALSE)]
                   ELSE worker
      /\ UNCHANGED <<program, main, quit, running, listeners, conn, crashed,
                     learning>>

\* EVENT_CLOSED or EVENT_DEAD: the switch, the echo timer or stop() ended it
Closed(c) ==
  LET w == WorkerOf[c]
  IN  /\ At(w, "idle")
      /\ conn[c] \in {"open", "closing"}
      /\ conn' = [conn EXCEPT ![c] = "closed"]
      /\ worker' = [worker EXCEPT
           ![w] = Event("SWITCH_DOWN", c, NULL, conn[c] = "closing")]
      /\ UNCHANGED <<program, main, quit, running, listeners, received, messages,
                     crashed, learning>>

-----------------------------------------------------------------------------
(* dispatch_event *)

TestRunning(w) ==
  /\ At(w, "dispatch")
  /\ Goto(w, IF running THEN "listeners" ELSE "delete")
  /\ UNCHANGED <<program, main, quit, running, listeners, conn, received,
                 messages, crashed, learning>>

\* some worker is about to add an entry while another is in the map
Racing ==
  \E v, w \in Workers :
    /\ v # w /\ worker[v].pc = "listeners" /\ worker[w].pc = "listeners"
    /\ worker[v].type \notin listeners

\* event_listeners[type] makes an entry, without listeners, if there is none
GetListeners(w) ==
  LET type == worker[w].type
  IN  /\ At(w, "listeners")
      /\ listeners' = listeners \cup {type}
      /\ Goto(w, IF type \in program.registers THEN "callback" ELSE "delete")
      /\ crashed' \in IF Racing THEN BOOLEAN ELSE {FALSE}
      /\ UNCHANGED <<program, main, quit, running, conn, received, messages,
                     learning>>

\* The application's callback, but for a switch that comes up: it uses the
\* table that is the connection's data, if any.
Callback(w) ==
  /\ At(w, "callback")
  /\ ~program.learns \/ worker[w].type # "SWITCH_UP"
  /\ Goto(w, "delete")
  /\ UNCHANGED <<program, main, quit, running, listeners, conn, received,
                 messages, crashed, learning>>

\* BaseLearningSwitch makes a table for a switch that comes up ...
NewTable(w) ==
  /\ At(w, "callback")
  /\ program.learns /\ worker[w].type = "SWITCH_UP"
  /\ created' = created + 1
  /\ tables' = tables \cup {created + 1}
  /\ data' = [data EXCEPT ![worker[w].conn] = created + 1]
  /\ worker' = [worker EXCEPT ![w].pc = "lock", ![w].table = created + 1]
  /\ UNCHANGED <<program, main, quit, running, listeners, conn, received,
                 messages, l2tables, mutex, crashed>>

\* the mutex is not waited for
MutantLock(w) ==
  /\ At(w, "lock")
  /\ mutex' = w
  /\ worker' = [worker EXCEPT ![w].pc = "push", ![w].copy = l2tables]
  /\ UNCHANGED <<program, main, quit, running, listeners, conn, received,
                 messages, data, created, tables, l2tables, crashed>>

\* ... and appends it to the list under the mutex; without it the push_back
\* could start from a list that another worker is changing
Lock(w) ==
  /\ At(w, "lock")
  /\ mutex = NULL
  /\ mutex' = w
  /\ worker' = [worker EXCEPT ![w].pc = "push", ![w].copy = l2tables]
  /\ UNCHANGED <<program, main, quit, running, listeners, conn, received,
                 messages, data, created, tables, l2tables, crashed>>

Push(w) ==
  /\ At(w, "push")
  /\ l2tables' = Append(worker[w].copy, worker[w].table)
  /\ mutex' = NULL
  /\ Goto(w, "delete")
  /\ UNCHANGED <<program, main, quit, running, listeners, conn, received,
                 messages, data, created, tables, crashed>>

\* an event that is not dispatched is forgotten
MutantDelete(w) ==
  /\ At(w, "delete")
  /\ messages' = IF running THEN messages \ {worker[w].msg} ELSE messages
  /\ worker' = [worker EXCEPT ![w] = Idle]
  /\ UNCHANGED <<program, main, quit, running, listeners, conn, received,
                 crashed, learning>>

\* delete ev: the destructors of the events that carry a message free it
Delete(w) ==
  /\ At(w, "delete")
  /\ messages' = messages \ {worker[w].msg}
  /\ worker' = [worker EXCEPT ![w] = Idle]
  /\ UNCHANGED <<program, main, quit, running, listeners, conn, received,
                 crashed, learning>>

-----------------------------------------------------------------------------
(* main *)

MainGoes(from, to) == Running /\ main = from /\ main' = to

Start ==
  /\ MainGoes("start", IF program.blocks THEN "blocked" ELSE "check")
  /\ UNCHANGED <<program, quit, running, server, learning>>

\* wait_for_sigint tests quit, and then sleeps ...
CheckQuit ==
  /\ MainGoes("check", IF quit THEN "stop" ELSE "drowsy")
  /\ UNCHANGED <<program, quit, running, server, learning>>

FallAsleep ==
  /\ MainGoes("drowsy", "asleep")
  /\ UNCHANGED <<program, quit, running, server, learning>>

\* sleep() without end
MutantWake == FALSE /\ UNCHANGED vars

\* ... for 1000 seconds, which a signal that has come before does not shorten
Wake ==
  /\ MainGoes("asleep", "check")
  /\ UNCHANGED <<program, quit, running, server, learning>>

Interrupt ==
  /\ Running
  /\ main \in {"check", "drowsy", "asleep"}
  /\ ~quit
  /\ quit' = TRUE
  /\ main' = IF main = "asleep" THEN "check" ELSE main
  /\ UNCHANGED <<program, running, server, learning>>

\* running stays set
MutantClearRunning ==
  /\ MainGoes("stop", "close")
  /\ UNCHANGED <<program, quit, running, server, learning>>

\* stop(): first no more events are dispatched, then the connections are closed
ClearRunning ==
  /\ MainGoes("stop", "close")
  /\ running' = FALSE
  /\ UNCHANGED <<program, quit, server, learning>>

CloseConnections ==
  /\ MainGoes("close", "join")
  /\ conn' = [c \in Conns |-> IF conn[c] = "open" THEN "closing" ELSE conn[c]]
  /\ UNCHANGED <<program, quit, running, listeners, worker, received, messages,
                 crashed, learning>>

JoinWorkers ==
  /\ MainGoes("join", "destroy")
  /\ \A w \in Workers : worker[w] = Idle
  /\ UNCHANGED <<program, quit, running, server, learning>>

\* the destructor of BaseLearningSwitch deletes the tables of the list
Destroy ==
  /\ MainGoes("destroy", "exited")
  /\ mutex = NULL
  /\ tables' = tables \ ToSet(l2tables)
  /\ l2tables' = <<>>
  /\ UNCHANGED <<program, quit, running, server, data, created, mutex>>

-----------------------------------------------------------------------------
WorkerStep(w) ==
  \/ TestRunning(w) \/ GetListeners(w) \/ Callback(w)
  \/ NewTable(w) \/ Lock(w) \/ Push(w) \/ Delete(w)

MainStep ==
  \/ Start \/ CheckQuit \/ FallAsleep \/ Wake
  \/ ClearRunning \/ CloseConnections \/ JoinWorkers \/ Destroy

Next ==
  \/ \E c \in Conns :
       \/ Connect(c) \/ Closed(c)
       \/ \E type \in {"PACKET_IN", "SWITCH_UP", "other"} : Message(c, type)
  \/ \E w \in Workers : WorkerStep(w)
  \/ MainStep
  \/ Interrupt

\* The threads are scheduled; switches and the user owe nothing.
Spec ==
  /\ Init /\ [][Next]_vars
  /\ WF_vars(MainStep)
  /\ \A w \in Workers : WF_vars(WorkerStep(w))

-----------------------------------------------------------------------------
(* Properties *)

\* A message that becomes an event is freed with it, exactly once and by the
\* one worker that has it, also when the event comes too late to be dispatched
\* (Controller.hh:169-172).  Nobody frees the others: echo replies, errors and
\* port changes leak (137-144).
MessagesFreed ==
  /\ \A m \in messages :
       m.type = "other" \/ Cardinality({ w \in Workers : worker[w].msg = m }) = 1
  /\ \A w \in Workers : worker[w].msg # NULL => worker[w].msg \in messages

\* Every table is in the list or about to be pushed, whichever workers push at
\* the same time, so the destructor frees all of them, even those that a second
\* SWITCH_UP has replaced; and it frees none while a connection's data still
\* leads a callback to it (Controller.hh:193-227).
TablesKept ==
  /\ tables = ToSet(l2tables) \cup ({ worker[w].table : w \in Workers } \ {NULL})
  /\ IsInjective(l2tables)
  /\ \A w \in Workers :
       worker[w].pc = "callback" /\ data[worker[w].conn] # NULL
         => data[worker[w].conn] \in tables

\* What stop() does to the connections no application hears of: running is
\* cleared before they are closed (Controller.hh:132-135), so an application may
\* be torn down without a SWITCH_DOWN for each of its switches.
StopIsSilent ==
  \A w \in Workers :
    worker[w].late => worker[w].pc \in {"dispatch", "delete"}

\* SIGINT ends the program: although a signal between the test of quit and the
\* sleep is slept on (Controller.hh:41-42), and whatever the workers are in the
\* middle of.
Stops == quit ~> (main = "exited" \/ crashed)

\* "after we start the controller no event listeners will be added.  This way,
\* we don't need to lock this map" (Controller.hh:115-116): no worker changes
\* the map while another is in it.
MapNeedsNoLock == ~Racing

=============================================================================
