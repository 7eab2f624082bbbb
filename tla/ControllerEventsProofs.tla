----------------------- MODULE ControllerEventsProofs -----------------------
(***************************************************************************)
(* For every number of workers, connections and messages, and for every    *)
(* kind of program: messages are freed once, tables are neither lost nor   *)
(* freed early, and what stop() does is not dispatched.                    *)
(***************************************************************************)
EXTENDS ControllerEvents, FiniteSetTheorems, TLAPS

Steps == {"idle", "dispatch", "listeners", "callback", "lock", "push", "delete"}

Work == [pc : Steps, type : EventTypes \cup {NULL}, conn : Conns \cup {NULL},
         msg : Msg \cup {NULL}, late : BOOLEAN, table : Nat \cup {NULL},
         copy : Seq(Nat)]

Pushing(w) == worker[w].pc \in {"lock", "push"}

\* The types of what the workers share, and that a worker that is not idle
\* has an event of a connection, and a table if it is pushing one.
CTypeOK ==
  /\ program \in Programs
  /\ main \in {"start", "blocked", "check", "drowsy", "asleep", "stop", "close",
               "join", "destroy", "exited"}
  /\ running \in BOOLEAN
  /\ worker \in [Workers -> Work]
  /\ conn \in [Conns -> {"none", "open", "closing", "closed"}]
  /\ data \in [Conns -> Nat \cup {NULL}]
  /\ received \in Nat /\ messages \subseteq Msg
  /\ created \in Nat /\ tables \subseteq Nat
  /\ l2tables \in Seq(Nat)
  /\ \A w \in Workers : IF worker[w].pc = "idle" THEN worker[w] = Idle
                        ELSE /\ worker[w].conn \in Conns
                             /\ Pushing(w) => worker[w].table # NULL

\* Messages are those received; an event's message is some worker's, and no
\* two workers have the same one.
MessagesOwned ==
  /\ \A m \in messages : m.id <= received
  /\ \A m \in messages : m.type # "other" => \E w \in Workers : worker[w].msg = m
  /\ \A w \in Workers : worker[w].msg # NULL => worker[w].msg \in messages
  /\ \A v, w \in Workers :
       worker[v].msg = worker[w].msg /\ worker[v].msg # NULL => v = w

\* After the server has stopped no worker has anything to do.
StoppedIdle ==
  main \in {"destroy", "exited"} => \A w \in Workers : worker[w] = Idle

\* The worker in the mutex starts from the list as it is.
MutexHeld ==
  \A w \in Workers :
    /\ worker[w].pc = "push" <=> mutex = w
    /\ worker[w].pc = "push" => worker[w].copy = l2tables

\* A table that is about to be pushed is in the list neither now nor by another
\* worker's doing; one that has been pushed is.
PushedOnce ==
  \A w \in Workers :
    /\ Pushing(w) => /\ worker[w].table \notin ToSet(l2tables)
                     /\ \A v \in Workers \ {w} : worker[v].table # worker[w].table
    /\ ~Pushing(w) /\ worker[w].table # NULL => worker[w].table \in ToSet(l2tables)

Held == { worker[w].table : w \in Workers } \ {NULL}

\* The list and the workers hold the tables, which the connections' data are.
TablesHeld ==
  /\ tables = ToSet(l2tables) \cup Held
  /\ tables \subseteq 1..created
  /\ IsInjective(l2tables)
  /\ main # "exited" => \A c \in Conns : data[c] \in tables \cup {NULL}

TablesInv == StoppedIdle /\ MutexHeld /\ PushedOnce /\ TablesHeld

\* Connections are closed by stop() only after running has been cleared, so
\* what tells of their end comes too late to be dispatched.
LateInv ==
  /\ main \in {"close", "join", "destroy", "exited"} => ~running
  /\ \A c \in Conns : conn[c] = "closing" => ~running
  /\ \A w \in Workers :
       worker[w].late => ~running /\ worker[w].pc \in {"dispatch", "delete"}

-----------------------------------------------------------------------------
(* Lists of tables *)

\* The members of a list that has been appended to (Controller.hh:223).
LEMMA AppendedTable ==
  ASSUME NEW s \in Seq(Nat), NEW t \in Nat
  PROVE  /\ Append(s, t) \in Seq(Nat)
         /\ ToSet(Append(s, t)) = ToSet(s) \cup {t}
         /\ t \notin ToSet(s) /\ IsInjective(s) => IsInjective(Append(s, t))
<1>1. /\ Append(s, t) \in Seq(Nat) /\ Len(s) \in Nat
      /\ DOMAIN s = 1..Len(s) /\ DOMAIN Append(s, t) = 1..Len(s) + 1
      /\ \A i \in 1..Len(s) : Append(s, t)[i] = s[i]
      /\ Append(s, t)[Len(s) + 1] = t
  OBVIOUS
<1>2. ToSet(Append(s, t)) = ToSet(s) \cup {t}
  BY <1>1 DEF ToSet
<1>3. ASSUME t \notin ToSet(s), IsInjective(s)
      PROVE  IsInjective(Append(s, t))
  BY <1>1, <1>3 DEF ToSet, IsInjective
<1> QED
  BY <1>1, <1>2, <1>3

\* NULL is none of the values it stands for the absence of.
LEMMA NullIsNothing ==
  NULL \notin Nat /\ NULL \notin Workers /\ NULL \notin Conns /\ NULL \notin Msg
  BY ControllerAssumption

\* A worker that waits for the next event has nothing in its hands.
LEMMA IdleIsWork == Idle \in Work /\ Idle.pc = "idle" /\ Idle.msg = NULL
                    /\ Idle.table = NULL /\ Idle.late = FALSE
  BY DEF Idle, Work, Steps

\* What an event is (Controller.hh:56-91).
LEMMA EventIsWork ==
  ASSUME NEW type \in EventTypes, NEW c \in Conns, NEW m \in Msg \cup {NULL},
         NEW late \in BOOLEAN
  PROVE  Event(type, c, m, late) \in Work
  BY DEF Event, Work, Steps

-----------------------------------------------------------------------------
(* Types *)

\* The types hold when the server starts.
LEMMA InitTypes == Init => CTypeOK
  BY IdleIsWork DEF Init, CTypeOK

\* what a worker may become when it goes to its next step
LEMMA GoingKeepsTypes ==
  ASSUME CTypeOK, NEW w \in Workers, worker[w].pc # "idle",
         NEW step \in {"listeners", "callback", "delete"}, Goto(w, step)
  PROVE  /\ worker' \in [Workers -> Work]
         /\ \A v \in Workers : IF worker'[v].pc = "idle" THEN worker'[v] = Idle
                               ELSE /\ worker'[v].conn \in Conns
                                    /\ Pushing(v)' => worker'[v].table # NULL
  BY DEF CTypeOK, Goto, Work, Steps, Pushing

\* Every step of a worker or of main keeps the types.
LEMMA NextTypes == CTypeOK /\ [Next]_vars => CTypeOK'
<1> SUFFICES ASSUME CTypeOK, [Next]_vars PROVE CTypeOK'
  OBVIOUS
<1> USE NullIsNothing, IdleIsWork
<1>1. ASSUME NEW c \in Conns, Connect(c)
      PROVE  CTypeOK'
  BY <1>1 DEF Connect, CTypeOK, Pushing, learning
<1>2. ASSUME NEW c \in Conns, NEW type \in {"PACKET_IN", "SWITCH_UP", "other"},
             Message(c, type)
      PROVE  CTypeOK'
  <2> DEFINE m == [id |-> received + 1, type |-> type]
             w == WorkerOf[c]
  <2>1. w \in Workers /\ m \in Msg
    BY ControllerAssumption DEF CTypeOK, Msg, EventTypes
  <2>2. type \in EventTypes =>
          /\ Event(type, c, m, FALSE) \in Work
          /\ Event(type, c, m, FALSE).pc = "dispatch"
          /\ Event(type, c, m, FALSE).conn = c
    BY <2>1, EventIsWork DEF Event
  <2> HIDE DEF m, w
  <2>3. /\ worker' = IF type \in EventTypes
                     THEN [worker EXCEPT ![w] = Event(type, c, m, FALSE)] ELSE worker
        /\ received' = received + 1 /\ messages' = messages \cup {m}
        /\ UNCHANGED <<program, main, running, conn, data, created, tables, l2tables>>
    BY <1>2 DEF Message, m, w, learning
  <2>4. worker' \in [Workers -> Work]
    BY <2>1, <2>2, <2>3 DEF CTypeOK
  <2>5. \A v \in Workers : IF worker'[v].pc = "idle" THEN worker'[v] = Idle
                           ELSE /\ worker'[v].conn \in Conns
                                /\ Pushing(v)' => worker'[v].table # NULL
    BY <2>1, <2>2, <2>3 DEF CTypeOK, Pushing
  <2>6. received' \in Nat /\ messages' \subseteq Msg
    BY <2>1, <2>3 DEF CTypeOK
  <2>7. /\ program' \in Programs /\ running' \in BOOLEAN
        /\ main' \in {"start", "blocked", "check", "drowsy", "asleep", "stop",
                     "close", "join", "destroy", "exited"}
        /\ conn' \in [Conns -> {"none", "open", "closing", "closed"}]
        /\ data' \in [Conns -> Nat \cup {NULL}]
        /\ created' \in Nat /\ tables' \subseteq Nat
        /\ l2tables' \in Seq(Nat)
    BY <2>3 DEF CTypeOK
  <2> QED
    BY <2>4, <2>5, <2>6, <2>7 DEF CTypeOK
<1>3. ASSUME NEW c \in Conns, Closed(c)
      PROVE  CTypeOK'
  <2> DEFINE w == WorkerOf[c]
             ev == Event("SWITCH_DOWN", c, NULL, conn[c] = "closing")
  <2>1. w \in Workers
    BY ControllerAssumption
  <2>2. ev \in Work /\ ev.pc = "dispatch" /\ ev.conn = c
    <3>1. ev \in Work
      BY EventIsWork DEF EventTypes
    <3> QED
      BY <3>1 DEF Event
  <2> HIDE DEF w, ev
  <2>3. /\ worker' = [worker EXCEPT ![w] = ev]
        /\ conn' = [conn EXCEPT ![c] = "closed"]
        /\ UNCHANGED <<program, main, running, received, messages, data, created,
                       tables, l2tables>>
    BY <1>3 DEF Closed, w, ev, learning
  <2> QED
    BY <2>1, <2>2, <2>3 DEF CTypeOK, Pushing
<1>4. ASSUME NEW w \in Workers, TestRunning(w) \/ GetListeners(w) \/ Callback(w)
      PROVE  CTypeOK'
  <2>1. /\ worker[w].pc # "idle"
        /\ Goto(w, "listeners") \/ Goto(w, "callback") \/ Goto(w, "delete")
        /\ UNCHANGED <<program, main, running, conn, received, messages, data,
                       created, tables, l2tables>>
    BY <1>4 DEF TestRunning, GetListeners, Callback, At, learning
  <2> QED
    BY <2>1, GoingKeepsTypes DEF CTypeOK
<1>5. ASSUME NEW w \in Workers, NewTable(w)
      PROVE  CTypeOK'
  <2> DEFINE t == created + 1
  <2>1. t \in Nat /\ worker[w].pc = "callback" /\ worker[w].conn \in Conns
    BY <1>5 DEF NewTable, At, CTypeOK
  <2> HIDE DEF t
  <2>2. /\ created' = t /\ tables' = tables \cup {t}
        /\ data' = [data EXCEPT ![worker[w].conn] = t]
        /\ worker' = [worker EXCEPT ![w].pc = "lock", ![w].table = t]
        /\ UNCHANGED <<program, main, running, conn, received, messages, l2tables>>
    BY <1>5 DEF NewTable, t
  <2>3. worker' \in [Workers -> Work]
    <3>1. worker[w] \in Work
      BY DEF CTypeOK
    <3>2. [worker[w] EXCEPT !.pc = "lock", !.table = t] \in Work
      BY <2>1, <3>1 DEF Work, Steps
    <3>3. worker' = [worker EXCEPT ![w] = [worker[w] EXCEPT !.pc = "lock", !.table = t]]
      BY <2>2
    <3> QED
      BY <3>2, <3>3 DEF CTypeOK
  <2>4. data' \in [Conns -> Nat \cup {NULL}]
    BY <2>1, <2>2 DEF CTypeOK
  <2>5. \A v \in Workers : IF worker'[v].pc = "idle" THEN worker'[v] = Idle
                           ELSE /\ worker'[v].conn \in Conns
                                /\ Pushing(v)' => worker'[v].table # NULL
    BY <2>1, <2>2 DEF CTypeOK, Work, Pushing
  <2> QED
    BY <2>1, <2>2, <2>3, <2>4, <2>5 DEF CTypeOK
<1>6. ASSUME NEW w \in Workers, Lock(w)
      PROVE  CTypeOK'
  BY <1>6 DEF Lock, At, CTypeOK, Work, Steps, Pushing
<1>7. ASSUME NEW w \in Workers, Push(w)
      PROVE  CTypeOK'
  <2>1. worker[w].pc = "push" /\ Goto(w, "delete")
    BY <1>7 DEF Push, At
  <2>2. worker[w].table \in Nat /\ worker[w].copy \in Seq(Nat)
    BY <2>1 DEF CTypeOK, Pushing, Work
  <2>3. l2tables' \in Seq(Nat)
    BY <1>7, <2>2, AppendedTable DEF Push
  <2> QED
    BY <1>7, <2>1, <2>3, GoingKeepsTypes DEF Push, CTypeOK
<1>8. ASSUME NEW w \in Workers, Delete(w)
      PROVE  CTypeOK'
  BY <1>8 DEF Delete, CTypeOK, Pushing, learning
<1>9. CASE MainStep \/ Interrupt
  <2>1. CASE CloseConnections
    BY <2>1 DEF CloseConnections, MainGoes, CTypeOK, Pushing, learning
  <2>2. CASE Destroy
    <3>1. <<>> \in Seq(Nat)
      OBVIOUS
    <3> QED
      BY <2>2, <3>1 DEF Destroy, MainGoes, CTypeOK, Pushing, server
  <2> QED
    BY <1>9, <2>1, <2>2
       DEF MainStep, Start, CheckQuit, FallAsleep, Wake, ClearRunning, JoinWorkers,
           Interrupt, MainGoes, CTypeOK, Pushing, server, learning
<1>10. CASE UNCHANGED vars
  BY <1>10 DEF vars, server, learning, CTypeOK, Pushing
<1> QED
  BY <1>1, <1>2, <1>3, <1>4, <1>5, <1>6, <1>7, <1>8, <1>9, <1>10 DEF Next, WorkerStep

\* The workers, connections, messages and tables are what their types say.
THEOREM ControllerTypes == Spec => []CTypeOK
  BY InitTypes, NextTypes, PTL DEF Spec

\* Making a table, entering the mutex and leaving it change neither the event
\* nor its message.
LEMMA SameEvent ==
  ASSUME CTypeOK, NEW w \in Workers, NewTable(w) \/ Lock(w) \/ Push(w)
  PROVE  /\ \A v \in Workers \ {w} : worker'[v] = worker[v]
         /\ worker'[w].msg = worker[w].msg
         /\ worker'[w].late = worker[w].late
         /\ worker'[w].conn = worker[w].conn
<1>1. worker \in [Workers -> Work]
  BY DEF CTypeOK
<1>2. CASE NewTable(w)
  BY <1>1, <1>2 DEF NewTable, Work
<1>3. CASE Lock(w)
  BY <1>1, <1>3 DEF Lock, Work
<1>4. CASE Push(w)
  BY <1>1, <1>4 DEF Push, Goto, Work
<1> QED
  BY <1>2, <1>3, <1>4

-----------------------------------------------------------------------------
(* Messages *)

\* At the start no message has been received.
LEMMA InitMessages == Init => MessagesOwned
  BY NullIsNothing, IdleIsWork DEF Init, MessagesOwned

\* A step that leaves the workers' messages alone.
LEMMA SameMessages ==
  ASSUME MessagesOwned, UNCHANGED <<received, messages>>,
         \A w \in Workers : worker'[w].msg = worker[w].msg
  PROVE  MessagesOwned'
  BY DEF MessagesOwned

\* Every step leaves each unfreed message with the one worker that has it.
LEMMA NextMessages == CTypeOK /\ MessagesOwned /\ [Next]_vars => MessagesOwned'
<1> SUFFICES ASSUME CTypeOK, MessagesOwned, [Next]_vars PROVE MessagesOwned'
  OBVIOUS
<1>1. ASSUME NEW c \in Conns, NEW type \in {"PACKET_IN", "SWITCH_UP", "other"},
             Message(c, type)
      PROVE  MessagesOwned'
  <2> DEFINE m == [id |-> received + 1, type |-> type]
             w == WorkerOf[c]
  <2>1. /\ w \in Workers /\ m \in Msg /\ m # NULL
        /\ m.id = received + 1 /\ m.type = type
    BY NullIsNothing, ControllerAssumption DEF CTypeOK, Msg, EventTypes
  <2>2. m \notin messages
    BY <2>1 DEF MessagesOwned, CTypeOK
  <2>3. worker[w].msg = NULL /\ \A v \in Workers : worker[v].msg # m
    BY <1>1, <2>1, <2>2, IdleIsWork DEF Message, At, CTypeOK, MessagesOwned
  <2>4. Event(type, c, m, FALSE).msg = m
    BY DEF Event
  <2> HIDE DEF m, w
  <2>5. /\ worker' = IF type \in EventTypes
                     THEN [worker EXCEPT ![w] = Event(type, c, m, FALSE)] ELSE worker
        /\ received' = received + 1 /\ messages' = messages \cup {m}
    BY <1>1 DEF Message, m, w
  <2>6. \A k \in messages' : k.id <= received'
    BY <2>1, <2>5 DEF MessagesOwned, CTypeOK, Msg
  <2>7. CASE type = "other"
    <3>1. type \notin EventTypes
      BY <2>7 DEF EventTypes
    <3> QED
      BY <2>1, <2>5, <2>6, <2>7, <3>1 DEF MessagesOwned
  <2>8. CASE type # "other"
    <3>1. worker' = [worker EXCEPT ![w] = Event(type, c, m, FALSE)]
      BY <2>5, <2>8 DEF EventTypes
    <3>2. /\ worker'[w].msg = m
          /\ \A v \in Workers \ {w} : worker'[v].msg = worker[v].msg
      BY <2>1, <2>4, <3>1 DEF CTypeOK
    <3> QED
      <4>1. NULL \notin messages
        BY NullIsNothing DEF CTypeOK
      <4>2. messages' = messages \cup {m}
        BY <2>5
      <4>3. w \in Workers /\ m.type = type
        BY <2>1
      <4>4. ASSUME NEW k \in messages', k.type # "other"
            PROVE  \E v \in Workers : worker'[v].msg = k
        <5>1. CASE k = m
          BY <3>2, <4>3, <5>1
        <5>2. CASE k \in messages
          <6>1. PICK v \in Workers : worker[v].msg = k
            BY <4>4, <5>2 DEF MessagesOwned
          <6> QED
            BY <2>3, <3>2, <4>1, <5>2, <6>1
        <5> QED
          BY <4>4, <4>2, <5>1, <5>2
      <4>5. \A v \in Workers : worker'[v].msg # NULL => worker'[v].msg \in messages'
        BY <4>2, <4>3, <3>2 DEF MessagesOwned
      <4>6. \A u, v \in Workers :
              worker'[u].msg = worker'[v].msg /\ worker'[u].msg # NULL => u = v
        BY <2>3, <3>2 DEF MessagesOwned
      <4> QED
        BY <2>6, <4>4, <4>5, <4>6 DEF MessagesOwned
  <2> QED
    BY <2>7, <2>8
<1>2. ASSUME NEW c \in Conns, Closed(c)
      PROVE  MessagesOwned'
  <2> DEFINE w == WorkerOf[c]
  <2>1. w \in Workers /\ worker[w].msg = NULL
    BY <1>2, ControllerAssumption, IdleIsWork DEF Closed, At, CTypeOK
  <2>2. Event("SWITCH_DOWN", c, NULL, conn[c] = "closing").msg = NULL
    BY DEF Event
  <2>3. \A v \in Workers : worker'[v].msg = worker[v].msg
    BY <1>2, <2>1, <2>2 DEF Closed, CTypeOK
  <2> QED
    BY <1>2, <2>3, SameMessages DEF Closed
<1>3. ASSUME NEW w \in Workers, NEW step \in Steps, Goto(w, step)
      PROVE  \A v \in Workers : worker'[v].msg = worker[v].msg
  BY <1>3 DEF Goto, CTypeOK, Work
<1>4. ASSUME NEW w \in Workers, TestRunning(w) \/ GetListeners(w) \/ Callback(w)
      PROVE  MessagesOwned'
  <2>1. Goto(w, "listeners") \/ Goto(w, "callback") \/ Goto(w, "delete")
    BY <1>4 DEF TestRunning, GetListeners, Callback
  <2> QED
    BY <1>3, <1>4, <2>1, SameMessages DEF TestRunning, GetListeners, Callback, Steps, learning
<1>5. ASSUME NEW w \in Workers, NewTable(w) \/ Lock(w) \/ Push(w)
      PROVE  MessagesOwned'
  <2>1. \A v \in Workers : worker'[v].msg = worker[v].msg
    BY <1>5, SameEvent
  <2> QED
    BY <1>5, <2>1, SameMessages DEF NewTable, Lock, Push
<1>6. ASSUME NEW w \in Workers, Delete(w)
      PROVE  MessagesOwned'
  <2>1. /\ messages' = messages \ {worker[w].msg}
        /\ worker'[w].msg = NULL
        /\ \A v \in Workers \ {w} : worker'[v].msg = worker[v].msg
        /\ received' = received
    BY <1>6, IdleIsWork DEF Delete, CTypeOK
  <2> QED
    BY <2>1 DEF MessagesOwned
<1>7. CASE \/ \E c \in Conns : Connect(c)
           \/ MainStep \/ Interrupt \/ UNCHANGED vars
  BY <1>7, SameMessages
     DEF Connect, MainStep, Start, CheckQuit, FallAsleep, Wake, ClearRunning,
         CloseConnections, JoinWorkers, Destroy, Interrupt, server, vars
<1> QED
  BY <1>1, <1>2, <1>4, <1>5, <1>6, <1>7 DEF Next, WorkerStep

\* Every message that becomes an event is freed by the one worker that has it,
\* however many workers and connections there are (Controller.hh:137-172).
THEOREM MessagesAlwaysFreed == Spec => []MessagesFreed
<1>1. CTypeOK /\ MessagesOwned => MessagesFreed
  <2> SUFFICES ASSUME CTypeOK, MessagesOwned PROVE MessagesFreed
    OBVIOUS
  <2>1. ASSUME NEW m \in messages, m.type # "other"
        PROVE  Cardinality({ w \in Workers : worker[w].msg = m }) = 1
    <3>1. PICK w \in Workers : worker[w].msg = m
      BY <2>1 DEF MessagesOwned
    <3>2. m # NULL
      BY NullIsNothing DEF CTypeOK
    <3>3. { v \in Workers : worker[v].msg = m } = {w}
      BY <3>1, <3>2 DEF MessagesOwned
    <3> QED
      BY <3>3, FS_Singleton
  <2> QED
    BY <2>1 DEF MessagesFreed, MessagesOwned
<1> QED
  BY <1>1, InitMessages, NextMessages, ControllerTypes, PTL DEF Spec

-----------------------------------------------------------------------------
(* What stop() closes *)

\* At the start no worker has seen anything.
LEMMA InitLate == Init => LateInv
  BY IdleIsWork DEF Init, LateInv

\* Every step keeps a worker that began to dispatch before stop() from
\* hearing of what stop() closes.
LEMMA NextLate == CTypeOK /\ LateInv /\ [Next]_vars => LateInv'
<1> SUFFICES ASSUME CTypeOK, LateInv, [Next]_vars PROVE LateInv'
  OBVIOUS
<1> USE IdleIsWork
<1>1. ASSUME NEW c \in Conns, Connect(c)
      PROVE  LateInv'
  BY <1>1 DEF Connect, LateInv, CTypeOK
<1>2. ASSUME NEW c \in Conns, NEW type \in {"PACKET_IN", "SWITCH_UP", "other"},
             Message(c, type)
      PROVE  LateInv'
  <2> DEFINE ev == Event(type, c, [id |-> received + 1, type |-> type], FALSE)
  <2>1. ev.late = FALSE
    BY DEF Event
  <2> HIDE DEF ev
  <2>2. /\ worker' = [worker EXCEPT ![WorkerOf[c]] = ev] \/ worker' = worker
        /\ UNCHANGED <<main, running, conn>>
    BY <1>2 DEF Message, ev
  <2> QED
    BY <2>1, <2>2 DEF LateInv, CTypeOK
<1>3. ASSUME NEW c \in Conns, Closed(c)
      PROVE  LateInv'
  <2> DEFINE ev == Event("SWITCH_DOWN", c, NULL, conn[c] = "closing")
  <2>1. ev.late = (conn[c] = "closing") /\ ev.pc = "dispatch"
    BY DEF Event
  <2> HIDE DEF ev
  <2>2. /\ worker' = [worker EXCEPT ![WorkerOf[c]] = ev]
        /\ conn' = [conn EXCEPT ![c] = "closed"]
        /\ UNCHANGED <<main, running>>
    BY <1>3 DEF Closed, ev
  <2>3. \A w \in Workers :
          worker'[w].late => ~running' /\ worker'[w].pc \in {"dispatch", "delete"}
    BY <2>1, <2>2 DEF LateInv, CTypeOK
  <2> QED
    BY <2>2, <2>3 DEF LateInv, CTypeOK
<1>4. ASSUME NEW w \in Workers, TestRunning(w)
      PROVE  LateInv'
  BY <1>4 DEF TestRunning, At, Goto, LateInv, CTypeOK, Work
<1>5. ASSUME NEW w \in Workers,
             GetListeners(w) \/ Callback(w) \/ NewTable(w) \/ Lock(w) \/ Push(w)
      PROVE  LateInv'
  <2>1. worker[w].pc \notin {"dispatch", "delete"}
    BY <1>5 DEF GetListeners, Callback, NewTable, Lock, Push, At
  <2>2. ~worker[w].late /\ UNCHANGED <<main, running, conn>>
    BY <1>5, <2>1 DEF GetListeners, Callback, NewTable, Lock, Push, LateInv
  <2>3. /\ worker'[w].late = worker[w].late
        /\ \A v \in Workers \ {w} : worker'[v] = worker[v]
    <3>1. CASE GetListeners(w) \/ Callback(w)
      <4>1. \E step \in Steps : Goto(w, step)
        BY <3>1 DEF GetListeners, Callback, Steps
      <4> QED
        BY <4>1 DEF Goto, CTypeOK, Work
    <3> QED
      BY <1>5, <3>1, SameEvent
  <2> QED
    BY <2>2, <2>3 DEF LateInv
<1>6. ASSUME NEW w \in Workers, Delete(w)
      PROVE  LateInv'
  BY <1>6 DEF Delete, LateInv, CTypeOK
<1>7. CASE CloseConnections
  BY <1>7 DEF CloseConnections, MainGoes, LateInv, CTypeOK
<1>8. CASE \/ Start \/ CheckQuit \/ FallAsleep \/ Wake \/ ClearRunning
           \/ JoinWorkers \/ Destroy \/ Interrupt
  BY <1>8 DEF Start, CheckQuit, FallAsleep, Wake, ClearRunning, JoinWorkers, Destroy,
              Interrupt, MainGoes, LateInv, CTypeOK, server
<1>9. CASE UNCHANGED vars
  BY <1>9 DEF vars, server, LateInv
<1> QED
  BY <1>1, <1>2, <1>3, <1>4, <1>5, <1>6, <1>7, <1>8, <1>9
     DEF Next, WorkerStep, MainStep

\* No application hears of what stop() does, for any number of workers that are
\* in the middle of anything when it is called (Controller.hh:132-135).
THEOREM StopAlwaysSilent == Spec => []StopIsSilent
<1>1. LateInv => StopIsSilent
  BY DEF LateInv, StopIsSilent
<1> QED
  BY <1>1, InitLate, NextLate, ControllerTypes, PTL DEF Spec

-----------------------------------------------------------------------------
(* Tables *)

\* At the start there are no tables.
LEMMA InitTables == Init => TablesInv
<1> SUFFICES ASSUME Init PROVE TablesInv
  OBVIOUS
<1>1. /\ ToSet(l2tables) = {} /\ IsInjective(l2tables)
  BY DEF Init, ToSet, IsInjective
<1>2. \A w \in Workers : worker[w] = Idle
  BY DEF Init
<1>3. Held = {}
  BY <1>2, IdleIsWork DEF Held
<1>4. mutex \notin Workers
  BY NullIsNothing DEF Init
<1> QED
  BY <1>1, <1>2, <1>3, <1>4, IdleIsWork
     DEF Init, TablesInv, StoppedIdle, MutexHeld, PushedOnce, Pushing, TablesHeld

\* A step that leaves alone the tables and what the workers do with them, which
\* it may only do while the server runs, or stop.
LEMMA SameTables ==
  ASSUME TablesInv, UNCHANGED <<data, created, tables, l2tables, mutex>>,
         \A w \in Workers : /\ worker'[w].table = worker[w].table
                            /\ worker'[w].copy = worker[w].copy
                            /\ worker'[w].pc = worker[w].pc
                               \/ {worker'[w].pc, worker[w].pc} \cap {"lock", "push"} = {},
         main' \in {"destroy", "exited"} => \A w \in Workers : worker'[w] = Idle,
         main' = "exited" <=> main = "exited"
  PROVE  TablesInv'
<1>1. Held' = Held
  BY DEF Held
<1>2. \A w \in Workers : /\ Pushing(w)' <=> Pushing(w)
                         /\ worker'[w].pc = "push" <=> worker[w].pc = "push"
  BY DEF Pushing
<1>3. TablesHeld'
  BY <1>1 DEF TablesInv, TablesHeld
<1>4. PushedOnce'
  BY <1>2 DEF TablesInv, PushedOnce
<1>5. MutexHeld'
  BY <1>2 DEF TablesInv, MutexHeld
<1> QED
  BY <1>3, <1>4, <1>5 DEF TablesInv, StoppedIdle

\* Every step leaves each table where it can be found again.
LEMMA NextTables == CTypeOK /\ TablesInv /\ [Next]_vars => TablesInv'
<1> SUFFICES ASSUME CTypeOK, TablesInv, [Next]_vars PROVE TablesInv'
  OBVIOUS
<1>1. ASSUME NEW w \in Workers, NEW step \in {"listeners", "callback", "delete"},
             Goto(w, step), ~Pushing(w), Serving, UNCHANGED <<main, learning>>
      PROVE  TablesInv'
  BY <1>1, SameTables DEF Goto, Pushing, Serving, CTypeOK, Work, learning
<1>2. ASSUME NEW w \in Workers, NEW ev, worker' = [worker EXCEPT ![w] = ev],
             ev.pc = "dispatch", ev.table = NULL, ev.copy = <<>>,
             At(w, "idle"), UNCHANGED <<main, learning>>
      PROVE  TablesInv'
  <2>1. worker[w] = Idle /\ Idle.copy = <<>>
    BY <1>2 DEF At, CTypeOK, Idle
  <2> QED
    BY <1>2, <2>1, IdleIsWork, SameTables DEF At, Serving, CTypeOK, learning
<1>3. ASSUME NEW c \in Conns, Connect(c)
      PROVE  TablesInv'
  BY <1>3, SameTables DEF Connect, TablesInv, StoppedIdle, learning
<1>4. ASSUME NEW c \in Conns, NEW type \in {"PACKET_IN", "SWITCH_UP", "other"},
             Message(c, type)
      PROVE  TablesInv'
  <2> DEFINE ev == Event(type, c, [id |-> received + 1, type |-> type], FALSE)
  <2>1. ev.pc = "dispatch" /\ ev.table = NULL /\ ev.copy = <<>>
    BY DEF Event
  <2> HIDE DEF ev
  <2>2. /\ worker' = [worker EXCEPT ![WorkerOf[c]] = ev] \/ worker' = worker
        /\ At(WorkerOf[c], "idle") /\ WorkerOf[c] \in Workers
        /\ UNCHANGED <<main, learning>>
    BY <1>4, ControllerAssumption DEF Message, ev
  <2>3. CASE worker' = worker
    BY <2>2, <2>3, SameTables DEF TablesInv, StoppedIdle, learning
  <2> QED
    BY <1>2, <2>1, <2>2, <2>3
<1>5. ASSUME NEW c \in Conns, Closed(c)
      PROVE  TablesInv'
  <2> DEFINE ev == Event("SWITCH_DOWN", c, NULL, conn[c] = "closing")
  <2>1. ev.pc = "dispatch" /\ ev.table = NULL /\ ev.copy = <<>>
    BY DEF Event
  <2> HIDE DEF ev
  <2>2. /\ worker' = [worker EXCEPT ![WorkerOf[c]] = ev]
        /\ At(WorkerOf[c], "idle") /\ WorkerOf[c] \in Workers
        /\ UNCHANGED <<main, learning>>
    BY <1>5, ControllerAssumption DEF Closed, ev
  <2> QED
    BY <1>2, <2>1, <2>2
<1>6. ASSUME NEW w \in Workers, TestRunning(w) \/ GetListeners(w) \/ Callback(w)
      PROVE  TablesInv'
  BY <1>1, <1>6 DEF TestRunning, GetListeners, Callback, At, Pushing
<1>7. ASSUME NEW w \in Workers, NewTable(w)
      PROVE  TablesInv'
  <2> DEFINE t == created + 1
  <2>1. /\ t \in Nat /\ t # NULL /\ t \notin tables
        /\ created \in Nat
        /\ worker[w].pc = "callback" /\ worker[w].conn \in Conns
    BY <1>7, NullIsNothing DEF NewTable, At, CTypeOK, TablesInv, TablesHeld
  <2>2. \A v \in Workers : worker[v].table # t
    BY <2>1 DEF TablesInv, TablesHeld, Held
  <2>3. /\ \A v \in Workers \ {w} : worker'[v] = worker[v]
        /\ worker'[w].pc = "lock" /\ worker'[w].table = t
    BY <1>7 DEF NewTable, CTypeOK, Work
  <2>4. /\ tables' = tables \cup {t} /\ created' = t
        /\ data' = [data EXCEPT ![worker[w].conn] = t]
        /\ UNCHANGED <<main, l2tables, mutex>>
        /\ main \notin {"destroy", "exited"}
    BY <1>7 DEF NewTable, At, Serving
  <2>5. ~Pushing(w) /\ (worker[w].table # NULL => worker[w].table \in ToSet(l2tables))
    BY <2>1 DEF TablesInv, PushedOnce, Pushing
  <2> HIDE DEF t
  <2>6. tables' = ToSet(l2tables)' \cup Held'
    <3>1. Held' \subseteq Held \cup {t} /\ t \in Held'
      BY <2>1, <2>3 DEF Held
    <3>2. Held \subseteq Held' \cup ToSet(l2tables)
      BY <2>3, <2>5 DEF Held
    <3> QED
      BY <2>4, <3>1, <3>2 DEF TablesInv, TablesHeld
  <2>7. TablesHeld'
    <3>1. tables' \subseteq 1..created'
      BY <2>1, <2>4 DEF TablesInv, TablesHeld, t
    <3>2. \A c \in Conns : data'[c] \in tables' \cup {NULL}
      BY <2>1, <2>4 DEF TablesInv, TablesHeld, CTypeOK
    <3> QED
      BY <2>4, <2>6, <3>1, <3>2 DEF TablesInv, TablesHeld
  <2>8. PushedOnce'
    <3>1. t \notin ToSet(l2tables) /\ l2tables' = l2tables
      BY <2>1, <2>4 DEF TablesInv, TablesHeld
    <3>2. \A v \in Workers \ {w} : /\ Pushing(v)' <=> Pushing(v)
                                  /\ worker'[v].table = worker[v].table
      BY <2>3 DEF Pushing
    <3>3. Pushing(w)'
      BY <2>3 DEF Pushing
    <3> QED
      BY <2>2, <2>3, <3>1, <3>2, <3>3 DEF TablesInv, PushedOnce
  <2>9. MutexHeld' /\ StoppedIdle'
    BY <2>1, <2>3, <2>4 DEF TablesInv, MutexHeld, StoppedIdle
  <2> QED
    BY <2>7, <2>8, <2>9 DEF TablesInv
<1>8. ASSUME NEW w \in Workers, Lock(w)
      PROVE  TablesInv'
  <2>1. /\ \A v \in Workers \ {w} : worker'[v] = worker[v]
        /\ worker[w].pc = "lock" /\ worker'[w].pc = "push"
        /\ worker'[w].table = worker[w].table /\ worker'[w].copy = l2tables
    BY <1>8 DEF Lock, At, CTypeOK, Work
  <2>2. /\ mutex = NULL /\ mutex' = w
        /\ UNCHANGED <<main, data, created, tables, l2tables>>
        /\ main \notin {"destroy", "exited"}
    BY <1>8 DEF Lock, At, Serving
  <2>3. Held' = Held
    BY <2>1 DEF Held
  <2>4. \A v \in Workers : worker'[v].table = worker[v].table /\ (Pushing(v)' <=> Pushing(v))
    BY <2>1 DEF Pushing
  <2>5. MutexHeld'
    BY <2>1, <2>2, NullIsNothing DEF TablesInv, MutexHeld
  <2>6. PushedOnce'
    BY <2>2, <2>4 DEF TablesInv, PushedOnce
  <2> QED
    BY <2>2, <2>3, <2>5, <2>6 DEF TablesInv, TablesHeld, StoppedIdle
<1>9. ASSUME NEW w \in Workers, Push(w)
      PROVE  TablesInv'
  <2> DEFINE t == worker[w].table
  <2>1. /\ \A v \in Workers \ {w} : worker'[v] = worker[v]
        /\ worker[w].pc = "push" /\ worker'[w].pc = "delete"
        /\ worker'[w].table = worker[w].table
    BY <1>9 DEF Push, Goto, At, CTypeOK, Work
  <2>2. /\ t \in Nat /\ t # NULL /\ t \notin ToSet(l2tables)
        /\ \A v \in Workers \ {w} : worker[v].table # t
        /\ \A v \in Workers \ {w} : worker[v].pc # "push"
    BY <2>1 DEF TablesInv, MutexHeld, PushedOnce, Pushing, CTypeOK, Work
  <2>3. /\ l2tables' = Append(l2tables, t) /\ mutex' = NULL
        /\ UNCHANGED <<main, data, created, tables>>
        /\ main \notin {"destroy", "exited"}
    BY <1>9, <2>1 DEF Push, At, Serving, TablesInv, MutexHeld
  <2>4. ToSet(l2tables)' = ToSet(l2tables) \cup {t} /\ IsInjective(l2tables)'
    BY <2>2, <2>3, AppendedTable DEF CTypeOK, TablesInv, TablesHeld
  <2>5. Held' = Held /\ t \in Held
    BY <2>1, <2>2 DEF Held
  <2>6. \A v \in Workers \ {w} : /\ Pushing(v)' <=> Pushing(v)
                                /\ worker'[v].table = worker[v].table
    BY <2>1 DEF Pushing
  <2>7. ~Pushing(w)'
    BY <2>1 DEF Pushing
  <2> HIDE DEF t
  <2>8. PushedOnce'
    BY <2>1, <2>2, <2>4, <2>6, <2>7 DEF TablesInv, PushedOnce, t
  <2>9. MutexHeld'
    BY <2>1, <2>2, <2>3, NullIsNothing DEF TablesInv, MutexHeld
  <2>10. TablesHeld'
    BY <2>3, <2>4, <2>5 DEF TablesInv, TablesHeld
  <2> QED
    BY <2>3, <2>8, <2>9, <2>10 DEF TablesInv, StoppedIdle
<1>10. ASSUME NEW w \in Workers, Delete(w)
      PROVE  TablesInv'
  <2>1. /\ \A v \in Workers \ {w} : worker'[v] = worker[v]
        /\ worker[w].pc = "delete" /\ worker'[w] = Idle
    BY <1>10 DEF Delete, At, CTypeOK
  <2>2. UNCHANGED <<main, data, created, tables, l2tables, mutex>>
        /\ main \notin {"destroy", "exited"}
    BY <1>10 DEF Delete, At, Serving, learning
  <2>3. worker[w].table # NULL => worker[w].table \in ToSet(l2tables)
    BY <2>1 DEF TablesInv, PushedOnce, Pushing
  <2>4. Held' \subseteq Held /\ Held \subseteq Held' \cup ToSet(l2tables)
    BY <2>1, <2>3, IdleIsWork DEF Held
  <2>5. ~Pushing(w)' /\ worker'[w].table = NULL
    BY <2>1, IdleIsWork DEF Pushing
  <2>6. \A v \in Workers \ {w} : /\ Pushing(v)' <=> Pushing(v)
                                /\ worker'[v].table = worker[v].table
    BY <2>1 DEF Pushing
  <2>7. PushedOnce'
    <3>1. \A v \in Workers : Pushing(v) => worker[v].table # NULL
      BY IdleIsWork DEF CTypeOK, Pushing
    <3> QED
      BY <2>2, <2>5, <2>6, <3>1 DEF TablesInv, PushedOnce
  <2>8. MutexHeld'
    BY <2>1, <2>2, IdleIsWork DEF TablesInv, MutexHeld
  <2>9. TablesHeld'
    BY <2>2, <2>4 DEF TablesInv, TablesHeld
  <2> QED
    BY <2>2, <2>7, <2>8, <2>9 DEF TablesInv, StoppedIdle
<1>11. CASE JoinWorkers
  BY <1>11, SameTables DEF JoinWorkers, MainGoes, server, learning
<1>12. CASE Destroy
  <2>1. /\ \A w \in Workers : worker'[w] = Idle /\ worker[w] = Idle
        /\ tables' = tables \ ToSet(l2tables) /\ l2tables' = <<>>
        /\ mutex' = mutex /\ created' = created /\ main' = "exited"
    BY <1>12 DEF Destroy, MainGoes, server, TablesInv, StoppedIdle
  <2>2. Held = {} /\ Held' = {}
    BY <2>1, IdleIsWork DEF Held
  <2>3. ToSet(l2tables)' = {} /\ IsInjective(l2tables)'
    BY <2>1 DEF ToSet, IsInjective
  <2>4. TablesHeld'
    BY <2>1, <2>2, <2>3 DEF TablesInv, TablesHeld
  <2> QED
    BY <2>1, <2>4, IdleIsWork DEF TablesInv, StoppedIdle, MutexHeld, PushedOnce, Pushing
<1>13. CASE \/ Start \/ CheckQuit \/ FallAsleep \/ Wake \/ ClearRunning
            \/ CloseConnections \/ Interrupt
  BY <1>13, SameTables
     DEF Start, CheckQuit, FallAsleep, Wake, ClearRunning, CloseConnections,
         Interrupt, MainGoes, server, learning
<1>14. CASE UNCHANGED vars
  BY <1>14, SameTables DEF vars, server, learning, TablesInv, StoppedIdle
<1> QED
  BY <1>3, <1>4, <1>5, <1>6, <1>7, <1>8, <1>9, <1>10, <1>11, <1>12, <1>13, <1>14
     DEF Next, WorkerStep, MainStep

\* Tables are neither lost nor freed early, for any number of workers that make
\* and push them at the same time (Controller.hh:193-227).
THEOREM TablesAlwaysKept == Spec => []TablesKept
<1>1. CTypeOK /\ TablesInv => TablesKept
  <2> SUFFICES ASSUME CTypeOK, TablesInv PROVE TablesKept
    OBVIOUS
  <2>1. ASSUME NEW w \in Workers, worker[w].pc = "callback"
        PROVE  main # "exited" /\ worker[w].conn \in Conns
    BY <2>1, IdleIsWork DEF CTypeOK, TablesInv, StoppedIdle
  <2> QED
    BY <2>1 DEF TablesInv, TablesHeld, TablesKept, Held
<1> QED
  BY <1>1, InitTables, NextTables, ControllerTypes, PTL DEF Spec

=============================================================================
