-------------------------- MODULE MulticastService --------------------------
(***************************************************************************)
(* What the multicast agent promises to sources and receivers, with no     *)
(* word of OpenFlow: which receivers the switch copies the traffic of each *)
(* source to.  A copy is a receiver together with the interface it is      *)
(* behind.  Receivers come and go one at a time, only after the source has *)
(* been opened, and an interface gets at most one copy.                    *)
(*                                                                         *)
(* The service does not know who asks: any one copy may come or go in a    *)
(* step.  That it is the asker's is what ImplementsService adds to it, for *)
(* the switch that answers at once; over a connection (MulticastWire) the  *)
(* packet that asked was handled some steps before the copy changes.       *)
(***************************************************************************)
CONSTANTS
  GroupIPs,  \* sources
  Copies     \* records with a field "out", the interface a copy leaves by

VARIABLES
  opened,    \* sources whose joins and leaves the switch diverts
  copies     \* copies[g]: the copies made of the traffic of source g

svars == <<opened, copies>>

SInit ==
  /\ opened = {}
  /\ copies = [g \in GroupIPs |-> {}]

Open(g) ==
  /\ opened' = opened \cup {g}
  /\ UNCHANGED copies

Subscribe(g, b) ==
  /\ g \in opened
  /\ \A a \in copies[g] : a.out # b.out
  /\ copies' = [copies EXCEPT ![g] = @ \cup {b}]
  /\ UNCHANGED opened

Unsubscribe(g, b) ==
  /\ b \in copies[g]
  /\ copies' = [copies EXCEPT ![g] = @ \ {b}]
  /\ UNCHANGED opened

SNext ==
  \E g \in GroupIPs :
    \/ Open(g)
    \/ \E b \in Copies : Subscribe(g, b) \/ Unsubscribe(g, b)

SSpec == SInit /\ [][SNext]_svars

=============================================================================
