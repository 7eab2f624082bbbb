--------------------------- MODULE MulticastWire ---------------------------
(***************************************************************************)
(* The multicast agent and its switch with the connection between them:    *)
(* the messages of a handler are queued and the switch processes them one  *)
(* at a time, in order, while the agent runs other handlers.  When the     *)
(* connection goes down the messages still queued are never processed.     *)
(***************************************************************************)
EXTENDS MulticastSwitch

VARIABLE wire   \* messages sent to the switch that it has not processed

wvars == <<swvars, wire>>

WInit == SwInit /\ wire = <<>>

\* a handler of the agent runs and queues its messages
AgentStep ==
  /\ Next
  /\ wire' = wire \o out'
  /\ UNCHANGED dp

\* the switch processes the oldest message
Deliver ==
  /\ wire # <<>>
  /\ conn[ofconn] = "up"
  /\ dp' = Switch!Apply(dp, Head(wire))
  /\ wire' = Tail(wire)
  /\ UNCHANGED vars

WNext == AgentStep \/ Deliver

\* The connection delivers while the agent's process lives: its event loop
\* flushes the output buffer whenever the socket is writable.
WSpec == WInit /\ [][WNext]_wvars /\ WF_wvars(Deliver /\ Running)

-----------------------------------------------------------------------------
(* Properties *)

\* Message by message, and whatever prefix a lost connection lets through,
\* the switch itself never does anything but the multicast service: no message
\* adds or removes the copies of two receivers, not even in passing.  Whose
\* packet the one copy answers is not said here (ImplementsService says it).
ServiceAtEveryInstant == Service!SSpec

\* At no instant does a flow in the switch point at a group that is not
\* there, whichever of group and flow is changed first (MCApps.hh:352-359,
\* 389-400), and the switch has no reason to refuse a message.
NoDanglingFlow ==
  /\ ~dp.refused
  /\ \A f \in dp.flows : dp.groups[f.group] # NULL

\* the agent lives and the switch still listens to it
Connected == Attached /\ Running

\* What the agent records of receivers reaches the switch though nothing is
\* acknowledged (MCApps.hh:352): who joins is eventually served, who leaves is
\* eventually no longer sent to, unless it changes its mind first or the
\* connection or the process is lost.
ReceiversFollowed ==
  \A g \in GroupIPs, i \in Intfs :
    /\ (Connected /\ members[g][i] # NULL) ~>
         \/ members[g][i] = NULL
         \/ ~Connected
         \/ BucketOf(members[g][i]) \in CopiesMade(dp, g)
    /\ (Connected /\ members[g][i] = NULL) ~>
         \/ members[g][i] # NULL
         \/ ~Connected
         \/ \A b \in CopiesMade(dp, g) : b.out # MemberIntf(i)

=============================================================================
