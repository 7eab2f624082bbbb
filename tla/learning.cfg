SPECIFICATION Spec
CONSTANTS
  Conns = {c1}
  Macs = {m1, m2}
  Broadcast = Broadcast
  Ports = {1, 2}
  Programs <- MCPrograms
  ToSelf = {m1}
  MaxToCtl = 1
  MaxToSw = 1
  MaxReplies = 2
  NULL = NULL
INVARIANT FlowsLeadToStations
PROPERTIES StationsLearned FlowsConverge
CHECK_DEADLOCK FALSE
