SPECIFICATION TSpec
CONSTANTS
  Agent = c1
  GroupIPs = {g1}
  Host = h1
  IdSpace = 100
  NULL = NULL
  Garbage = Garbage
  HonoursOutPort = TRUE
  DestIP <- MCDestIP
  SPort = p1
  DPort = p2
  EdgePorts = {1, 2}
  RootPorts = {1}
  LinkPort = 2
  MaxEdgeId = 9
  MaxRootId = 12
INVARIANT BranchInStep
PROPERTY BranchFollows
CHECK_DEADLOCK FALSE
