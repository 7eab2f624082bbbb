SPECIFICATION ASpec
CONSTANTS
  Conns = {c1, c2}
  GroupIPs = {g1, g2, g3, gs}
  DestIPs <- MCDestIPs
  Hosts = {h1}
  InPorts = {1, 2}
  UdpPorts = {p1, p2}
  IdSpace = 100
  MaxGroupId = 8
  NULL = NULL
  Garbage = Garbage
  HonoursOutPort = TRUE
  Main = Main
  Client = Client
  Scenarios <- MCScenarios
  Stray <- MCStray
  Arrivals = {1, 2, 4}
  MaxRecords = 3
  c1 = c1
  c2 = c2
  g1 = g1
  g2 = g2
  g3 = g3
  gs = gs
  h1 = h1
  p1 = p1
  p2 = p2
INVARIANTS BoundBeforeClient HookLast RefusalsExplained
PROPERTY RecordsHandled
CHECK_DEADLOCK FALSE
