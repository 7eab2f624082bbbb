SPECIFICATION WSpec
CONSTANTS
  Conns = {c1}
  GroupIPs = {g1, g2}
  DestIPs <- MCDestIPs
  Hosts = {h1}
  InPorts = {1, 2}
  UdpPorts = {p1, p2}
  IdSpace = 100
  MaxGroupId = 4
  NULL = NULL
  Garbage = Garbage
  HonoursOutPort = FALSE
INVARIANT
  NoDanglingFlow
PROPERTIES
  ServiceAtEveryInstant
  ReceiversFollowed
CHECK_DEADLOCK FALSE
