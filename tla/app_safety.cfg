SPECIFICATION SwSpec
CONSTANTS
  Conns = {c1, c2}
  GroupIPs = {g1, g2}
  DestIPs <- MCDestIPs
  Hosts = {h1}
  InPorts = {1, 3, 258}
  UdpPorts = {p1, p2}
  IdSpace = 100
  MaxGroupId = 6
  NULL = NULL
  Garbage = Garbage
  HonoursOutPort = TRUE
SYMMETRY MCSymmetry
INVARIANTS
  TypeOK
  GroupIdsDistinct
  DatapathMirrors
  NothingRefused
  UpstreamTracksMembership
  BucketsMatchMembers
  BucketReachesInterface
PROPERTY
  FrozenAfterDisconnect
  ImplementsService
CHECK_DEADLOCK FALSE
