SPECIFICATION FSpec
CONSTANTS
  Fields = {in_port, tp_dst}
  Values <- MCValues
  Bits <- MCBits
  Masks <- MCAllMasks
  Priorities <- MCPriorities
INVARIANTS AddressesNest AddressesEqual ContainedMatches PacketMatchAgrees
CHECK_DEADLOCK FALSE
