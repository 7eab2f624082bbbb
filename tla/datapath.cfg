SPECIFICATION Spec
CONSTANTS
  Fields <- MCFields
  Values <- MCValues
  Bits = {}
  Ports <- MCPorts
  Loop = Loop
  NULL = NULL
  Frames <- MCFrames
  Rules <- MCAllRules
  AnswerRules <- MCAnswerRules
  Deletes <- MCDeletes
  ActionLists <- MCActionLists
  Slots = 1
  MaxPackets = 2
  MaxIds = 2
  MaxFlows = 3
INVARIANTS TableSound AnswersFindPackets
CONSTRAINT MCFocus
CHECK_DEADLOCK FALSE
