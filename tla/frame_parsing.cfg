SPECIFICATION FrameSpec
CONSTANTS
  MaxLen = 62
  MaxTags = 2
INVARIANTS
  ReadsInBounds
  LeaksOnICMPOnly
  UntaggedParsedFully
PROPERTY
  Returns
CHECK_DEADLOCK FALSE
