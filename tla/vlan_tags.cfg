SPECIFICATION FrameSpec
CONSTANTS
  MaxLen = 62
  MaxTags = 2
INVARIANT
  TagsSkipped
CHECK_DEADLOCK FALSE
