CONSTANTS
  word_max = 2
  int16_max = 5
  ImageWidth = 2
  ImageHeight = 1
  C_red = 1
  uint8_max = 3
  field_width = 2
  field_height = 1
  Scripts <- McScripts
SPECIFICATION Spec
INVARIANTS TypeOK StreamsReachTheirNodes FailsForCause
CHECK_DEADLOCK FALSE
