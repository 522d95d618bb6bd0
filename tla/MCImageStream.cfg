SPECIFICATION Spec
CONSTANTS
  word_max = 3
  int16_max = 6
  ImageWidth = 2
  ImageHeight = 2
  C_red = 2
INVARIANT CounterExact
PROPERTY PaintsUnderCursor
