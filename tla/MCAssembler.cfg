SPECIFICATION Spec
CONSTANTS
  word_max = 3
  int16_max = 7
  Texts <- MCTexts
  nodes_type <- mc_nodes_type
  T21_size = 3
  opcode_of <- mc_opcode_of
  integer_of <- mc_integer_of
  abbreviations <- mc_abbreviations
CHECK_DEADLOCK FALSE
INVARIANT TypeOK
INVARIANT CodeExact
INVARIANT AcceptedIffLegal
