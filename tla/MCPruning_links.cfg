SPECIFICATION BothSpec
CONSTANTS
  word_max = 2
  int16_max = 4
  Width = 2
  Height = 2
  InputCols = {0}
  NumericCols = {0, 1}
  ImageCols = {}
  ImageWidth = 1
  ImageHeight = 1
  C_red = 1
  Saves <- PruneSaves
  Tests <- PruneTests
  T30_size = 2
  cycles_limit = 14
  RELEASE = TRUE
CHECK_DEADLOCK FALSE
INVARIANT PruningInvisible
