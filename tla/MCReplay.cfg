SPECIFICATION ReplaySpec
CONSTANTS
  word_max = 2
  int16_max = 4
  Width = 2
  Height = 1
  InputCols = {0}
  NumericCols = {0}
  ImageCols = {1}
  ImageWidth = 2
  ImageHeight = 1
  C_red = 1
  Saves <- ReplaySaves
  Tests <- ReplayTests
  T30_size = 2
  cycles_limit = 46
  RELEASE = TRUE
INVARIANT TypeOK
INVARIANT T21Consistent
INVARIANT VerdictExact
INVARIANT GivesUpForCause
INVARIANT ScoreIndependentOfHistory
INVARIANT NoMemoryExact
PROPERTY EveryRunEnds
