CONSTANTS
  word_max = 999
  int16_max = 32767
  max_test_length <- mc_length
  image_width <- mc_width
  image_height <- mc_height
  Sample <- mc_sample
  rectangles = 2
  max_iterations = 2
  longest = 3
  merged_values = {10, 55, 99}
  long_enough = 3
  groups = 2
  group_size = 1
  seq_lengths <- mc_subsequences
  gap_lengths <- mc_gaps
  digits = 3
  indexed = 3
  path_points = 3
  factored = 2
SPECIFICATION Spec
INVARIANTS TypeOK SolvesTask PromisesKept ImageShowsInput
PROPERTY AlwaysGenerates
CHECK_DEADLOCK FALSE
