SPECIFICATION Spec
CONSTANTS
  seed_max = 7
  Commands <- MCCommands
  Levels <- MCLevels
  level_of <- mc_level_of
  busy_cycles = 1
  hardware_concurrency = 2
CHECK_DEADLOCK FALSE
INVARIANT EachAgainstItsOwn
