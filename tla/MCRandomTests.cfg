SPECIFICATION Spec
CONSTANTS
  Threads = {t1, t2}
  total_random_tests = 3
  fixed_cycles = {1, 4}
  random_cycles_limit = 2
  total_cycles_limit = 6
  cheat_num = 1
  cheat_den = 3
  compute_stats = FALSE
CHECK_DEADLOCK FALSE
INVARIANT Types
INVARIANT EachSeedOnce
INVARIANT ScoreExact
INVARIANT StopsForCause
INVARIANT CheatIndependentOfSchedule
INVARIANT OvershootBounded
INVARIANT OneMoreEach
PROPERTY AlwaysReports
