SPECIFICATION MCSpec
CONSTANTS
  Main = main
  worker = worker
  Threads = {main, worker}
  Handles = {0, 1, 2}
  Private <- WorkerHandle
  UsingPkey = TRUE
  total_blocks = 4
  max_main_memory_blocks = 2
  max_eph_memory_blocks = 2
INVARIANTS LevelsConsistent HitReadsItsBlock NeverGivesUp ContextMatchesStack
PROPERTIES AttemptSurvives
