\* A task that takes for ever, and one that is due meanwhile.
CONSTANTS
  Workers = {w1, w2}
  Tasks = {t1, t2}
  Delays = {1, 2}
  Exits = {"ExecPending", "SkipPending"}
  MaxTime = 2
  kImmediateMaxId = 2
SPECIFICATION LongTasksSpec
PROPERTY DueTasksStart
CHECK_DEADLOCK FALSE
