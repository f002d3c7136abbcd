\* Two workers, three tasks: the whole life of a pool whose tasks end.
CONSTANTS
  Workers = {w1, w2}
  Tasks = {t1, t2, t3}
  Delays = {0, 1}
  Exits = {"ExecPending", "SkipPending"}
  MaxTime = 1
  kImmediateMaxId = 2
SPECIFICATION FairSpec
INVARIANT OnePlace
PROPERTIES KeepsPromise TasksEnd WorkersLeave
CHECK_DEADLOCK FALSE
