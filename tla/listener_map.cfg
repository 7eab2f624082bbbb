SPECIFICATION Spec
CONSTANTS
  w1 = w1
  w2 = w2
  c1 = c1
  c2 = c2
  Workers = {w1, w2}
  Conns = {c1, c2}
  WorkerOf <- MCWorkerOf
  Programs <- MCPrograms
  MaxMessages = 3
  NULL = NULL
INVARIANT MapNeedsNoLock
CHECK_DEADLOCK FALSE
