SPECIFICATION Spec
CONSTANTS
  NULL = NULL
  t1 = t1
  t2 = t2
  t3 = t3
  Tasks = {t1, t2, t3}
  MicrosPerSec = 2
  MaxSec = 2
  Clock <- MCClock
  Delays <- MCDelays
  RetireBatched = FALSE
SYMMETRY TaskSymmetry
INVARIANTS NothingLost DeleteCopes
PROPERTY ImplementsTaskQueue
CHECK_DEADLOCK FALSE
