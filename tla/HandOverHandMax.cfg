\* The benchmark started with --keys=INT_MAX.
CONSTANTS
  Threads = {t1, t2}
  Ops = 2
  KeySpace = 2
  INT_MAX = 2
  MaxNodes = 4
SPECIFICATION Spec
INVARIANTS Sentinels
CHECK_DEADLOCK FALSE
