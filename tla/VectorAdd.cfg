\* Three threads, one addition each, in all five programs with every
\* combination of the switches.  `deadlock -d' really stops.
CONSTANTS
  NumThreads = 3
  Loops = 1
  VectorSize = 2
  IntRange = 16
  RetryBound = 1
SPECIFICATION FairSpec
INVARIANTS IInv DeadlockOnlyOnRequest Serialized NothingLost
PROPERTIES Termination
CHECK_DEADLOCK FALSE
