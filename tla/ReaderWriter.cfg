\* Two readers and two writers, two rounds each, to the end of the program.
CONSTANTS
  Readers = {r1, r2}
  Writers = {w1, w2}
  Loops = {2}
  IntRange = 8
SPECIFICATION FairSpec
INVARIANTS Occupancy ExpectedValue
PROPERTIES ImplementsLock Termination
