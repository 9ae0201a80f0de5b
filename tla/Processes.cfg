\* All the programs, with any of their processes killed at any time.
CONSTANTS
  Warmup = 1
  Iters = {0, 1, 3}
  MaxKills = 3
SPECIFICATION FairSpec
INVARIANTS IInv Printed
PROPERTY Termination
