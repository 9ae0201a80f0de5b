\* Three threads, three increments each, thresholds below and above that.
CONSTANTS
  NumThreads = 3
  Iters = 3
  Thresholds = {1, 2, 4}
SPECIFICATION FairSpec
INVARIANTS IInv Conservation Approximation FinalTotal
PROPERTIES Termination
