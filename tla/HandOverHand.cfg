\* Three threads, one operation each, from every list over two keys.
CONSTANTS
  Threads = {t1, t2, t3}
  Ops = 1
  KeySpace = 2
  INT_MAX = 9
  MaxNodes = 5
SPECIFICATION FairSpec
INVARIANT IInv
PROPERTIES ImplementsSet Termination
