\* Two threads, two operations each, in all three programs.
CONSTANTS
  Threads = {t1, t2}
  Ops = 2
  KeySpace = 3
  nbk = 2
SPECIFICATION FairSpec
INVARIANTS IInv
PROPERTIES ImplementsSet Termination
