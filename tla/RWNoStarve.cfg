\* Two readers and two writers, one round each or for ever; semaphores that
\* serve every waiter in the end.
CONSTANTS
  Readers = {r1, r2}
  Writers = {w1, w2}
  Loops <- OnceOrForever
  IntRange = 2
SPECIFICATION StrongFairSpec
INVARIANTS IInv
PROPERTIES ImplementsLock NoOvertaking Termination WriterProgress
