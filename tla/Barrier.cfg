\* Four children, to the end of the program.
CONSTANT Children = {c1, c2, c3, c4}
SPECIFICATION FairSpec
INVARIANTS BarrierInv BeforeAfter Restored
PROPERTIES Termination
