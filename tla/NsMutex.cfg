\* Three workers, two iterations each or for ever; every interleaving.
CONSTANTS
  Workers = {w1, w2, w3}
  Loops <- TwiceOrForever
  IntRange = 4
SPECIFICATION FairSpec
INVARIANTS IInv MutualExclusion ExpectedTotal
PROPERTIES NoBarging Termination NoStarvationIfServed
