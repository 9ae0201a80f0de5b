\* Up to five elements in both programs, with every allocation that may fail.
CONSTANTS
  Sizes = {1, 3, 5}
  Lookups = 1
  Blocks = {b1, b2, b3, b4, b5, b6}
  NULL = null
  ElemSize <- ElemSizes
  MaxAlloc = 16
  SizeRange = 64
SPECIFICATION Spec
SYMMETRY AnyBlock
INVARIANT IInv
PROPERTY ImplementsSequences
