SPECIFICATION Spec
CONSTANTS
  k1 = k1
  k2 = k2
  c1 = c1
  c2 = c2
  NoTask = NoTask
  Task <- Two
  Cpu <- TwoCpus
  Regions = 3
  Page <- Pages
  RegionOf <- RegionOfPages
  VmaOf <- HeapAndStack
  Stack = "stack"
SYMMETRY Symmetric
CONSTRAINT SmallProcess
INVARIANTS
  TypeOK
  Inv
  ReadsLatest
  Settled
PROPERTIES
  PromotesAllocated
