SPECIFICATION Spec
CONSTANTS
  t1 = t1
  t2 = t2
  t3 = t3
  n1 = n1
  n2 = n2
  n3 = n3
  BUCKETS = 2
  Command = {0, 7}
  Input = {0, 7, 8}
  Length = {16, 17}
  NoTask = NoTask
  None = None
  Task <- Pair
  TgidOf <- TgidOfPair
  Node <- TwoNodes
INVARIANTS
  ReadsIntact
