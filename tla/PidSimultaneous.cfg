SPECIFICATION Spec
CONSTANTS
  p1 = p1
  p2 = p2
  BUCKETS = 2
  None = None
  Task <- Two
  PidOf <- PidOfTwo
  Command = {0, 4}
  Input = {0, 4, 5}
  Length = {16, 17}
  MaxNode = 4
INVARIANTS
  SetThenRead
