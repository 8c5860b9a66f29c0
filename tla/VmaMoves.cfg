SPECIFICATION Spec
CONSTANTS
  t1 = t1
  i1 = i1
  i2 = i2
  i3 = i3
  x = x
  y = y
  Task <- One
  Top = 4
  Wrap = 3
  Struct <- Structs
  Content <- Contents
  Empty = Empty
  NULL = NULL
SYMMETRY Symmetric
CHECK_DEADLOCK FALSE
INVARIANTS
  TypeOK
  AreasDisjoint
PROPERTIES
  NothingLost
  MovesWhole
  RefinesAddressSpace
