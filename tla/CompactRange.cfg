SPECIFICATION Spec
CONSTANTS
  MaxLength = 6
  MaxShared = 3
  HugeSize = 2
  Slack = 2
  Faults <- AllFaults
  Fresh = Fresh
  PfnZero = PfnZero
  None = None
INVARIANTS
  TypeOK
  Inv
  MovesFillHoles
  TablePermutes
  MovesContents
CHECK_DEADLOCK FALSE
