SPECIFICATION FairSpec
CONSTANTS
  t1 = t1
  t2 = t2
  Task <- Two
  MaxLoad = 2
  MaxThread = 2
CHECK_DEADLOCK FALSE
INVARIANTS
  TypeOK
  LiveFilesSafe
  NothingLeft
  OnlyOverwrittenLeft
PROPERTIES
  UnloadEnds
