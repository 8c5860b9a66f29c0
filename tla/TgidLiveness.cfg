SPECIFICATION FairSpec
CONSTANTS
  t1 = t1
  t2 = t2
  t3 = t3
  n1 = n1
  n2 = n2
  n3 = n3
  BUCKETS = 2
  Command = {0}
  Input = {0, 8}
  Length = {16, 17}
  NoTask = NoTask
  None = None
  Task <- Processes
  TgidOf <- TgidOfProcesses
  Node <- ThreeNodes
PROPERTIES
  CallsReturn
