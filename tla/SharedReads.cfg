SPECIFICATION Spec
CONSTANTS
  p1 = p1
  p2 = p2
  p3 = p3
  Task <- Three
  Input = {4, 5}
  Length = {16, 17}
  None = None
SYMMETRY Processes
INVARIANTS
  TypeOK
  FreshAnswers
  UndisturbedReads
PROPERTIES
  RefinesOneStore
