SPECIFICATION Spec
CONSTANTS
  l = l
  a = a
  b = b
  Thread <- Three
  Leader = l
  Word = 8
  Area <- Areas
  StartStack = 5
  StackPtr = {0, 1, 2, 5}
  max_fds = 3
  NULL = NULL
SYMMETRY Workers
CHECK_DEADLOCK FALSE
INVARIANTS
  TypeOK
  FilesCountedTogether
  NamesLargest
