SPECIFICATION Spec
CONSTANTS
  n1 = n1
  n2 = n2
  n3 = n3
  NoId = NoId
  Nodes <- MCNodes
  BufferSize = 1
  Wirings <- MCWirings
  Careful <- MCCareful
INVARIANTS
  NothingGone
  LinesHaveId
PROPERTY
  TeardownEnds
CHECK_DEADLOCK FALSE
