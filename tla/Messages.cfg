SPECIFICATION Spec
CONSTANTS
  Null = Null
  Radix = 2
  Paths <- MCPaths
  Heaps <- MCHeaps
  MaxCalls = 3
  MaxCopied = 30
INVARIANTS
  TypeOK
  OnlyClientsShare
  CopyIsDeep
PROPERTIES
  SetThenMatch
  LosesNothing
  EraseRemoves
  CopyIsEqual
CHECK_DEADLOCK FALSE
