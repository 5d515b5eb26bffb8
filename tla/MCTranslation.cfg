SPECIFICATION Spec
CONSTANTS
  Bits = 3
  HostBits = 5
  Values <- SomeValues
  Char0 = 2
  MaxDepth = 3
  MaxSplit = 2
  InitialCapacity = 2
  MaxCapacity = 5
  MAX_CHAR = 1
INVARIANTS CompiledAgrees CompiledIsDefined InsideTheBlock UndefinedIsWarned
CHECK_DEADLOCK FALSE
