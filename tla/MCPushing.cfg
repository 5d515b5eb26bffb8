SPECIFICATION DSpec
CONSTANT Sources <- PushingBoards
INVARIANT DisassemblyAssembles
CHECK_DEADLOCK FALSE
