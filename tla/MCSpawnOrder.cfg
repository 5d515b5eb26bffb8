SPECIFICATION DSpec
CONSTANT Sources <- PlainBoards
INVARIANT BornInOrder
CHECK_DEADLOCK FALSE
