SPECIFICATION DSpec
CONSTANT Sources <- AllBoards
INVARIANTS EveryFragmentOnce LocationsFit DisassemblyAssembles ListingFollowsGrid JumpsLeadToWork
PROPERTY ScanEnds
CHECK_DEADLOCK FALSE
