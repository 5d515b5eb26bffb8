SPECIFICATION Spec
CONSTANTS
  MaxThreads = 3
  MaxUnderWay = 2
  MaxPrinted = 1
  Colors = 2
INVARIANTS TypeOK NothingLeftOver CallsFindTheRuntime OneRoundInTheTable
PROPERTIES  OnlyTheLastThreadWaits DebuggingStarts
