SPECIFICATION Spec
CONSTANTS
  Programs <- GridPrograms
  StartIP <- GridStart
  HolderIPs <- GridIPs
  HolderAt <- GridAt
  HolderAdvance <- GridAdvance
  HolderCoords <- GridCoords
  HolderCanSplit <- GridCanSplit
  HolderSplit <- GridSplit
  HolderCanJoin <- GridCanJoin
  HolderJoin <- GridJoin
  MaxThreadCount = 6
  MaxRuns = 1
INVARIANT NothingUnreachable
PROPERTIES StuckForever RunsThePool
CHECK_DEADLOCK FALSE
