SPECIFICATION Spec
CONSTANTS
  Programs <- SkippingPrograms
  StartIP = 0
  HolderIPs <- AssemblyIPs
  HolderAt <- AssemblyAt
  HolderAdvance <- AssemblyAdvance
  HolderCoords <- AssemblyCoords
  HolderCanSplit <- AssemblyCanSplit
  HolderSplit <- AssemblySplit
  HolderCanJoin <- AssemblyCanJoin
  HolderJoin <- AssemblyJoin
  MaxThreadCount = 6
  MaxRuns = 3
INVARIANT EldersFirst
CHECK_DEADLOCK FALSE
