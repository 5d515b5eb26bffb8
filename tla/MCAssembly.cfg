SPECIFICATION Spec
CONSTANTS
  Programs <- AssemblyPrograms
  StartIP = 0
  HolderIPs <- AssemblyIPs
  HolderAt <- AssemblyAt
  HolderAdvance <- AssemblyAdvance
  HolderCoords <- AssemblyCoords
  HolderCanSplit <- AssemblyCanSplit
  HolderSplit <- AssemblySplit
  HolderCanJoin <- AssemblyCanJoin
  HolderJoin <- AssemblyJoin
  MaxThreadCount = 6
  MaxRuns = 1
INVARIANTS TypeOK SideListsFit NoMissedMeeting
PROPERTIES RestsEnd MeetingsHappen
CHECK_DEADLOCK FALSE
