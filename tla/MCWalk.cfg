SPECIFICATION Spec
CONSTANTS
  Sources <- Boards
  MaxCells = 4
INVARIANTS TypeOK StepsByTheRule StepsRetrace HeadingsFollowTheTables
PROPERTIES MirrorsLeadHome ToursTheBoard
