CONSTANTS
  Floor = floor
  Names = {a, b}
  Files <- MCFiles
  Ticks <- MCTicks
  BootFloors <- MCBootFloors
  Epochs <- MCEpochs
  ScrubNames = {a, b, floor}
  MaxCalls = 3
  MaxTampers = 1
SYMMETRY MCSymmetry
VIEW MCView
SPECIFICATION Spec
INVARIANTS NoRollback NeverHalfWritten ReturnedSurvives
CHECK_DEADLOCK FALSE
