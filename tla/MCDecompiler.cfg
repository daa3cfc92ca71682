SPECIFICATION Spec
CONSTANTS
  Restart20 = 0
  AddressSpace = 6
  RomMin = 1
  RomMax = 4
  Images <- MCImages
  InitialPaths <- MCInitialPaths
  Unexplored <- MCUnexplored
INVARIANTS
  AllocationExact
  Sound
  NothingForgotten
  Complete
PROPERTY DecompileReturns
CHECK_DEADLOCK FALSE
