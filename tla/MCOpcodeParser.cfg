SPECIFICATION Spec
CONSTANTS
  AddressSpace = 10
  Restart20 = 0
  RomLast = 4
  HighRamFirst = 7
  HighRamLast = 8
  Boot <- MCBoot
  Cartridges <- MCCartridges
  HighRamImages <- MCHighRamImages
  Unformatted <- MCUnformatted
  Formatted <- MCFormatted
  Vectors <- MCVectors
  HLValues <- MCHLValues
  InitialStacks <- MCInitialStacks
  MaxStack = 2
INVARIANTS
  DecompilerExists
  ModeTracksPc
  DeathExplained
  CacheCoherent
CHECK_DEADLOCK FALSE
