SPECIFICATION MBCSpec
CONSTANTS
  LowerValues <- MCByte
  UpperValues <- MCByte
  ModeValues <- MCByte
  EnableValues <- MCByte
  RamValues <- MCRamValues
INVARIANTS
  IndexIsRank
PROPERTY ImplementsBankSelect
