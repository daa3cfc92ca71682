SPECIFICATION Spec
CONSTANTS
  Restart20 = 8
  AddressSpace = 64
  Bits <- MCBits
  Interrupts = 3
  High <- MCHigh
  Low <- MCLow
  Word <- MCWord
  Vector <- MCVector
  RomLast = 15
  Ram <- MCRam
  IFAddress = 40
  IEAddress = 63
  HighRamFirst = 48
  RomByte <- MCRomByte
  Programs <- MCPrograms
  HLValues <- MCHLValues
  StoreValues <- MCStoreValues
INVARIANTS
  TypeOK
  NoRequestLost
  HighestPriorityFirst
  FramesIntact
PROPERTIES
  HaltWakes
CHECK_DEADLOCK FALSE
