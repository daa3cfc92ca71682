SPECIFICATION Spec
CONSTANTS
  kSmallPeriod = 8
  kLargePeriod = 56
  kVBlankLowerBound = 40
  kOAMLockedUpperBound = 2
  kVRAMOAMLockedUpperBound = 4
  LastLine = 6
  CycleCounts <- MCCycleCounts
  StatusWrites <- MCStatusWrites
  CompareWrites <- MCCompareWrites
INVARIANTS
  OneVBlankPerFrame
  LinesPerFrame
PROPERTIES
  DrawsApart
  DrawsRecur
