SPECIFICATION TimerSpec
CONSTANTS
  TickCounts <- MCTickCounts
  Top = 2
  MaxInt = 1151
  Values <- MCValues
INVARIANTS
  Punctual
PROPERTY RequestsRecur
CHECK_DEADLOCK FALSE
