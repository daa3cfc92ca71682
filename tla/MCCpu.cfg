SPECIFICATION Spec
CONSTANTS
  Programs <- MCPrograms
  Registers <- MCRegisters
  Flags <- MCFlags
  Stacks = {0, 49153}
  Memories <- MCMemories
  Ram <- MCRam
INVARIANTS
  TypeOK
  Executable
  WideArithmetic
  StackMovesPairs
PROPERTIES
  ArithmeticExact
  BitsConserved
CHECK_DEADLOCK FALSE
