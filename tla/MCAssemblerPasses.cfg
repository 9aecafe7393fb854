SPECIFICATION Spec
CONSTANTS
  Sources <- MCSources
  Int16Max = 1
  UInt16Max = 65535
  MaxLen = 6
INVARIANTS JumpsLand AgreesWithAssemble
PROPERTIES Assembles
CHECK_DEADLOCK FALSE
