SPECIFICATION FairSpec
CONSTANTS
  SchemaNames = {"choice"}
  Programs <- MCPrograms
  Direction <- MCDirection
  Int16Max = 32767
  UInt16Max = 65535
  U32 = 16
  U64 = 64
  Lengths = {0, 1, 2}
  Arms = {0, 1, 2, 15}
  MaxRuns = 1
  Reused = {}

PROPERTIES BeyondLastArmFails
CHECK_DEADLOCK FALSE
