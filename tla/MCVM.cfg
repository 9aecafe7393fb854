SPECIFICATION FairSpec
CONSTANTS
  SchemaNames = {"nested", "containers", "choice", "mixed", "text", "level"}
  Programs <- MCPrograms
  Direction <- MCDirection
  Int16Max = 32767
  UInt16Max = 65535
  U32 = 16
  U64 = 64
  Lengths = {0, 1, 2}
  Arms = {0, 1, 2, 15}
  MaxRuns = 2
  Reused <- MCReused
INVARIANTS GeneratedNested TypeOK FramesMatch EndsInOrder EndsClean ElementInRange ProgramsRun
PROPERTIES RunEnds
CHECK_DEADLOCK FALSE
