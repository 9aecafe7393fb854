SPECIFICATION CppSpec
CONSTANTS
  SchemaNames = {"nested", "containers", "choice", "mixed", "text", "level", "widths"}
  Programs <- MCPrograms
  IRs <- MCIRs
  Jobs <- MCJobs
  Capacities = {17, 100}
  Fresh = 3
  Garbage = {0}
  Int16Max = 32767
  UInt16Max = 65535
  U32 = 512
  U64 = 1024
  Lengths = {}
  Arms = {}
  MaxRuns = 2
  Reused = {}
INVARIANTS FramesPointTo RoundTrips
PROPERTIES KeepsContract
CHECK_DEADLOCK FALSE
