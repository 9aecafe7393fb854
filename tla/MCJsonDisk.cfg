SPECIFICATION JsonSpec
CONSTANTS
  SchemaNames = {"nested", "containers", "choice", "mixed", "text", "level"}
  Programs <- MCPrograms
  IRs <- MCIRs
  Jobs <- MCJobs
  Capacities = {17, 100}
  Numbers <- Small
  Chars = {97}
  Garbage = {0}
  Unfit = {"refused"}
  NewEncoder <- Encoder
  Tell <- DiskTell
  Cells <- DiskCells
  Cuts <- DiskCuts
  NewDecoder <- DiskDecoder
  Ask <- DiskAsk
  CodecErr <- DiskErr
  Meets <- Fits
  Layout <- Bytes
  Int16Max = 32767
  UInt16Max = 65535
  U32 = 512
  U64 = 1024
  Lengths = {}
  Arms = {}
  MaxRuns = 2
  Reused = {}
INVARIANTS WrittenIsPrefix PointersFollow TypeOK
PROPERTIES KeepsContract EveryRunEnds
CHECK_DEADLOCK FALSE
