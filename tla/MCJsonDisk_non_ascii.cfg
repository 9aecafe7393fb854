SPECIFICATION JsonSpec
CONSTANTS
  SchemaNames = {"text"}
  Programs <- MCPrograms
  IRs <- MCIRs
  Jobs <- FittingJobs
  Capacities = {100}
  Numbers <- Small
  Chars = {200}
  Garbage = {0}
  Unfit = {"refused"}
  NewEncoder <- Encoder
  Tell <- DiskTell
  Cells <- DiskCells
  Cuts <- DiskCuts
  NewDecoder <- DiskDecoder
  Ask <- DiskAsk
  CodecErr <- DiskErr
  Meets <- Fits
  Layout <- Bytes
  Int16Max = 32767
  UInt16Max = 65535
  U32 = 512
  U64 = 1024
  Lengths = {}
  Arms = {}
  MaxRuns = 2
  Reused = {}
INVARIANTS WholeWireDecodes
CHECK_DEADLOCK FALSE
