SPECIFICATION JsonSpec
CONSTANTS
  SchemaNames = {"nested", "containers", "choice", "level", "sizes", "widths", "text", "mixed"}
  SpoiledNames = {"nested", "containers", "choice", "level"}
  Programs <- MCPrograms
  IRs <- MCIRs
  Jobs <- MCJobs
  Capacities = {16, 400}
  Numbers <- Extreme
  Chars = {97, 200}
  Garbage = {0}
  ByteBits = 8
  WordBits = 64
  Unfit = {"refused", "overflowed"}
  NewEncoder <- NetEncoder
  Tell <- NetTell
  Cells <- NetCells
  Cuts <- NetCuts
  NewDecoder <- NetDecoder
  Ask <- NetAsk
  CodecErr <- NetErr
  Meets <- Fits
  Layout <- Bits
  Int16Max = 32767
  UInt16Max = 65535
  U32 = 512
  U64 = 1024
  Lengths = {}
  Arms = {}
  MaxRuns = 2
  Reused = {}
INVARIANTS FittingComeBack
PROPERTIES KeepsContract
CHECK_DEADLOCK FALSE
