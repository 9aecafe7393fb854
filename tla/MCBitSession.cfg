SPECIFICATION Spec
CONSTANTS
  ByteBits = 3
  WordBits = 9
  Items <- MCItems
  Buffers <- MCBuffers
  BufferSizes = {2, 6}
  Widths = {1, 5, 9, 10}
  Lengths = {0, 1, 3, 4}
  Codes = {3, 4, 15, 16, 63, 64, 511}
  MaxItems = 3
INVARIANTS WriterHolds SizeTells ReadsBack FailsAtTheCut
CHECK_DEADLOCK FALSE
