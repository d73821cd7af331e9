SPECIFICATION Spec
CONSTANTS
  ByteBits = 8
  Streams <- EncodedStreams
  BufSizes = {1, 3}
  MaxFailures = 0
  OverflowChecks = FALSE
  Trees <- OnlySingle
  MaxRun = 10
  MaxLen = 0
  MaxBytes = 0
INVARIANT NeverOverfilled
CHECK_DEADLOCK FALSE
