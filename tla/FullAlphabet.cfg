SPECIFICATION FairSpec
CONSTANTS
  ByteBits = 8
  Streams <- EncodedStreams
  BufSizes = {3, 64}
  MaxFailures = 0
  OverflowChecks = FALSE
  Trees <- OverflowingTrees
  MaxRun = 10
  MaxLen = 3
  MaxBytes = 0
PROPERTY DeliversContent
CHECK_DEADLOCK FALSE
