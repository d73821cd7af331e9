SPECIFICATION Spec
CONSTANTS
  ByteBits = 8
  Streams <- EncodedStreams
  BufSizes = {1, 3, 64}
  MaxFailures = 0
  OverflowChecks = TRUE
  Trees <- BigAndSmall
  MaxRun = 10
  MaxLen = 3
  MaxBytes = 0
PROPERTY
  DeliversContent
CHECK_DEADLOCK FALSE
