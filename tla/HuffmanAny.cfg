SPECIFICATION FairSpec
CONSTANTS
  ByteBits = 2
  Streams <- AnyStreams
  BufSizes = {1, 2}
  MaxFailures = 1
  OverflowChecks = FALSE
  Trees = {}
  MaxRun = 10
  MaxLen = 0
  MaxBytes = 6
INVARIANTS
  TypeOK
  LevelInTable
  KeptFromOneByte
  CountAddsUp
PROPERTY ReadingEnds
CHECK_DEADLOCK FALSE
