SPECIFICATION Spec
CONSTANTS
  Files <- MCFiles
INVARIANTS
  TypeOK
  AcceptsSoundHeaders
  WholeHeaderSummed
CHECK_DEADLOCK FALSE
