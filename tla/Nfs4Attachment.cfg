SPECIFICATION Spec
CONSTANTS
  Shapes <- AllShapes
  MaxRecords = 4
  Archives <- MCArchives
  IoErrors = TRUE
INVARIANTS
  TypeOK
  PairsLikeBrackets
  NoneWaitsInVain
  EachItsOwn
CHECK_DEADLOCK FALSE
