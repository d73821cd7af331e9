SPECIFICATION Spec
CONSTANTS
  Archives <- MCArchives
  BufSizes = {1, 3}
  MaxOpens = 3
  MaxFailures = 2
INVARIANTS
  TypeOK
  EndsWhole
PROPERTIES
  IndependentSources
CHECK_DEADLOCK FALSE
