SPECIFICATION FairSpec
CONSTANTS
  MaxHops = 3
  Pool <- FullPool
  MaxRecords = 2
  Archives <- MCArchives
  Tasks <- AllTasks
  Disks <- AllDisks
  IoErrors = TRUE
  LostFlush = FALSE
INVARIANTS
  TypeOK
  KeptUntilSuperseded
  OthersUntouched
PROPERTIES
  ReportedIsOnDisk
  Accounted
  Terminates
CHECK_DEADLOCK FALSE
