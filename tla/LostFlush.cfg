SPECIFICATION Spec
CONSTANTS
  MaxHops = 3
  Pool <- DirRecords
  MaxRecords = 1
  Archives <- MCArchives
  Tasks <- CliTask
  Disks <- EmptyDisk
  IoErrors = FALSE
  LostFlush = TRUE
INVARIANT ExtractedWhole
CHECK_DEADLOCK FALSE
