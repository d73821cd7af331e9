SPECIFICATION Spec
CONSTANTS
  AixcEntries <- MCAixcEntries
  Nfs4Entries <- MCNfs4Entries
  AceLens = {0, 12, 20}
  MaxAces = 2
  MaxExtra = 12
  WrongCounts = {0, 1, 4, 9}
  Garbage <- MCGarbage
INVARIANTS
  TypeOK
  KindRecognised
  BoundedByPayload
  DecodesWritten
  AllDecoded
CHECK_DEADLOCK FALSE
