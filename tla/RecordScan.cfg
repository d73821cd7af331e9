SPECIFICATION FairSpec
CONSTANTS
  Word = 4096
  Images <- MCImages
  Modes = {"strict", "best_effort"}
  ShortReads = FALSE
  IoErrors = TRUE
  OverflowMay = {"panic", "wrap"}
  ForeignHeaders <- MCForeignHeaders
  ForeignAclLens <- MCForeignAclLens
  Parts <- AllParts
  MaxParts = 2
  Cuts = {0, 1, 9, 50, 130}
INVARIANTS
  TypeOK
  AgreesWithArchive
  StrictStopsAtDamage
  NoneLost
  OnlyLastTruncated
  NoByteUsedTwice
PROPERTIES
  StrictListing
  Terminates
CHECK_DEADLOCK FALSE
