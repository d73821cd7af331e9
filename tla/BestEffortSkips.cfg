SPECIFICATION Spec
CONSTANTS
  Word = 4096
  Images <- MCImages
  Modes = {"best_effort"}
  ShortReads = FALSE
  IoErrors = FALSE
  OverflowMay = {"wrap"}
  ForeignHeaders <- OnlyJunk
  ForeignAclLens <- MCForeignAclLens
  Parts <- FewParts
  MaxParts = 3
  Cuts = {0}
INVARIANT SkipsOnlyMalformed
CHECK_DEADLOCK FALSE
