CONSTANTS
  MaxWrites = 2
  PipeSize = 1
  NewId <- MCNew
  OldId <- MCOld
  OldText <- MCOldText
  Bytes <- MCBytes
  Query <- MCQuery
  Typed <- MCTyped
  MaxLimit = 3

SPECIFICATION SessionSpec
INVARIANTS SessionTypeOK StoredIsWhole NothingIsDropped TheRunNamedAnswers
PROPERTIES PipesDrain RunEnds
CHECK_DEADLOCK FALSE
