CONSTANTS
  p1 = p1
  p2 = p2
  p3 = p3
  Proc = {p1, p2, p3}
  Unset = Unset
  Faults = TRUE
  Version <- MixedVersion
  Tables <- MCTables

SPECIFICATION Spec
INVARIANTS OnlyUnderstood RefusedForCause
PROPERTIES VersionFixed
