CONSTANTS
  p1 = p1
  p2 = p2
  log1 = log1
  Absent = Absent
  Proc = {p1, p2}
  Content = {log1}
  Faulty = {p1}
  Size <- MCSize
  Work <- SameWork

SPECIFICATION Spec
INVARIANTS CrashLeavesNoTornBlob
