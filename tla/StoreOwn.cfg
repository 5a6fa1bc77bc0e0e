CONSTANTS
  p1 = p1
  p2 = p2
  p3 = p3
  log1 = log1
  log2 = log2
  empty = empty
  test = test
  build = build
  fileA = fileA
  fileB = fileB
  m1 = m1
  m2 = m2
  Absent = Absent
  NoJob = NoJob
  Proc = {p1, p2}
  Content = {log1, log2, empty}
  Path = {fileA}
  Faulty = {p1, p2}
  Misread = FALSE
  MaxRuns = 2
  MaxClock = 1
  Size <- MCSize
  Work <- OwnWork
  Captures <- OwnCaptures
  Shows <- OwnShows

SPECIFICATION StoreSpec
INVARIANTS StoreTypeOK VisibleWhole HandlesResolve SeenIsCurrent
PROPERTIES AtomicSpec RunLogSpec SnapshotsKept
CHECK_DEADLOCK FALSE
