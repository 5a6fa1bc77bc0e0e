CONSTANTS
  p1 = p1
  p2 = p2
  p3 = p3
  log1 = log1
  log2 = log2
  empty = empty
  test = test
  build = build
  fileA = fileA
  fileB = fileB
  m1 = m1
  m2 = m2
  Absent = Absent
  NoJob = NoJob
  Proc = {p1, p2, p3}
  Content = {log1, log2, empty}
  Path = {fileA, fileB}
  Faulty = {}
  Misread = TRUE
  MaxRuns = 2
  MaxClock = 0
  Size <- TwoBlocks
  Work <- SharedWork
  Captures <- SharedCaptures
  Shows <- SharedShows

SPECIFICATION FairStoreSpec
INVARIANTS TypeOK MissingIsPending OkIsNamed SeqBelowCount NoRowPrecedesItsFile
PROPERTIES Heals CallReturns
CHECK_DEADLOCK FALSE
