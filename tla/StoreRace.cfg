CONSTANTS
  p1 = p1
  p2 = p2
  p3 = p3
  log1 = log1
  log2 = log2
  empty = empty
  test = test
  build = build
  fileA = fileA
  fileB = fileB
  m1 = m1
  m2 = m2
  Absent = Absent
  NoJob = NoJob
  Proc = {p1, p2}
  Content = {log1, log2, empty}
  Path = {fileA, fileB}
  Faulty = {}
  Misread = FALSE
  MaxRuns = 2
  MaxClock = 0
  Size <- MCSize
  Work <- RaceWork
  Captures <- RaceCaptures
  Shows <- NoShows

SPECIFICATION StoreSpec
INVARIANTS RepeatRunsDistinct
