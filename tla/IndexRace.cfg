CONSTANTS
  p1 = p1
  p2 = p2
  fileA = fileA
  fileB = fileB
  full = full
  bare = bare
  main = main
  helper = helper
  Gone = Gone
  Proc = {p1, p2}
  Content = {full, bare}
  Faults = TRUE
  MaxEdits = 2
  Files <- MCFiles
  Defs <- MCDefs
  Lists <- MCLists

SPECIFICATION Spec
INVARIANTS IndexTypeOK RowsAgree
PROPERTIES PassFreshens
SYMMETRY MCProcs
