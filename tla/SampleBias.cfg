CONSTANTS
  Gone = Gone
  Names <- MCNames
  Short <- MCShort
  Place <- MCPlace
  Repos <- MCRepos
  Edits <- MCEdits
  Tiers <- MCTiers
  Locked = {"plain"}
  Wants = {9}
  Reps = {1}
  MaxEdits = 0

SPECIFICATION Spec
INVARIANT DefinitionsAreSampled
CHECK_DEADLOCK FALSE
