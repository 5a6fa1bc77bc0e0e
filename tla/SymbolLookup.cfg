CONSTANTS
  Gone = Gone
  Names <- MCNames
  Short <- MCShort
  Place <- MCPlace
  Repos <- MCRepos
  Edits <- MCEdits
  Tiers <- MCTiers
  Locked = {"plain"}
  Wants = {0, 2, 3, 9}
  Reps = {0, 1, 2}
  MaxEdits = 1

SPECIFICATION Spec
INVARIANTS DefinitionsAreRight RgOnlyIsExplained ArmsTakeTurns SamplesAreEven NothingHalfReported
CHECK_DEADLOCK FALSE
