CONSTANTS
  Durations = {0, 1, 2, 3}
  Noise = 50
  Cli <- MCCli

SPECIFICATION SuiteSpec
INVARIANTS AnswersItsOwn DriftIsShared
PROPERTIES WritesAreNew
VIEW Recent
CHECK_DEADLOCK FALSE
