CONSTANTS
  Chars <- MCChars
  Tokenizers = {"o200k_base", "cl100k_base"}
  Begins <- MCBegins
  Texts <- MCTexts
  Cores = {1, 2, 4}
  PARALLEL_THRESHOLD = 4
  MIN_CHUNK = 2
  MAX_WORKERS = 3

SPECIFICATION FairSpec
CHECK_DEADLOCK FALSE
INVARIANTS CountTypeOK CountIsExact CutsAreSafe ThreadsAreBounded CutKeepsPieces
PROPERTIES CountEnds
