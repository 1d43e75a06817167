SPECIFICATION HistorySpec
CONSTANTS
  clean = clean  risky = risky  NULL = NULL
  Artifacts = {clean, risky}
  VerdictFor <- MCVerdictFor
  MicrosPerSecond = 2
  Limits = {0, 1, 2, 3}
  MaxNow = 3
  MaxSetbacks = 1
  MaxReceipts = 3
INVARIANTS NewestFirst ListedStaysTrue
