CONSTANTS
  MaxToolRounds = 1
  MaxParallel = 1
  MaxChunks = 1
SPECIFICATION Spec
INVARIANT SummaryAlwaysLogged
CHECK_DEADLOCK FALSE
