CONSTANTS
  p1 = p1
  p2 = p2
  r1 = r1
  r2 = r2
  Players <- MCPlayers
  Requests <- MCRequests
  NoRow = NoRow
  MinGames = 2
  MaxGames = 3
  MaxSeeds = 0
SPECIFICATION Spec
INVARIANT GameRegenerates
CHECK_DEADLOCK FALSE
