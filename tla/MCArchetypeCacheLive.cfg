CONSTANTS
  p1 = p1
  p2 = p2
  r1 = r1
  r2 = r2
  Players <- MCPlayers
  Requests <- MCRequests
  NoRow = NoRow
  MinGames = 1
  MaxGames = 1
  MaxSeeds = 1
SPECIFICATION FairSpec
PROPERTY EveryoneEnds
CHECK_DEADLOCK FALSE
