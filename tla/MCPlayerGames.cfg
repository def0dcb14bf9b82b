CONSTANTS
  p1 = p1
  p2 = p2
  s1 = s1
  s2 = s2
  g1 = g1
  g2 = g2
  g3 = g3
  g4 = g4
  Players <- MCPlayers
  Seasons <- MCSeasons
  Games <- MCGames
  Date <- MCDate
  Limits = {1, 2}
  Current = Current
  NoLine = NoLine
  Points <- MCPoints
  Venue <- MCVenue
  Venues = {"H", "A"}
  DaysPerMonth = 2
  LastNs = {0, 2}
  Searches <- MCSearches
  All = All
  Foreign = Foreign
SPECIFICATION ToolsSpec
SYMMETRY MCSymmetry
INVARIANTS
  ChatTypeOK
  NobodyElses
  ListHonest
  ToolsAgree
  SearchHonest
  SplitsPartition
\* The player has what was asked for.
CHECK_DEADLOCK FALSE
