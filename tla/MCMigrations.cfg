SPECIFICATION Spec
CONSTANTS
  None = None
  g1 = g1
  g2 = g2
  p1 = p1
  p2 = p2
  Games <- MCGames
  Lines <- MCLines
  Facts = {win, loss}
INVARIANTS
  TypeOK
  NothingLost
  OwnLinesShown
  ShapesFit
