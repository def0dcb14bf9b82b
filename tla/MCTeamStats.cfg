CONSTANTS
  p1 = p1
  p2 = p2
  p3 = p3
  Players <- MCPlayers
  BoxScores <- MCBoxScores
  MaxLines = 4
  MaxTeam = 10
SPECIFICATION Spec
SYMMETRY MCSymmetry
INVARIANTS
  TypeOK
  StandingsFair
  PctBetweenGames
  ArchetypeJust
PROPERTIES
  BestsStand
\* A season ends.
CHECK_DEADLOCK FALSE
