CONSTANTS
  p1 = p1
  p2 = p2
  r1 = r1
  r2 = r2
  Players <- MCPlayers
  Requests <- MCRequests
  NoRow = NoRow
  MinGames = 2
  MaxGames = 2
  MaxSeeds = 1
SPECIFICATION Spec
SYMMETRY MCSymmetry
INVARIANTS
  TypeOK
  AnswersAgree
  BasisSound
  NoOrphans
  ConflictHasWinner
\* The system may rest: every request answered, every game logged.
CHECK_DEADLOCK FALSE
