CONSTANTS
  MaxToolRounds = 2
  MaxParallel = 2
  MaxChunks = 2
SPECIFICATION FairSpec
INVARIANTS
  TypeOK
  ConvoWellFormed
  FreshTransaction
  Answered
  TraceHonest
  TransactionReleased
PROPERTIES
  StreamContract
  TurnEnds
\* A turn stops once its session is closed.
CHECK_DEADLOCK FALSE
