SPECIFICATION FairSpec
CONSTANTS
  None = None
  Games = {g1}
  Lines <- MCLines
  Facts = {win}
  First = 3
  MaxPushes = 2
INVARIANTS
  TypeOK
  SuccessServes
  RolledBackTogether
  ServesOneBehind
PROPERTY RunsEnd
\* The system may stop: nobody has to push.
CHECK_DEADLOCK FALSE
