SPECIFICATION Spec
CONSTANTS
  None = None
  Games = {g1}
  Lines <- MCLines
  Facts = {win}
  First = 3
  MaxPushes = 2
INVARIANT RollbackRestores
\* The system may stop: nobody has to push.
CHECK_DEADLOCK FALSE
