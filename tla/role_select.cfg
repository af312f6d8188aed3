SPECIFICATION FairSpec
CONSTANTS
  MaxRoid = 2  Logic = {l1}  MaxSession = 2
  MaxRoles = 2  Reliable = FALSE
  None = None
INVARIANTS
  TypeOK
  OneAtATime
PROPERTIES
  AbandonedIsAway
CHECK_DEADLOCK FALSE
