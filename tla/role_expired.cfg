SPECIFICATION Spec
CONSTANTS
  MaxRoid = 2  Logic = {l1}  MaxSession = 2
  MaxRoles = 2  Reliable = TRUE
  None = None
PROPERTIES
  StillPlayed
CHECK_DEADLOCK FALSE
