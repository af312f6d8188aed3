SPECIFICATION FairSpec
CONSTANTS
  Agent = {a1, a2}  User = {u1}  Session = {s1, s2}  BanAgent = {a1}
  MaxFault = 2
  None = None
INVARIANTS
  TypeOK
  NoDeadConnection
  BannedStaysOut
PROPERTIES
  NeverDroppedSilently
  OneInstance
CHECK_DEADLOCK FALSE
