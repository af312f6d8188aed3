SPECIFICATION FairSpec
CONSTANTS
  u1 = u1
  Roid = {r1}  User = {u1}  Agent = {a1}  Fiber = {f1}  Timer = timer
  Obj = {o1, o2, o3}
  UserOf <- SameOwner
  Ops = {"login", "logout", "reconnect", "disconnect"}
  MaxVersion = 1  MaxFault = 1
  None = None
PROPERTIES
  SavedEventually
  AwayIsLoggedOut
