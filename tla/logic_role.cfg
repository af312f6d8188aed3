SPECIFICATION Spec
CONSTANTS
  u1 = u1
  Roid = {r1}  User = {u1}  Agent = {a1}  Fiber = {f1, f2}  Timer = timer
  Obj = {o1, o2, o3, o4}
  UserOf <- SameOwner
  Ops = {"login", "logout", "disconnect"}
  MaxVersion = 0  MaxFault = 0
  None = None
SYMMETRY FiberSymmetry
INVARIANTS
  TypeOK
PROPERTIES
  LoginKeepsOnline
  DecidesOnAway
