SPECIFICATION Spec
CONSTANTS
  m1 = m1  m2 = m2  h1 = h1  h2 = h2
  Roid = {r1}  User = {u1, u2}  Home = {h1}  Monitor = {m1}  Fiber = {f1, f2}
  HomeOf <- OneMonitor
  Ops = {"create", "load", "unload", "flush"}
  SaveTimer = TRUE  Expiry = TRUE
  MaxVersion = 1  MaxFault = 0
  Nil = Nil
SYMMETRY FiberSymmetry
INVARIANTS
  TypeOK
  DeletedWasStored
  CreatedIsOwned
