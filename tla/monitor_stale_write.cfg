SPECIFICATION Spec
CONSTANTS
  m1 = m1  m2 = m2  h1 = h1  h2 = h2
  Roid = {r1}  User = {u1}  Home = {h1}  Monitor = {m1}  Fiber = {f1}
  HomeOf <- OneMonitor
  Ops = {"create", "unload"}
  SaveTimer = TRUE  Expiry = FALSE
  MaxVersion = 2  MaxFault = 0
  Nil = Nil
INVARIANTS
  Recoverable
