SPECIFICATION FairSpec
CONSTANTS
  m1 = m1  m2 = m2  h1 = h1  h2 = h2
  Roid = {r1}  User = {u1}  Home = {h1, h2}  Monitor = {m1, m2}  Fiber = {f1}
  HomeOf <- TwoMonitors
  Ops = {"create", "load", "unload", "flush"}
  SaveTimer = FALSE  Expiry = FALSE
  MaxVersion = 2  MaxFault = 1
  Nil = Nil
INVARIANTS
  Recoverable
  DeletedWasStored
PROPERTIES
  Replied
