SPECIFICATION FairSpec
CONSTANTS
  m1 = m1  m2 = m2  h1 = h1  h2 = h2
  Roid = {r1, r2}  User = {u1}  Home = {h1}  Monitor = {m1}  Fiber = {f1}
  HomeOf <- OneMonitor
  Ops = {"create", "load"}
  SaveTimer = TRUE  Expiry = FALSE
  MaxVersion = 1  MaxFault = 1
  Nil = Nil
INVARIANTS
  FreshInRedis
PROPERTIES
  RowNeverGoesBack
  SavedEventually
