SPECIFICATION FairSpec
CONSTANTS
  self = self  r1 = r1  c1 = c1  c2 = c2
  Receivers <- MCReceivers
  Self = self  Remote = {r1}
  Call = {c1, c2}  Scanner = {k1}
  MaxSession = 2  MaxLapse = 1
INVARIANTS
  TypeOK
  PendingIsConnected
PROPERTIES
  LostIsFinal
  KeepsPromise
  EveryCallEnds
