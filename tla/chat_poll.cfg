SPECIFICATION FairSpec
CONSTANTS
  k1 = k1
  Key = {k1}  List <- OneThread
  Fiber = {f1}  Poller = poller  Timer = timer
  Max = 2  Slack = 0  Ttl = 1
  MaxMessage = 4  MaxTime = 3  MaxFault = 1
  Ms <- TwoTicks
  None = None
INVARIANTS
  TypeOK
  MissesOnlyOvertaken
PROPERTIES
  SavedEventually
