SPECIFICATION FairSpec
CONSTANTS
  h1 = h1  h2 = h2
  q1 = q1  q2 = q2  q3 = q3  q4 = q4  q5 = q5
  Host = {h1, h2}  Request = {q1, q2, q3, q4, q5}  Uri <- MCUri
  Session = {s1, s2}
  Closed = Closed  None = None
INVARIANTS
  TypeOK
  OwnResponse
  ZeroMeansClosed
PROPERTIES
  EveryRequestEnds
CHECK_DEADLOCK FALSE
