SPECIFICATION FairSpec
CONSTANTS
  Windows = {w1, w2}
  Requests = {q1}
  Pids = {i1, i2}
  Ports = {p1}
  MaxChanges = 1
  None = None
INVARIANT TypeOK
INVARIANT PublishedMeansServed
INVARIANT CallsReachTheirWindow
PROPERTY SweptOnStart
PROPERTY EverythingSettles
CHECK_DEADLOCK FALSE
