\* Two calls, two connections, a task on each.
CONSTANTS
  Sub = {s1, s2}
  MaxConn = 2
  MaxId = 2
  MaxOffer = 1
  None = None
SPECIFICATION FairSpec
CHECK_DEADLOCK FALSE
INVARIANTS
  OwnIds
  NothingLeft
PROPERTY CallsEnd
