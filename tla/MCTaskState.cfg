\* A task, two handlers at once, a connection that may end.
CONSTANTS
  Task = {t1}
  Version = {v1, v2, v3}
  Handler = {h1, h2}
  MaxId = 3
  None = None
SPECIFICATION FairSpec
CHECK_DEADLOCK FALSE
INVARIANTS
  Registered
  ToldRight
PROPERTIES
  ImplementsStateIds
  CancelTold
  Forgotten
  StatusFollowed
