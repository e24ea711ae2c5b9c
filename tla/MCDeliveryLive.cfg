\* Liveness with failures, rejections and a stop: one subscription.
CONSTANTS
  v1 = v1
  s1 = s1
  k1 = k1
  Version = {v1}
  Copy = {c1, c2}
  Sub = {s1}
  Conn = {k1}
  Parent <- MCParent
  Status <- MCStatus
  Label <- MCLabel
  Filter <- MCFilter
  ConnOf <- OneConn
  PoolSize = 1
  Breakable = {k1}
  Rejecting = {k1}
  Stoppable = TRUE
  None = None
SPECIFICATION FairSpec
CHECK_DEADLOCK FALSE
PROPERTIES
  Delivered
  TheToldEnd
  StopDrains
