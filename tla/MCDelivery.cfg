\* Safety: two subscriptions of one connection.
CONSTANTS
  v1 = v1
  s1 = s1
  k1 = k1
  Version = {v1}
  Copy = {c1, c2, c3}
  Sub = {s1, s2}
  Conn = {k1}
  Parent <- MCParent
  Status <- MCStatus
  Label <- MCLabel
  Filter <- MCFilter
  ConnOf <- OneConn
  PoolSize = 1
  Breakable = {k1}
  Rejecting = {k1}
  Stoppable = TRUE
  None = None
SPECIFICATION Spec
SYMMETRY CopySymmetry
CHECK_DEADLOCK FALSE
INVARIANTS
  IInv
  NotLost
  TwoAtMost
  TokensConserved
  SentInProgress
