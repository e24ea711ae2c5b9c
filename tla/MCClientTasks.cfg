\* Two connections, two ids on each.
CONSTANTS
  Task = {t1, t2}
  Object = {o1, o2, o3}
  MaxId = 2
  MaxInfo = 1
  MaxEpoch = 2
  MaxInbox = 2
  Cancel = Cancel
  None = None
SPECIFICATION Spec
SYMMETRY Symmetry
CHECK_DEADLOCK FALSE
INVARIANTS
  IInv
  Reachable
  FirstConnection
  CancelArrives
