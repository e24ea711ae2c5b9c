\* Two starts, a connection, one who waits for a status.  Nothing is claimed of
\* what follows the first haste of a caller, and it is not explored.
CONSTANTS
  Conn = {c1}
  Waiter = {w1}
  WaitedFor = {"started", "stopped"}
  MaxStarts = 2
SPECIFICATION FairSpec
CONSTRAINT CallersWait
CHECK_DEADLOCK FALSE
INVARIANT StatusTells
PROPERTIES
  CallsReturn
  EndTold
