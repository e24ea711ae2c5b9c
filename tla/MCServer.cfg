\* Four processes, two of them at once, and a stop command.
CONSTANTS
  Pid = {p1, p2}
  Stopper = {c1}
  MaxRun = 4
  Nothing = Nothing
  Empty = Empty
SPECIFICATION FairSpec
CHECK_DEADLOCK FALSE
INVARIANTS
  OneAtATime
  StoppedAtEnd
PROPERTY StopReturns
