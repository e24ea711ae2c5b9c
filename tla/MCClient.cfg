\* Two starts, two connections, a call of each kind.
CONSTANTS
  Getter = {q1}
  Asker = {a1}
  Setter = {s1}
  MaxStarts = 2
  MaxConn = 2
  None = None
SPECIFICATION FairSpec
CHECK_DEADLOCK FALSE
INVARIANTS
  
  AppliedRight
PROPERTY StopDone
