\* Callers ask a queue for its own tasks.
CONSTANTS
  Queue = {q1, q2}
  Task = {t1, t2}
  Status = {s1, s2}
  Row = {r1, r2}
  Object = {o1, o2, o3}
  Foreign = FALSE
  None = None
SPECIFICATION Spec
SYMMETRY Symmetry
INVARIANTS
  IInv
  PlacedOnce
  LayersAgree
  OneLiveVersion
  NilMeansAbsent
PROPERTY ImplementsTaskStore
