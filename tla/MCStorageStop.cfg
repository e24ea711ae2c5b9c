\* A TaskStatusSet meets a Stop half-way.
CONSTANTS
  Queue = {q1}
  Task = {t1}
  Status = {s1, s2}
  Row = {r1}
  Object = {o1, o2}
  Foreign = FALSE
  None = None
SPECIFICATION Spec
PROPERTY TrueMeansSet
