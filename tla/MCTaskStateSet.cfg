\* Is a status set only on the version the client names?
CONSTANTS
  Task = {t1}
  Version = {v1, v2, v3}
  Handler = {h1, h2}
  MaxId = 3
  None = None
SPECIFICATION Spec
CHECK_DEADLOCK FALSE
PROPERTY SetOnlyCurrent
