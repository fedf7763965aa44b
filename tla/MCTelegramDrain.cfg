\* A copy of a task and a digest, two overlapping drains, one or two changes of the task.
SPECIFICATION MCSpec
CONSTANTS
  w1 = w1
  w2 = w2
  LastRow = 2
  Digests = {2}
  Tasks = {t1}
  Users = {a, b}
  None = None
  Drains = {w1, w2}
  Limit = 2
  MaxAttempts = 2
  MaxSends = 2
  MaxRetires = 2
INVARIANTS
  TypeOK
  SentOnce
  NoButtonOutlivesItsTask
PROPERTIES
  EveryRowSettles
CHECK_DEADLOCK FALSE
