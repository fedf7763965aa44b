\* A drain dies with two events claimed.
SPECIFICATION Spec
CONSTANTS
  LastEvent = 3
  People = {p1, p2}
  Drains = {w1, w2}
  BatchSize = 2
PROPERTIES
  OneLostPerCrash
CHECK_DEADLOCK FALSE
