\* Three events about one person, two overlapping drains that claim two at a time.
SPECIFICATION Spec
CONSTANTS
  LastEvent = 3
  People = {p1}
  Drains = {w1, w2}
  BatchSize = 2
INVARIANTS
  TypeOK
  NobodyToldTwice
  ProcessedMeansHandled
PROPERTIES
  EveryEventLeaves
CHECK_DEADLOCK FALSE
