SPECIFICATION Spec
CONSTANTS
  Cartons = {c1}
  Plans = {p}
  MaxVersions = 1
  MaxDoors = 2
  None = None
INVARIANTS
  NothingReservedForCancelled
CHECK_DEADLOCK FALSE
