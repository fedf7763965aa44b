\* Three scans of two trucks, one malformed, in slices of two.
SPECIFICATION QueuedSpec
CONSTANTS
  a = a
  b = b
  c = c
  d1 = d1
  d2 = d2
  KeyOrder <- MCKeyOrder
  Malformed = {b}
  LoadDoors = {d1}
  UnloadDoors = {d2}
  DoorOf <- MCDoorOf
  MaxPerSync = 2
INVARIANTS
  TypeOK
  NothingLost
PROPERTIES
  EveryScanLeaves
CHECK_DEADLOCK FALSE
