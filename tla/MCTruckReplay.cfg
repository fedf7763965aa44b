\* A crate of two cartons is loaded, and its scan delivered again.
SPECIFICATION BoardingSpec
CONSTANTS
  o = o
  d = d
  e = e
  Cartons = {c1, c2}
  Crates = {k1}
  Trucks = {t1}
  Warehouses = {o, d}
  Collection = {d}
  Country <- MCCountry
  LoadScans = {s1}
  UnloadScans = {}
  MaxDeliveries = 1
  None = None
SYMMETRY Symmetry
ACTION_CONSTRAINT LiveCodes
INVARIANTS
  ScanAppliedOnce
CHECK_DEADLOCK FALSE
