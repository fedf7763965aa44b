\* Two load scans race each other and every office door, one is delivered by two flushes
\* at once, or a crate's is sent again and again.
SPECIFICATION BoardingSpec
CONSTANTS
  o = o
  d = d
  e = e
  Cartons = {c1, c2}
  Crates = {k1}
  Trucks = {t1}
  Warehouses = {o, d}
  Collection = {d}
  Country <- MCCountry
  LoadScans = {s1, s2}
  UnloadScans = {}
  MaxDeliveries = 2
  None = None
SYMMETRY Symmetry
ACTION_CONSTRAINTS LiveCodes Overlapping
INVARIANTS
  AboardTruckState
PROPERTIES
  ForwardOnly
  RefinesCustody
  ReplayMovesNothing
CHECK_DEADLOCK FALSE
