\* A truck is rerouted, unloaded and resolved; a carton changes trucks at a collection point.
SPECIFICATION ArrivalSpec
CONSTANTS
  o = o
  d = d
  e = e
  Cartons = {c1, c2}
  Crates = {k1}
  Trucks = {t1, t2}
  Warehouses = {o, d, e}
  Collection = {d, e}
  Country <- MCCountry
  LoadScans = {s1}
  UnloadScans = {u1}
  MaxDeliveries = 1
  None = None
SYMMETRY Symmetry
ACTION_CONSTRAINT LiveCodes
CONSTRAINT TwoEnds
INVARIANTS
  CustodyConsistent
  NobodyForgotten
  ShelfMatchesWarehouse
PROPERTIES
  LandsAtDestination
  RefinesCustody
CHECK_DEADLOCK FALSE
