SPECIFICATION Spec
CONSTANTS
  Cartons = {c1, c2}
  Plans = {p, q}
  MaxVersions = 2
  MaxDoors = 2
  None = None
SYMMETRY Symmetry
CONSTRAINT Small
INVARIANTS
  TypeOK
  PromiseAccounted
  RoadNotOverpromised
  LandedIsClaimed
  PlanFollowsTruck
CHECK_DEADLOCK FALSE
