SPECIFICATION Spec
CONSTANTS
  Cartons = {c1, c2}
  Presses = {h1, h2}
  Approvals = {a1, a2}
  MaxDebt = 1
  None = None
SYMMETRY Symmetry
CONSTRAINT Small
INVARIANTS
  TypeOK
  OneReleasePerApproval
  HandedOverOnce
  NothingLeavesUnpermitted
  NoDeadEnd
PROPERTIES
  AnswerStands
CHECK_DEADLOCK FALSE
