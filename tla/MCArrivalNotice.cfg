\* Landings, window, sweeps that overlap, wait and die.
SPECIFICATION MCSpec
CONSTANTS
  k1 = k1
  k2 = k2
  k3 = k3
  c1 = c1
  c2 = c2
  w1 = w1
  w2 = w2
  Cartons = {k1, k2, k3}
  Clients = {c1, c2}
  Owner <- MCOwner
  Sweeps = {w1, w2}
  MaxAttempts = 2
  None = None
INVARIANTS
  TypeOK
  NobodyUntold
  StaffHear
  OneMessagePerArming
PROPERTIES
  EveryNoticeSettles
CHECK_DEADLOCK FALSE
