CONSTANTS
    Places = 4
    Day <- MCDay
    Rates = {2, 3}
    Slips <- MCSlips
    OldSlips <- MCOldSlips
    OldPlaces = {1, 2}
    Tolerance = 0
    Floor = 1
    Movers = {m1, m2}
    Idle = Idle
    None = None
SYMMETRY MCSymmetry
SPECIFICATION MoneySpec
CONSTRAINT Small
INVARIANTS
  TypeOK
  OnlyOpenMoneyOwed
PROPERTIES
  MoveMovesNoMoney
  RepriceMovesOnlyOpenDebt
CHECK_DEADLOCK FALSE
