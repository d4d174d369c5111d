SPECIFICATION Spec
CONSTANTS
  Transactions = {t1, t2, t3}
  Reservations = {r1, r2}
  Users = {u}
  NightCount = 2
  Longer = r1
  NightsOf <- StayNights
  UserOf <- OneUser
  Redeemed = {r1}
  None = None
CONSTRAINTS InTheWay TwoClerks
SYMMETRY Symmetry
INVARIANTS
  DeadlocksNeedOneOutOfOrder
  DecisionsHold
CHECK_DEADLOCK FALSE
