SPECIFICATION Spec
CONSTANTS
  Reservations = {r1, r2}
  Nights = {n1, n2}
  Payments = {p1, p2}
  Outcomes = {"SUCCESS"}
  Sessions = {s1}
  Handlers = {h1}
  Redeems = {}
  HoldTTL = 2
  JobBatch = 1
  MaxTxTime = 1
  MaxTime = 5
  MaxFailures = 0
  ExtendThreshold = 1
  ExtendBy = 1
  MaxHold = 3
  MinHoldRemaining = 1
  StaleAttempt = 1
  ClaimTakeover = 2
  None = None
  Stay <- BothNights
  Quantity <- TwoRooms
  Sellable <- ThreeForSale
  CheckOut <- AfterTheEnd
SYMMETRY Interchangeable
INVARIANTS
  SoldMatchesStays
  RowsExactlyWhilePending
  OversellingNeedsLapsedHold
PROPERTIES
  ImplementsLedger
CHECK_DEADLOCK FALSE
