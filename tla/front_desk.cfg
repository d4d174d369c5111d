SPECIFICATION DeskSpec
CONSTANTS
  Reservations = {r1, r2}
  Nights = {n1}
  Payments = {p1}
  Outcomes = {"SUCCESS"}
  Sessions = {s1}
  Handlers = {h1}
  Clerks = {c1}
  Price = 2
  Redeems = {}
  HoldTTL = 1
  JobBatch = 1
  MaxTxTime = 0
  MaxTime = 3
  MaxFailures = 0
  ExtendThreshold = 0
  ExtendBy = 1
  MaxHold = 1
  MinHoldRemaining = 0
  StaleAttempt = 1
  ClaimTakeover = 1
  None = None
  Stay <- EveryNight
  Quantity <- TwoRooms
  Sellable <- ThreeForSale
  CheckOut <- AfterTheEnd
SYMMETRY Interchangeable
INVARIANTS
  BooksBalance
  DeskOversellingExplained
  LostStaysAreRefunded
  RefundsWithinPayment
  PaidIsOnFileOrOver
PROPERTIES
  DeskKeepsTheLedger
CHECK_DEADLOCK FALSE
