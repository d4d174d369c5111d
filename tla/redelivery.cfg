SPECIFICATION Spec
CONSTANTS
  Reservations = {r1}
  Nights = {n1}
  Payments = {p1, p2}
  Outcomes = {"SUCCESS", "FAILED"}
  Sessions = {s1, s2}
  Handlers = {h1, h2}
  Redeems = {}
  HoldTTL = 2
  JobBatch = 1
  MaxTxTime = 1
  MaxTime = 4
  MaxFailures = 0
  ExtendThreshold = 1
  ExtendBy = 1
  MaxHold = 3
  MinHoldRemaining = 0
  StaleAttempt = 1
  ClaimTakeover = 2
  None = None
  Stay <- BothNights
  Quantity <- TwoRooms
  Sellable <- ThreeForSale
  CheckOut <- SameDay
SYMMETRY Interchangeable
INVARIANTS
  OneLiveAttempt
  CapturedMoneyExplained
  AcceptedSuccessIsCaptured
PROPERTIES
  CapturedStays
CONSTRAINT TwoAtATime
CHECK_DEADLOCK FALSE
