SPECIFICATION FairSpec
CONSTANTS
  Reservations = {r1, r2}
  Nights = {n1}
  Payments = {p1}
  Outcomes = {"SUCCESS"}
  Sessions = {s1}
  Handlers = {h1}
  Redeems = {r1}
  HoldTTL = 1
  JobBatch = 1
  MaxTxTime = 0
  MaxTime = 3
  MaxFailures = 1
  ExtendThreshold = 1
  ExtendBy = 1
  MaxHold = 2
  MinHoldRemaining = 0
  StaleAttempt = 1
  ClaimTakeover = 1
  None = None
  Stay <- BothNights
  Quantity <- TwoRooms
  Sellable <- RoomForAll
  CheckOut <- SameDay
PROPERTIES
  LapsedHoldsGetResolved
  EventsGetAnswered
  PastStaysGetCompleted
CHECK_DEADLOCK FALSE
