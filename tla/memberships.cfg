SPECIFICATION Spec
CONSTANTS
  first = first
  retry = retry
  upgrade = upgrade
  individual = individual
  corporate = corporate
  k1 = k1
  k2 = k2
  Requests = {first, retry, upgrade}
  Plans = {individual, corporate}
  Keys = {k1, k2}
  PlanOf <- PlanAsked
  KeyOf <- KeySent
  Price <- Prices
  Duration <- OneDay
  Day = 2
  PurchaseTTL = 1
  Handlers = {h1, h2}
  MaxTime = 3
  MaxExpiry = 5
  None = None
SYMMETRY Interchangeable
CONSTRAINT TwoAtATime
INVARIANTS
  CapturedIsActivated
  OneActive
  ProfileShowsNoEndedOne
PROPERTIES
  EndedStaysEnded
  NoValueLost
CHECK_DEADLOCK FALSE
