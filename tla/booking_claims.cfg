SPECIFICATION FairSpec
CONSTANTS
  first = first
  retry = retry
  changed = changed
  k1 = k1
  b1 = b1
  b2 = b2
  q1 = q1
  q2 = q2
  Requests = {first, retry, changed}
  Keys = {k1}
  Bodies = {b1, b2}
  Quotes = {q1, q2}
  KeyOf <- SameKey
  BodyOf <- Contents
  QuoteOf <- QuoteNamed
  QuoteTTL = 4
  ClaimTTL = 2
  StaleClaim = 1
  MaxTime = 5
  None = None
INVARIANTS
  BookingKeepsItsClaim
  OneBookingPerKey
  QuoteSpentOnce
PROPERTIES
  ImplementsRegister
  ClaimsComeFree
CHECK_DEADLOCK FALSE
