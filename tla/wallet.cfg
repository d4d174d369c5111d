SPECIFICATION Spec
CONSTANTS
  Reservations = {r1, r2}
  CoinsRedeemed <- Redeemed
  CoinsEarnable <- Earnable
  Opening = 3
  Adjustments <- Amounts
  MaxAdjusted = 1
  MaxViewed = 2
  None = None
CONSTRAINTS
  TwoAtATime
  ShortStatement
SYMMETRY Bookings
INVARIANTS
  StatementAddsUp
  
  CoinsFollowTheStay
CHECK_DEADLOCK FALSE
