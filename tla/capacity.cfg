SPECIFICATION Spec
CONSTANTS
  one = one
  other = other
  both = both
  Nights = {1, 2}
  Guests = {one, other, both}
  Stay <- MCStay
  Ranges <- MCRanges
  Totals = {1, 2}
  Blocks = {0, 1}
  None = None
INVARIANTS
  RoomsSuffice
  SoldIsCounted
CHECK_DEADLOCK FALSE
