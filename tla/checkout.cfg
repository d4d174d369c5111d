SPECIFICATION Spec
CONSTANTS
  double = double
  suite = suite
  saver = saver
  flexible = flexible
  suiteRate = suiteRate
  RoomTypes = {double, suite}
  Plans = {saver, flexible, suiteRate}
  Dates = {1, 2}
  RoomTypeOf <- RoomType
  MaxOccupancy <- Sleeping
  Rules <- RulesOf
  InitialPrices <- PricesAtFirst
  InitialRooms <- RoomsAtFirst
  NewPrices = {4, 8}
  Ranges <- DateRanges
  Selections <- Wishes
  CoinChoices = {0, 5}
  InitialBalance = 6
  EarnPercent = 10
  Today = 1
  MAX_STAY_NIGHTS = 2
  QuoteTTL = 1
  MaxTime = 2
  MaxEdits = 2
  None = None
INVARIANTS
  BrowsingAgreesWithBooking
  BookedAsQuoted
CHECK_DEADLOCK FALSE
