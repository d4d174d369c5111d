------------------------------ MODULE Checkout ------------------------------
(***************************************************************************)
(* From browsing to the booking: what search.service.ts shows, what        *)
(* quotes.service.ts quotes and what createBooking writes, while rates,    *)
(* rooms, coins and memberships change underneath.                         *)
(*                                                                         *)
(* One property and one guest with one checkout at a time; BookingClaims   *)
(* models retries and the use of a quote twice.                            *)
(***************************************************************************)
EXTENDS Pricing

CONSTANTS
  RoomTypes, Plans, Dates,
  RoomTypeOf,       \* the room type of each plan
  MaxOccupancy,     \* of each room type
  Rules,            \* Rules[p][d]: the restrictions on p's row for d
  InitialPrices, InitialRooms,
  NewPrices,        \* the prices the administrator enters
  Ranges,           \* the date ranges the administrator and others work on
  Selections,       \* what the guest may choose
  CoinChoices,      \* coinsToRedeem
  InitialBalance,   \* the guest's coins
  EarnPercent,      \* of a member
  Today,
  MAX_STAY_NIGHTS,
  QuoteTTL,         \* BOOKING_QUOTE_TTL_MINUTES
  MaxTime,          \* bound: the last instant of the model's clock
  MaxEdits,         \* bound: how often the world around the guest changes
  None

\* What quote-selection.dto.ts lets through, at least one room and one adult, on
\* a calendar that reaches as far as guests ask for.
ASSUME SelectionsAssumption ==
  /\ Selections \subseteq [plan : Plans, checkIn : Int, checkOut : Int,
                           rooms : Nat \ {0}, adults : Nat \ {0}]
  /\ \A sel \in Selections :
       sel.checkIn >= Today => eachNight(sel.checkIn, sel.checkOut) \subseteq Dates

ASSUME CheckoutAssumption ==
  /\ IsFiniteSet(RoomTypes)
  /\ RoomTypeOf \in [Plans -> RoomTypes]
  /\ MaxOccupancy \in [RoomTypes -> Nat \ {0}]
  /\ InitialPrices \in [Plans -> [Dates -> Nat]]
  /\ InitialRooms \in [RoomTypes -> [Dates -> Nat]]
  /\ NewPrices \subseteq Nat \ {0}
  /\ Ranges \subseteq SUBSET Dates
  /\ CoinChoices \subseteq Nat
  /\ InitialBalance \in Nat
  /\ EarnPercent \in Nat
  /\ MAX_STAY_NIGHTS \in Nat /\ QuoteTTL \in Nat
  /\ MaxTime \in Nat /\ MaxEdits \in Nat

VARIABLES
  now,
  price,        \* rate_prices.basePrice, 0 without a row
  rooms,        \* totalRooms - blockedRooms - soldRooms, 0 without a row
  held,         \* rooms under live holds
  member,       \* whether the guest is a member
  balance,      \* the guest's coins
  deletion,     \* the deletePrices under way: it has counted the bookings
  quoteRow,     \* booking_quotes, None without one
  loaded,       \* what loadConsumableQuote returned to createBooking
  reservation,  \* the guest's booking
  edits,        \* how often the world changed
  repriced      \* history: prices or membership changed since the quote

world == <<price, rooms, held, member>>
vars == <<now, world, balance, deletion, quoteRow, loaded, reservation, edits,
          repriced>>

Init ==
  /\ now = 1
  /\ price = InitialPrices
  /\ rooms = InitialRooms
  /\ held = [t \in RoomTypes |-> [d \in Dates |-> 0]]
  /\ member = FALSE
  /\ balance = InitialBalance
  /\ deletion = None
  /\ quoteRow = None
  /\ loaded = None
  /\ reservation = None
  /\ edits = 0
  /\ repriced = FALSE

Tick ==
  /\ now < MaxTime
  /\ now' = now + 1
  /\ UNCHANGED <<world, balance, deletion, quoteRow, loaded, reservation, edits,
                 repriced>>

-----------------------------------------------------------------------------
(* What the guest is shown: SearchService.                                 *)

PlansOf(t) == { p \in Plans : RoomTypeOf[p] = t }

PricedPlans(t, nights) == { p \in PlansOf(t) : matchNights(price[p], nights) }

Sleeps(t, guests, n) == MaxOccupancy[t] >= Ceiling(guests, n)

\* Mutant: one room more than asked for must be free.
OfferedStrictly(t, nights, guests, n) ==
  /\ Sleeps(t, guests, n)
  /\ \A d \in nights : rooms[t][d] > n
  /\ PricedPlans(t, nights) # {}

\* Live holds are not taken off here.
Offered(t, nights, guests, n) ==
  /\ Sleeps(t, guests, n)
  /\ \A d \in nights : rooms[t][d] >= n
  /\ PricedPlans(t, nights) # {}

OfferedTypes(nights, guests, n) ==
  { t \in RoomTypes : Offered(t, nights, guests, n) }

\* One room, before tax.
planTotal(p, nights) == computeSubtotal(price[p], nights, 1)

\* searchProperties, computeAvailability: what the list shows of the property.
Listing(nights, guests, n) ==
  LET types == OfferedTypes(nights, guests, n)
      best == Min({ planTotal(p, nights) :
                    p \in UNION { PricedPlans(t, nights) : t \in types } })
  IN [minTotalPrice |-> best,
      minPricePerNight |-> Rounded(best, Cardinality(nights)),
      remainingRooms |->
        SumFunction([t \in types |-> Min({ rooms[t][d] : d \in nights })])]

\* getPropertyBySlug: what the property's own page shows.
Page(nights, guests, n) ==
  LET perNight(p) == Rounded(planTotal(p, nights), Cardinality(nights))
      best == Min({ perNight(p) :
                    p \in UNION { PricedPlans(t, nights) :
                                  t \in OfferedTypes(nights, guests, n) } })
  IN [minPricePerNight |-> best, minTotalPrice |-> best * Cardinality(nights)]

-----------------------------------------------------------------------------
(* Quoting and booking.                                                    *)

NightsOf(sel) == eachNight(sel.checkIn, sel.checkOut)

\* BookingValidationService.validate.
Valid(sel) ==
  /\ sel.checkIn < sel.checkOut
  /\ sel.checkIn >= Today
  /\ Cardinality(NightsOf(sel)) <= MAX_STAY_NIGHTS
  /\ Sleeps(RoomTypeOf[sel.plan], sel.adults, sel.rooms)

\* readAvailability, and lockAndAssertAvailable in the transaction.
Free(sel) ==
  LET t == RoomTypeOf[sel.plan] IN
  \A d \in NightsOf(sel) : rooms[t][d] - held[t][d] >= sel.rooms

\* What loadAndQuote throws on.
Quotable(sel) ==
  /\ matchNights(price[sel.plan], NightsOf(sel))
  /\ StayAllowed(Rules[sel.plan], NightsOf(sel))

RoomPrice(sel) == computeSubtotal(price[sel.plan], NightsOf(sel), sel.rooms)

\* previewRedemption.
Redeemable(sel, coins) == coins <= balance /\ coins <= RoomPrice(sel)

Quote(sel, coins) ==
  applyCoinRedemption(
    computeQuote(price[sel.plan], NightsOf(sel), sel.rooms,
                 IF member THEN EarnPercent ELSE 0), coins)

\* createIntent; the guest may start the checkout again.
CreateIntent(sel, coins) ==
  /\ loaded = None /\ reservation = None
  /\ Valid(sel)
  /\ Quotable(sel)
  /\ Redeemable(sel, coins)
  /\ Free(sel)
  /\ quoteRow' = [sel |-> sel, coins |-> coins, shown |-> Quote(sel, coins),
                  expires |-> now + QuoteTTL, consumed |-> FALSE]
  /\ repriced' = FALSE
  /\ UNCHANGED <<now, world, balance, deletion, loaded, reservation, edits>>

\* Mutant: the rate plan is not compared.
MatchesButPlan(sel) == [sel EXCEPT !.plan = quoteRow.sel.plan] = quoteRow.sel

\* assertQuoteMatchesSelection.
Matches(sel) == sel = quoteRow.sel

\* loadConsumableQuote prices the selection afresh.
LoadQuote(sel) ==
  /\ loaded = None
  /\ quoteRow # None
  /\ ~quoteRow.consumed
  /\ quoteRow.expires > now
  /\ Valid(sel)
  /\ Matches(sel)
  /\ Quotable(sel)
  /\ Redeemable(sel, quoteRow.coins)
  /\ loaded' = [sel |-> sel, quote |-> Quote(sel, quoteRow.coins)]
  /\ UNCHANGED <<now, world, balance, deletion, quoteRow, reservation, edits,
                 repriced>>

Took(sel) ==
  [held EXCEPT ![RoomTypeOf[sel.plan]] =
     [d \in Dates |-> IF d \in NightsOf(sel) THEN @[d] + sel.rooms ELSE @[d]]]

\* createInTransaction writes the loaded quote; redeemForBooking looks at the
\* balance again.
CommitBooking ==
  /\ loaded # None
  /\ Free(loaded.sel)
  /\ loaded.quote.coinsRedeemed <= balance
  /\ reservation' = loaded
  /\ held' = Took(loaded.sel)
  /\ balance' = balance - loaded.quote.coinsRedeemed
  /\ quoteRow' = [quoteRow EXCEPT !.consumed = TRUE]
  /\ loaded' = None
  /\ UNCHANGED <<now, price, rooms, member, deletion, edits, repriced>>

\* Any failure of createBooking.
FailBooking ==
  /\ loaded # None
  /\ loaded' = None
  /\ UNCHANGED <<now, world, balance, deletion, quoteRow, reservation, edits,
                 repriced>>

-----------------------------------------------------------------------------
(* The world around: the rate editor (admin-rate-plans.service.ts), and    *)
(* what other guests, the inventory editor and the memberships do.         *)

Edit ==
  /\ edits < MaxEdits
  /\ edits' = edits + 1
  /\ UNCHANGED <<now, quoteRow, loaded, reservation>>

upsertPrices(p, range, amount) ==
  /\ Edit
  /\ price' = [price EXCEPT ![p] =
                 [d \in Dates |-> IF d \in range THEN amount ELSE @[d]]]
  /\ repriced' = TRUE
  /\ UNCHANGED <<rooms, held, member, balance, deletion>>

Booked(p, range) ==
  /\ reservation # None
  /\ reservation.sel.plan = p
  /\ NightsOf(reservation.sel) \cap range # {}

\* deletePrices counts the bookings, and deletes in another statement.
CountBookings(p, range) ==
  /\ deletion = None
  /\ ~Booked(p, range)
  /\ Edit
  /\ deletion' = [plan |-> p, range |-> range]
  /\ UNCHANGED <<world, balance, repriced>>

deletePrices ==
  /\ deletion # None
  /\ price' = [price EXCEPT ![deletion.plan] =
                 [d \in Dates |-> IF d \in deletion.range THEN 0 ELSE @[d]]]
  /\ deletion' = None
  /\ repriced' = TRUE
  /\ UNCHANGED <<now, rooms, held, member, balance, quoteRow, loaded, reservation,
                 edits>>

\* Rooms are sold or blocked, or held, by others.
Shifted(counts, t, range, by) ==
  [counts EXCEPT ![t] = [d \in Dates |-> IF d \in range THEN @[d] + by ELSE @[d]]]

SellRooms(t, range) ==
  /\ \A d \in range : rooms[t][d] > held[t][d]
  /\ Edit
  /\ rooms' = Shifted(rooms, t, range, -1)
  /\ UNCHANGED <<price, held, member, balance, deletion, repriced>>

HoldRooms(t, range) ==
  /\ \A d \in range : rooms[t][d] > held[t][d]
  /\ Edit
  /\ held' = Shifted(held, t, range, 1)
  /\ UNCHANGED <<price, rooms, member, balance, deletion, repriced>>

SpendCoins ==
  /\ balance > 0
  /\ Edit
  /\ balance' = 0
  /\ UNCHANGED <<world, deletion, repriced>>

ChangeMembership ==
  /\ Edit
  /\ member' = ~member
  /\ repriced' = TRUE
  /\ UNCHANGED <<price, rooms, held, balance, deletion>>

-----------------------------------------------------------------------------
Guest ==
  \/ \E sel \in Selections, coins \in CoinChoices : CreateIntent(sel, coins)
  \/ \E sel \in Selections : LoadQuote(sel)
  \/ CommitBooking
  \/ FailBooking

World ==
  \/ \E p \in Plans, range \in Ranges, amount \in NewPrices :
       upsertPrices(p, range, amount)
  \/ \E p \in Plans, range \in Ranges : CountBookings(p, range)
  \/ deletePrices
  \/ \E t \in RoomTypes, range \in Ranges : SellRooms(t, range) \/ HoldRooms(t, range)
  \/ SpendCoins
  \/ ChangeMembership

Next == Tick \/ Guest \/ World

Spec == Init /\ [][Next]_vars

-----------------------------------------------------------------------------
(* Properties.                                                             *)

\* "The number a guest sees while browsing and the number they are charged cannot
\* drift": a stay the booking path would sell is on the list and on the page, for
\* at most its price per room; list and page show one price per night, and their
\* totals differ by its rounding only.
BrowsingAgreesWithBooking ==
  \A sel \in Selections :
    Valid(sel) /\ Quotable(sel) /\ Free(sel) =>
      LET nights == NightsOf(sel)
          list == Listing(nights, sel.adults, sel.rooms)
          page == Page(nights, sel.adults, sel.rooms)
          gap == page.minTotalPrice - list.minTotalPrice
      IN /\ RoomTypeOf[sel.plan] \in OfferedTypes(nights, sel.adults, sel.rooms)
         /\ list.remainingRooms >= sel.rooms
         /\ list.minTotalPrice * sel.rooms <= RoomPrice(sel)
         /\ list.minPricePerNight = page.minPricePerNight
         /\ 2 * gap <= Cardinality(nights) /\ -2 * gap <= Cardinality(nights)

\* The booking is for the selection and the coins the guest was quoted, whatever
\* tab the request came from, at the amounts shown unless a rate or the membership
\* changed in between; and coins never pay more than the rooms.
BookedAsQuoted ==
  reservation # None =>
    /\ reservation.sel = quoteRow.sel
    /\ reservation.quote.coinsRedeemed = quoteRow.coins
    /\ quoteRow.coins <= reservation.quote.subtotal
    /\ reservation.quote.totalAmount
         = reservation.quote.subtotal - quoteRow.coins + reservation.quote.taxAmount
    /\ ~repriced => reservation.quote = quoteRow.shown
=============================================================================
