------------------------------- MODULE Pricing -------------------------------
(***************************************************************************)
(* The money of a stay: pricing/pricing.service.ts.                        *)
(*                                                                         *)
(* A stay's nights are consecutive dates.  Prices are whole currency       *)
(* units, prices[d] = 0 where rate_prices has no row for the date d.       *)
(***************************************************************************)
EXTENDS Integers, FiniteSetsExt

\* eachNight: the half-open range of dates.
eachNight(checkIn, checkOut) == checkIn .. (checkOut - 1)

\* Math.round, and Math.ceil, of a quotient of naturals.
Rounded(a, b) == (2 * a + b) \div (2 * b)
Ceiling(a, b) == (a + b - 1) \div b

\* 18 percent.
estimateTaxes(amount) == Rounded(18 * amount, 100)

\* matchNights finds a row for every night.
matchNights(prices, nights) == nights # {} /\ \A d \in nights : prices[d] # 0

computeSubtotal(prices, nights, rooms) ==
  rooms * SumFunctionOnSet(prices, nights)

computeQuote(prices, nights, rooms, earnPercent) ==
  LET subtotal == computeSubtotal(prices, nights, rooms) IN
  [subtotal |-> subtotal,
   taxAmount |-> estimateTaxes(subtotal),
   totalAmount |-> subtotal + estimateTaxes(subtotal),
   coinsRedeemed |-> 0,
   earnable |-> Rounded(subtotal * earnPercent, 100)]

\* Coins come off the room price, and tax is on the rest.
applyCoinRedemption(quote, coins) ==
  LET rest == quote.subtotal - coins IN
  [quote EXCEPT !.taxAmount = estimateTaxes(rest),
                !.totalAmount = rest + estimateTaxes(rest),
                !.coinsRedeemed = coins]

\* assertStayAllowed: the arrival's rules, and the last night's.
StayAllowed(rules, nights) ==
  LET arrival == rules[Min(nights)]
      length == Cardinality(nights)
  IN
  /\ arrival.minStay <= length /\ length <= arrival.maxStay
  /\ ~arrival.closedToArrival
  /\ ~rules[Max(nights)].closedToDeparture
=============================================================================
