------------------------- MODULE MCBookingPayments --------------------------
(***************************************************************************)
(* Small instances of BookingPayments for TLC.  One tick of the clock is   *)
(* 15 minutes, which the code's durations divide exactly enough: a hold of *)
(* 45 minutes is 3 ticks, extended by 1 up to 4; "more than 16 minutes     *)
(* left" and "more than 20 minutes left" are both "more than 1 tick left"; *)
(* an attempt is stale after 1.                                            *)
(***************************************************************************)
EXTENDS BookingPayments, TLC

BothNights == [r \in Reservations |-> Nights]
TwoRooms == [r \in Reservations |-> 2]
ThreeForSale == [n \in Nights |-> 3]
RoomForAll == [n \in Nights |-> 2 * Cardinality(Reservations)]
AfterTheEnd == [r \in Reservations |-> MaxTime]
SameDay == [r \in Reservations |-> 2]

\* Constraint: of the requests and notifications, two at a time are under way.
TwoAtATime ==
  Cardinality({ s \in Sessions : session[s] # Idle })
    + Cardinality({ h \in Handlers : delivery[h] # NoDelivery }) <= 2

Interchangeable == Permutations(Payments) \cup Permutations(Sessions)
                     \cup Permutations(Handlers)
                     \cup Permutations(Reservations)
=============================================================================
