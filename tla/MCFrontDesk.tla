----------------------------- MODULE MCFrontDesk -----------------------------
(* A small hotel for FrontDesk: two bookings of two rooms each for the same  *)
(* night, of which three can be sold, and one payment of two units.          *)
EXTENDS FrontDesk, TLC

EveryNight == [r \in Reservations |-> Nights]
TwoRooms == [r \in Reservations |-> 2]
ThreeForSale == [n \in Nights |-> 3]
AfterTheEnd == [r \in Reservations |-> MaxTime]

Interchangeable == Permutations(Payments) \cup Permutations(Clerks)
                     \cup Permutations(Reservations)
=============================================================================
