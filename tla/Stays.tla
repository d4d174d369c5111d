------------------------------- MODULE Stays --------------------------------
(***************************************************************************)
(* What a reservation asks for.  bookings.service.ts creates exactly one   *)
(* item per reservation and never changes it, so the nights and the number *)
(* of rooms are constants of the reservation.  A night is one              *)
(* room_inventory row: a room type on a date.                              *)
(***************************************************************************)
EXTENDS Integers, FiniteSets, BookingLifecycle

CONSTANTS
  Reservations,   \* the bookings guests may ask for
  Nights,         \* the room_inventory rows
  Stay,           \* Stay[r]: the nights r asks for
  Quantity        \* Quantity[r]: how many rooms on each of them

ASSUME StaysAssumption ==
  /\ IsFiniteSet(Reservations)
  /\ Stay \in [Reservations -> SUBSET Nights]
  /\ Quantity \in [Reservations -> Nat \ {0}]

\* The rooms a set of reservations takes on a night, one element per room.
RoomsOf(R) == UNION { {r} \X (1 .. Quantity[r]) : r \in R }

\* The statuses in which a stay's rooms are sold.
SoldStatuses == { "CONFIRMED", "COMPLETED" }
=============================================================================
