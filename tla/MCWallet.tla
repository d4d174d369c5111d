------------------------------- MODULE MCWallet -------------------------------
(* A user with enough coins for one of two bookings, each of which earns one.  *)
EXTENDS Wallet, TLC

Redeemed == [r \in Reservations |-> 2]
Earnable == [r \in Reservations |-> 1]
Amounts == {-1}

\* Two transactions overlap, or one and an administrator at work on a booking.
TwoAtATime == Cardinality(running) + Cardinality(viewed) <= 2

\* The user's statement has five rows, of the seven two bookings can come to.
ShortStatement == Len(ledger) <= 5

Bookings == Permutations(Reservations)
=============================================================================
