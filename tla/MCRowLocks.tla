------------------------------ MODULE MCRowLocks ------------------------------
(* Two bookings of one user, for two nights and for the second of them, the     *)
(* longer one paid with coins; three transactions at a time.                    *)
EXTENDS RowLocks, TLC

CONSTANT Longer

StayNights == [r \in Reservations |-> IF r = Longer THEN 1 .. NightCount ELSE {NightCount}]
OneUser == [r \in Reservations |-> CHOOSE u \in Users : TRUE]

\* The shorter booking is there to be in the way of the longer one: one
\* transaction at a time is about it, of those that lock a night or the user
\* or have it completed, and it stays on its way to the end of the stay.
InTheWay ==
  \A r \in Reservations \ {Longer} :
    /\ status[r] \in {NONE, "PAYMENT_PENDING", "CONFIRMED", "COMPLETED"}
    /\ \A t, u \in Transactions : res[t] = r /\ res[u] = r => t = u
    /\ \A t \in Transactions :
         res[t] = r => kind[t] \in {"create", "notify", "complete", "credit", "edit",
                                    "accept", "cancel", "deleteRange"}

\* Two of the three, at most, are what only the administrator asks for.
AtTheDesk == {"update", "accept", "cancel", "refund", "noShow", "remove", "edit",
              "deleteRange"}
TwoClerks == \E t \in Transactions : kind[t] \notin AtTheDesk

Symmetry == Permutations(Transactions)
=============================================================================
