----------------------------- MODULE StayLedger -----------------------------
(***************************************************************************)
(* What the booking code promises about a stay, whoever moves it on: a     *)
(* reservation is placed with a hold on its rooms, loses the hold when it  *)
(* expires, turns it (or nothing) into sold rooms when it is paid, once,   *)
(* and is completed.  Time, locks, requests, jobs, payments and            *)
(* notifications are left to the specifications that implement this one.   *)
(***************************************************************************)
EXTENDS Stays

VARIABLES
  status,    \* where each reservation is in its life
  held,      \* the reservations that have hold rows
  soldRooms  \* the rooms sold, by night

ledgerVars == <<status, held, soldRooms>>

LedgerInit ==
  /\ status = [r \in Reservations |-> NONE]
  /\ held = {}
  /\ soldRooms = [n \in Nights |-> 0]

Place(r) ==
  /\ status[r] = NONE
  /\ status' = [status EXCEPT ![r] = "PAYMENT_PENDING"]
  /\ held' = held \cup {r}
  /\ UNCHANGED soldRooms

Expire(r) ==
  /\ status[r] = "PAYMENT_PENDING"
  /\ status' = [status EXCEPT ![r] = "EXPIRED"]
  /\ held' = held \ {r}
  /\ UNCHANGED soldRooms

Sell(r) ==
  /\ status[r] \in {"PAYMENT_PENDING", "EXPIRED"}
  /\ status' = [status EXCEPT ![r] = "CONFIRMED"]
  /\ held' = held \ {r}
  /\ soldRooms' = [n \in Nights |->
                     IF n \in Stay[r] THEN soldRooms[n] + Quantity[r]
                                      ELSE soldRooms[n]]

Complete(r) ==
  /\ status[r] = "CONFIRMED"
  /\ status' = [status EXCEPT ![r] = "COMPLETED"]
  /\ UNCHANGED <<held, soldRooms>>

LedgerNext ==
  \E r \in Reservations : Place(r) \/ Expire(r) \/ Sell(r) \/ Complete(r)

LedgerSpec == LedgerInit /\ [][LedgerNext]_ledgerVars

-----------------------------------------------------------------------------
\* The stays that occupy night n.
SoldFor(n) == { r \in Reservations : n \in Stay[r] /\ status[r] \in SoldStatuses }

LedgerTypeOK ==
  /\ status \in [Reservations -> ReservationStatus \cup {NONE}]
  /\ held \subseteq Reservations
  /\ soldRooms \in [Nights -> Nat]

\* soldRooms is exactly the rooms of the stays sold for that night.
SoldMatchesStays ==
  \A n \in Nights : soldRooms[n] = Cardinality(RoomsOf(SoldFor(n)))

\* A reservation holds rooms exactly while it waits for its payment.
HeldExactlyWhilePending ==
  held = { r \in Reservations : status[r] = "PAYMENT_PENDING" }

\* Reservations only move along the edges of the lifecycle, once placed.
LegalTransitions ==
  [][\A r \in Reservations :
       status'[r] # status[r]
         => \/ canTransition(status[r], status'[r])
            \/ status[r] = NONE /\ status'[r] = "PAYMENT_PENDING"]_status
=============================================================================
