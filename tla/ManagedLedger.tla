--------------------------- MODULE ManagedLedger ----------------------------
(***************************************************************************)
(* What the booking code promises about a stay when an administrator       *)
(* (admin/bookings/admin-bookings.service.ts) may intervene: next to the   *)
(* moves of StayLedger, a stay that waits is withdrawn with its hold, one  *)
(* that is sold is taken back with its rooms or marked as a no-show, whose *)
(* rooms stay sold, and what is over is erased.  Accepting a booking is    *)
(* selling it.  Views, tasks, payments and refunds are left to FrontDesk.  *)
(***************************************************************************)
EXTENDS StayLedger

Withdraw(r) ==
  /\ status[r] \in {"PENDING", "PAYMENT_PENDING"}
  /\ status' = [status EXCEPT ![r] = "CANCELLED"]
  /\ held' = held \ {r}
  /\ UNCHANGED soldRooms

TakeBack(r) ==
  /\ status[r] = "CONFIRMED"
  /\ status' = [status EXCEPT ![r] = "CANCELLED"]
  /\ soldRooms' = [n \in Nights |->
                     IF n \in Stay[r] THEN soldRooms[n] - Quantity[r]
                                      ELSE soldRooms[n]]
  /\ UNCHANGED held

NoShow(r) ==
  /\ status[r] = "CONFIRMED"
  /\ status' = [status EXCEPT ![r] = "NO_SHOW"]
  /\ UNCHANGED <<held, soldRooms>>

Erase(r) ==
  /\ status[r] \in {"CANCELLED", "EXPIRED", "NO_SHOW"}
  /\ status' = [status EXCEPT ![r] = "DELETED"]
  /\ UNCHANGED <<held, soldRooms>>

ManagedNext ==
  \/ LedgerNext
  \/ \E r \in Reservations : Withdraw(r) \/ TakeBack(r) \/ NoShow(r) \/ Erase(r)

ManagedSpec == LedgerInit /\ [][ManagedNext]_ledgerVars

-----------------------------------------------------------------------------
\* The stays on file that occupy night n, whether the guest came or not.
OccupiedBy(n) ==
  { r \in Reservations : /\ n \in Stay[r]
                         /\ status[r] \in SoldStatuses \cup {"NO_SHOW"} }

\* Every stay on file that is sold, or was a no-show, has its rooms counted; the
\* rooms of an erased no-show may stay counted.
StaysHaveRooms ==
  \A n \in Nights : soldRooms[n] >= Cardinality(RoomsOf(OccupiedBy(n)))

\* Reservations move along the edges of the lifecycle, and are erased when over.
ManagedTransitions ==
  [][\A r \in Reservations :
       status'[r] # status[r]
         => \/ canTransition(status[r], status'[r])
            \/ status[r] = NONE /\ status'[r] = "PAYMENT_PENDING"
            \/ /\ status[r] \in {"CANCELLED", "EXPIRED", "NO_SHOW"}
               /\ status'[r] = "DELETED"]_status
=============================================================================
