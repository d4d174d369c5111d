------------------------------ MODULE Bookings ------------------------------
(***************************************************************************)
(* Reservations, their inventory holds and the rooms sold, as the booking  *)
(* services of bookings/ keep them in PostgreSQL.                          *)
(*                                                                         *)
(* A reservation's hold rows are inserted, re-dated and deleted all        *)
(* together, so one expiry stands for them; 0 stands for SQL NULL and for  *)
(* "no rows".                                                              *)
(*                                                                         *)
(* A transaction is two steps: the one that reads the clock, and the one   *)
(* that gets its row locks, decides and commits.  In between it waits for  *)
(* locks, and the clock and the other transactions move on.                *)
(***************************************************************************)
EXTENDS Stays

CONSTANTS
  CheckOut,       \* CheckOut[r]: when r's stay is over
  Redeems,        \* the reservations paid in part with coins
  Sellable,       \* Sellable[n]: totalRooms - blockedRooms, 0 without a row
  HoldTTL,        \* BOOKING_HOLD_TTL_MINUTES
  JobBatch,       \* how many candidates one run of a job takes
  MaxTxTime,      \* the longest a transaction lives (Prisma's timeout)
  MaxTime,        \* bound: the last instant of the model's clock
  MaxFailures     \* bound: how often the process or a notification dies

ASSUME BookingsAssumption ==
  /\ CheckOut \in [Reservations -> Nat]
  /\ Redeems \subseteq Reservations
  /\ Sellable \in [Nights -> Nat]
  /\ HoldTTL \in Nat \ {0}
  /\ JobBatch \in Nat \ {0}
  /\ MaxTxTime \in Nat
  /\ MaxTime \in Nat
  /\ MaxFailures \in Nat

VARIABLES
  now,              \* the clock
  status,           \* reservations.status
  createdAt,        \* reservations.createdAt
  holdExpiresAt,    \* reservations.holdExpiresAt
  rowsExpireAt,     \* inventory_holds.expiresAt of the reservation's rows
  soldRooms,        \* room_inventory.soldRooms
  creating,         \* create transactions waiting for their locks
  expiryQueue,      \* what is left of the running expireHolds
  completionQueue,  \* what is left of the running completePastStays
  crediting,        \* the stay just completed, its coins not yet credited
  coinsRefunded,    \* reservations with a REDEEM_REFUND ledger row
  coinsEarned,      \* reservations with coinsEarnedAt set
  failures,         \* how often the process or a notification died
  lapsedHoldUsed    \* history: holds extended or sold after they had lapsed

reservationVars == <<status, createdAt, holdExpiresAt, rowsExpireAt, soldRooms>>
coinVars == <<coinsRefunded, coinsEarned>>
cronVars == <<expiryQueue, completionQueue, crediting>>
bookingVars == <<now, reservationVars, creating, cronVars, coinVars, failures,
                 lapsedHoldUsed>>

-----------------------------------------------------------------------------
(* Inventory: bookings/booking-inventory.service.ts.                       *)

\* The reservations whose hold rows count against night n at time t.
Holding(n, t) ==
  { r \in Reservations : /\ n \in Stay[r]
                         /\ rowsExpireAt[r] > t
                         /\ status[r] \in HOLDING_STATUSES }

activeHoldQuantity(n, t) == Cardinality(RoomsOf(Holding(n, t)))

computeFreeRooms(n, t) ==
  Sellable[n] - soldRooms[n] - activeHoldQuantity(n, t)

\* Mutant: some room left is taken for enough rooms left.
AvailableIfAnyFree(r, t) == \A n \in Stay[r] : computeFreeRooms(n, t) > 0

\* Under the nights' row locks, with the holds that live at the time t the
\* transaction read before it waited for them.
Available(r, t) == \A n \in Stay[r] : computeFreeRooms(n, t) >= Quantity[r]

sellRooms(r) ==
  soldRooms' = [n \in Nights |->
                  IF n \in Stay[r] THEN soldRooms[n] + Quantity[r]
                                   ELSE soldRooms[n]]

\* Mutant: the hold rows outlive the hold.
releaseNothing(r) == rowsExpireAt' = [rowsExpireAt EXCEPT ![r] = @]

releaseHolds(r) == rowsExpireAt' = [rowsExpireAt EXCEPT ![r] = 0]

HoldLapsed(r) == rowsExpireAt[r] # 0 /\ rowsExpireAt[r] <= now

-----------------------------------------------------------------------------
BookingsInit ==
  /\ now = 1
  /\ status = [r \in Reservations |-> NONE]
  /\ createdAt = [r \in Reservations |-> 0]
  /\ holdExpiresAt = [r \in Reservations |-> 0]
  /\ rowsExpireAt = [r \in Reservations |-> 0]
  /\ soldRooms = [n \in Nights |-> 0]
  /\ creating = {}
  /\ expiryQueue = {}
  /\ completionQueue = {}
  /\ crediting = {}
  /\ coinsRefunded = {}
  /\ coinsEarned = {}
  /\ failures = 0
  /\ lapsedHoldUsed = {}

Tick ==
  /\ now < MaxTime
  /\ now' = now + 1
  /\ UNCHANGED <<reservationVars, creating, cronVars, coinVars, failures,
                 lapsedHoldUsed>>

-----------------------------------------------------------------------------
(* Creating a booking: BookingsService.createInTransaction.                *)

\* The transaction starts and reads the clock before it asks for any lock.
BeginCreate(r) ==
  /\ status[r] = NONE
  /\ \A c \in creating : c.res # r
  /\ creating' = creating \cup {[res |-> r, at |-> now]}
  /\ UNCHANGED <<now, reservationVars, cronVars, coinVars, failures,
                 lapsedHoldUsed>>

CommitCreate(c) ==
  /\ now - c.at <= MaxTxTime
  /\ Available(c.res, c.at)
  /\ status' = [status EXCEPT ![c.res] = "PAYMENT_PENDING"]
  /\ createdAt' = [createdAt EXCEPT ![c.res] = c.at]
  /\ holdExpiresAt' = [holdExpiresAt EXCEPT ![c.res] = c.at + HoldTTL]
  /\ rowsExpireAt' = [rowsExpireAt EXCEPT ![c.res] = c.at + HoldTTL]
  /\ creating' = creating \ {c}
  /\ UNCHANGED <<now, soldRooms, cronVars, coinVars, failures, lapsedHoldUsed>>

\* No rooms, too few coins, a timeout: the transaction rolls back and the
\* guest may ask again.
RollBackCreate(c) ==
  /\ creating' = creating \ {c}
  /\ UNCHANGED <<now, reservationVars, cronVars, coinVars, failures,
                 lapsedHoldUsed>>

-----------------------------------------------------------------------------
(* The expiry job: BookingMaintenanceService.expireHolds.                  *)

\* Mutant: the scan forgets the status, and an expired booking stays the oldest
\* candidate.
ExpiredHoldsEver ==
  { r \in Reservations : holdExpiresAt[r] # 0 /\ holdExpiresAt[r] < now }

ExpiredHoldCandidates ==
  { r \in Reservations : /\ status[r] = "PAYMENT_PENDING"
                         /\ holdExpiresAt[r] # 0
                         /\ holdExpiresAt[r] < now }

\* The oldest candidates, at most JobBatch of them, read without a lock.
Oldest(Candidates, since) ==
  { Q \in SUBSET Candidates :
      /\ Cardinality(Q) <= JobBatch
      /\ Cardinality(Q) = JobBatch \/ Q = Candidates
      /\ \A q \in Q, r \in Candidates \ Q : since[q] <= since[r] }

\* A run that is still working keeps the next one from starting.
ScanExpiredHolds ==
  /\ expiryQueue = {}
  /\ ExpiredHoldCandidates # {}
  /\ expiryQueue' \in Oldest(ExpiredHoldCandidates, holdExpiresAt)
  /\ UNCHANGED <<now, reservationVars, creating, completionQueue, crediting,
                 coinVars, failures, lapsedHoldUsed>>

\* Mutant: the status is not re-checked under the lock.
ExpirableByTime(r) ==
  /\ holdExpiresAt[r] # 0
  /\ holdExpiresAt[r] <= now

\* Re-checked under the reservation's row lock, against a clock read after
\* the lock was granted.
StillExpirable(r) ==
  /\ status[r] = "PAYMENT_PENDING"
  /\ holdExpiresAt[r] # 0
  /\ holdExpiresAt[r] <= now

ExpireReservation(r) ==
  /\ r \in expiryQueue
  /\ StillExpirable(r)
  /\ expiryQueue' = expiryQueue \ {r}
  /\ status' = [status EXCEPT ![r] = "EXPIRED"]
  /\ releaseHolds(r)
  /\ coinsRefunded' = coinsRefunded \cup ({r} \cap Redeems)
  /\ UNCHANGED <<now, createdAt, holdExpiresAt, soldRooms, creating,
                 completionQueue, crediting, coinsEarned, failures,
                 lapsedHoldUsed>>

\* The job leaves r alone: another path moved it on, or the transaction
\* failed and was logged.
SkipExpiry(r) ==
  /\ r \in expiryQueue
  /\ expiryQueue' = expiryQueue \ {r}
  /\ UNCHANGED <<now, reservationVars, creating, completionQueue, crediting,
                 coinVars, failures, lapsedHoldUsed>>

-----------------------------------------------------------------------------
(* The completion job: BookingMaintenanceService.completePastStays.        *)

\* Mutant: the stays that are not over yet.
FutureStays == { r \in Reservations : status[r] = "CONFIRMED" /\ CheckOut[r] > now }

CompletionCandidates ==
  { r \in Reservations : status[r] = "CONFIRMED" /\ CheckOut[r] < now }

ScanPastStays ==
  /\ completionQueue = {}
  /\ crediting = {}
  /\ CompletionCandidates # {}
  /\ completionQueue' \in Oldest(CompletionCandidates, CheckOut)
  /\ UNCHANGED <<now, reservationVars, creating, expiryQueue, crediting,
                 coinVars, failures, lapsedHoldUsed>>

CompleteStay(r) ==
  /\ crediting = {}
  /\ r \in completionQueue
  /\ completionQueue' = completionQueue \ {r}
  /\ status[r] = "CONFIRMED"
  /\ status' = [status EXCEPT ![r] = "COMPLETED"]
  /\ crediting' = {r}
  /\ UNCHANGED <<now, createdAt, holdExpiresAt, rowsExpireAt, soldRooms,
                 creating, expiryQueue, coinVars, failures, lapsedHoldUsed>>

\* creditEarnOnComplete, a transaction of its own after the completion.
CreditEarn(r) ==
  /\ r \in crediting
  /\ crediting' = {}
  /\ coinsEarned' = coinsEarned \cup { x \in {r} : status[x] = "COMPLETED" }
  /\ UNCHANGED <<now, reservationVars, creating, expiryQueue, completionQueue,
                 coinsRefunded, failures, lapsedHoldUsed>>

\* An error is logged and the job goes on with the next stay.  A completion
\* that rolled back is found again by a later run; a lost credit is not.
SkipCompletion(r) ==
  /\ crediting = {}
  /\ r \in completionQueue
  /\ completionQueue' = completionQueue \ {r}
  /\ UNCHANGED <<now, reservationVars, creating, expiryQueue, crediting, coinVars,
                 failures, lapsedHoldUsed>>

LoseCredit(r) ==
  /\ r \in crediting
  /\ crediting' = {}
  /\ UNCHANGED <<now, reservationVars, creating, expiryQueue, completionQueue,
                 coinVars, failures, lapsedHoldUsed>>

-----------------------------------------------------------------------------
\* The process dies: open transactions roll back, the jobs' lists are lost.
StopBookingWork ==
  /\ failures < MaxFailures
  /\ failures' = failures + 1
  /\ creating' = {}
  /\ expiryQueue' = {}
  /\ completionQueue' = {}
  /\ crediting' = {}
  /\ UNCHANGED <<now, reservationVars, coinVars, lapsedHoldUsed>>
=============================================================================
