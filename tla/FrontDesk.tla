------------------------------ MODULE FrontDesk ------------------------------
(***************************************************************************)
(* What an administrator does to a booking                                 *)
(* (admin/bookings/admin-bookings.service.ts), next to the guest's         *)
(* requests, the jobs and the notifications of BookingPayments.            *)
(*                                                                         *)
(* Every operation begins with findReservation, a read without a lock, and *)
(* decides on what it saw; the transaction that follows updates rows by    *)
(* their ids and, complete excepted, looks at no status again.  The        *)
(* transaction is one step.  A payment is Price units of money.            *)
(***************************************************************************)
EXTENDS BookingPayments

CONSTANTS
  Clerks,   \* bound: administrators' requests at a time
  Price     \* what a payment is worth, in the units refunds are made in

ASSUME DeskAssumption == Price \in Nat \ {0}

VARIABLES
  desk,      \* the request each administrator has under way
  refunded,  \* the refunds recorded for a payment (refunds.amount, COMPLETED)
  outdated,  \* history: bookings changed on a view that was no longer true
  noShows,   \* history: bookings marked NO_SHOW
  waived     \* history: payments a cancellation was told not to refund

deskVars == <<desk, refunded, outdated, noShows, waived>>
hotelVars == <<vars, deskVars>>

Refundable == { "CAPTURED", "PARTIALLY_REFUNDED" }

\* What is looked at of what findReservation returns: the status, and what is
\* left to refund of each payment that can be refunded.
View(r) ==
  [ status |-> status[r],
    left |-> [ p \in { q \in Payments : /\ paymentFor[q] = r
                                        /\ paymentStatus[q] \in Refundable } |->
                 Price - refunded[p] ] ]

NoView == [status |-> NONE, left |-> << >>]

Task(operation, r, view) == [op |-> operation, res |-> r, saw |-> view]

NoTask == Task("none", None, NoView)

\* Mutant: the status is not checked before a booking is marked NO_SHOW.
OperationsUnchecked(r) ==
  {"complete", "remove", "noShow"}
    \cup { op \in {"accept"} : status[r] = "PAYMENT_PENDING" }
    \cup { op \in {"cancel"} : canTransition(status[r], "CANCELLED") }
    \cup { op \in {"refund"} : DOMAIN View(r).left # {} }

\* The operations whose checks the booking passes as it is read.
OperationsOn(r) ==
  {"complete", "remove"}
    \cup { op \in {"accept"} : status[r] = "PAYMENT_PENDING" }
    \cup { op \in {"cancel"} : canTransition(status[r], "CANCELLED") }
    \cup { op \in {"noShow"} : canTransition(status[r], "NO_SHOW") }
    \cup { op \in {"refund"} : DOMAIN View(r).left # {} }

Exists(r) == status[r] \notin {NONE, "DELETED"}

Look(c, r, operation) ==
  /\ desk[c] = NoTask
  /\ Exists(r)
  /\ operation \in OperationsOn(r)
  /\ desk' = [desk EXCEPT ![c] = Task(operation, r, View(r))]
  /\ UNCHANGED <<vars, refunded, outdated, noShows, waived>>

Doing(c, operation) ==
  /\ desk[c].op = operation
  /\ Exists(desk[c].res)

\* The task is done, and changed a booking it may have had an old view of.
Finish(c, next) ==
  /\ desk' = [desk EXCEPT ![c] = next]
  /\ outdated' =
       outdated \cup { r \in {desk[c].res} : View(r) # desk[c].saw }

\* The request fails, or its process dies: the transaction rolls back.
Abandon(c) ==
  /\ desk[c] # NoTask
  /\ desk' = [desk EXCEPT ![c] = NoTask]
  /\ UNCHANGED <<vars, refunded, outdated, noShows, waived>>

-----------------------------------------------------------------------------
\* accept: the hold rows become sold rooms, paid or not, lapsed or not.
Accept(c) ==
  LET r == desk[c].res IN
  /\ Doing(c, "accept")
  /\ IF rowsExpireAt[r] # 0 THEN sellRooms(r) ELSE UNCHANGED soldRooms
  /\ releaseHolds(r)
  /\ status' = [status EXCEPT ![r] = "CONFIRMED"]
  /\ holdExpiresAt' = [holdExpiresAt EXCEPT ![r] = 0]
  /\ lapsedHoldUsed' = lapsedHoldUsed \cup { x \in {r} : HoldLapsed(x) }
  /\ Finish(c, NoTask)
  /\ UNCHANGED <<now, createdAt, creating, cronVars, coinVars, failures,
                 session, paymentVars, atService, paidBy, webhookVars,
                 refunded, noShows, waived>>

\* Mutant: the rooms of a cancelled stay stay sold.
keepSoldRooms(r) == UNCHANGED soldRooms

GREATEST(a, b) == IF a >= b THEN a ELSE b

\* restoreSoldRooms: GREATEST("soldRooms" - quantity, 0).
restoreSoldRooms(r) ==
  soldRooms' =
    [n \in Nights |->
       IF n \in Stay[r] THEN GREATEST(soldRooms[n] - Quantity[r], 0)
                        ELSE soldRooms[n]]

\* Mutant: payments are marked only for a booking that still waited for one.
MarkIfPending(view) ==
  { p \in DOMAIN view.left : view.status = "PAYMENT_PENDING" }

MarkForRefund(view) == DOMAIN view.left

\* cancel, with or without initiateRefund; remove goes on to the deletion
\* unless it saw captured money.
Cancel(c) ==
  LET r == desk[c].res
      saw == desk[c].saw
  IN
  /\ \/ /\ Doing(c, "cancel") \/ Doing(c, "cancelOnly")
        /\ Finish(c, NoTask)
     \/ /\ Doing(c, "cancelThenDelete")
        /\ Finish(c, [desk[c] EXCEPT !.op = "delete"])
  /\ IF saw.status = "PAYMENT_PENDING" THEN releaseHolds(r)
                                       ELSE UNCHANGED rowsExpireAt
  /\ IF saw.status = "CONFIRMED" THEN restoreSoldRooms(r)
                                 ELSE UNCHANGED soldRooms
  /\ status' = [status EXCEPT ![r] = "CANCELLED"]
  /\ holdExpiresAt' = [holdExpiresAt EXCEPT ![r] = 0]
  /\ coinsRefunded' = coinsRefunded \cup ({r} \cap Redeems)
  /\ \/ /\ refundRequired' = refundRequired \cup MarkForRefund(saw)
        /\ UNCHANGED waived
     \/ /\ desk[c].op = "cancel"
        /\ waived' = waived \cup DOMAIN saw.left
        /\ UNCHANGED refundRequired
  /\ UNCHANGED <<now, createdAt, creating, cronVars, coinsEarned, failures,
                 lapsedHoldUsed, session, paymentStatus, paymentFor,
                 paymentCreated, atService, paidBy, webhookVars, refunded,
                 noShows>>

\* Mutant: what was refunded before is not counted.
FullPrice(view, p) == Price

Remaining(view, p) == view.left[p]

\* refundPayment: all that was left when the booking was read, or a part.
RefundPayment(c) ==
  LET saw == desk[c].saw IN
  /\ Doing(c, "refund")
  /\ \E p \in DOMAIN saw.left :
       \E amount \in 1 .. Remaining(saw, p) :
         LET full == amount = Remaining(saw, p) IN
         /\ refunded' = [refunded EXCEPT ![p] = @ + amount]
         /\ paymentStatus' =
              [paymentStatus EXCEPT ![p] =
                 IF full THEN "REFUNDED" ELSE "PARTIALLY_REFUNDED"]
         /\ refundRequired' =
              IF full THEN refundRequired \ {p} ELSE refundRequired \cup {p}
  /\ Finish(c, NoTask)
  /\ UNCHANGED <<bookingVars, session, paymentFor, paymentCreated, atService,
                 paidBy, webhookVars, noShows, waived>>

\* markNoShow: the rooms stay sold.
MarkNoShow(c) ==
  LET r == desk[c].res IN
  /\ Doing(c, "noShow")
  /\ status' = [status EXCEPT ![r] = "NO_SHOW"]
  /\ noShows' = noShows \cup {r}
  /\ Finish(c, NoTask)
  /\ UNCHANGED <<now, createdAt, holdExpiresAt, rowsExpireAt, soldRooms,
                 creating, cronVars, coinVars, failures, lapsedHoldUsed,
                 session, paymentVars, atService, paidBy, webhookVars,
                 refunded, waived>>

\* complete calls completeStay, which looks again under the row lock; the coins
\* follow in a transaction of their own.
Complete(c) ==
  LET r == desk[c].res IN
  /\ Doing(c, "complete")
  /\ status[r] = "CONFIRMED"
  /\ status' = [status EXCEPT ![r] = "COMPLETED"]
  /\ desk' = [desk EXCEPT ![c] = Task("credit", r, NoView)]
  /\ UNCHANGED <<now, createdAt, holdExpiresAt, rowsExpireAt, soldRooms,
                 creating, cronVars, coinVars, failures, lapsedHoldUsed,
                 session, paymentVars, atService, paidBy, webhookVars,
                 refunded, outdated, noShows, waived>>

Credit(c) ==
  LET r == desk[c].res IN
  /\ Doing(c, "credit")
  /\ coinsEarned' = coinsEarned \cup { x \in {r} : status[x] = "COMPLETED" }
  /\ desk' = [desk EXCEPT ![c] = NoTask]
  /\ UNCHANGED <<now, reservationVars, creating, cronVars, coinsRefunded,
                 failures, lapsedHoldUsed, session, paymentVars, atService,
                 paidBy, webhookVars, refunded, outdated, noShows, waived>>

-----------------------------------------------------------------------------
\* remove: a booking that is not over is cancelled first, which reads it once
\* more; captured money keeps it on file.
Remove(c) ==
  LET r == desk[c].res
      paid == DOMAIN desk[c].saw.left # {}
      over == desk[c].saw.status \in {"CANCELLED", "EXPIRED", "NO_SHOW"}
  IN
  /\ Doing(c, "remove")
  /\ \/ /\ over
        /\ desk' = [desk EXCEPT ![c] = IF paid THEN NoTask
                                               ELSE [@ EXCEPT !.op = "delete"]]
     \/ /\ ~over
        /\ canTransition(status[r], "CANCELLED")
        /\ desk' = [desk EXCEPT ![c] =
                      Task(IF paid THEN "cancelOnly" ELSE "cancelThenDelete",
                           r, View(r))]
  /\ UNCHANGED <<vars, refunded, outdated, noShows, waived>>

\* reservation.delete: its hold rows go with it, and a payment of any status
\* forbids it (onDelete: Restrict).
Delete(c) ==
  LET r == desk[c].res IN
  /\ Doing(c, "delete")
  /\ \A p \in Payments : paymentFor[p] # r
  /\ status' = [status EXCEPT ![r] = "DELETED"]
  /\ holdExpiresAt' = [holdExpiresAt EXCEPT ![r] = 0]
  /\ releaseHolds(r)
  /\ desk' = [desk EXCEPT ![c] = NoTask]
  /\ outdated' =
       outdated \cup { x \in {r} : status[x] \notin
                                     {"CANCELLED", "EXPIRED", "NO_SHOW"} }
  /\ UNCHANGED <<now, createdAt, soldRooms, creating, cronVars, coinVars,
                 failures, lapsedHoldUsed, session, paymentVars, atService,
                 paidBy, webhookVars, refunded, noShows, waived>>

-----------------------------------------------------------------------------
DeskInit ==
  /\ Init
  /\ desk = [c \in Clerks |-> NoTask]
  /\ refunded = [p \in Payments |-> 0]
  /\ outdated = {}
  /\ noShows = {}
  /\ waived = {}

DeskStep(c) ==
  \/ \E r \in Reservations : \E operation \in OperationsOn(r) : Look(c, r, operation)
  \/ Abandon(c)
  \/ Accept(c)
  \/ Cancel(c)
  \/ RefundPayment(c)
  \/ MarkNoShow(c)
  \/ Complete(c)
  \/ Credit(c)
  \/ Remove(c)
  \/ Delete(c)

DeskNext ==
  \/ Next /\ UNCHANGED deskVars
  \/ \E c \in Clerks : DeskStep(c)

DeskSpec == DeskInit /\ [][DeskNext]_hotelVars

-----------------------------------------------------------------------------
(* Properties.                                                             *)

\* As long as every desk transaction commits on a view that is still true,
\* soldRooms is exactly the rooms of the stays sold and of the no-shows: accept,
\* cancel and remove give and take back rooms once, and the only gap in the
\* accounting is the one the unlocked reads leave.
BooksBalance ==
  outdated = {} =>
    \A n \in Nights :
      soldRooms[n] =
        Cardinality(RoomsOf({ r \in Reservations :
                                /\ n \in Stay[r]
                                /\ status[r] \in SoldStatuses \/ r \in noShows }))

\* Likewise for overselling: it takes an outdated view, or a hold used after it
\* had lapsed, which accept converts as confirmFromHolds does.
DeskOversellingExplained ==
  outdated = {} /\ lapsedHoldUsed = {} => NoOverselling

\* Likewise for money: what was captured for a booking that is not sold (or a
\* no-show) is marked for refund, unless a clerk chose not to refund it.
LostStaysAreRefunded ==
  outdated = {} =>
    \A p \in Payments :
      /\ paymentStatus[p] \in Refundable
      /\ status[paymentFor[p]] \notin SoldStatuses \cup {"NO_SHOW"}
      => p \in refundRequired \cup waived

\* Likewise for refunds: no more goes back than came in.
RefundsWithinPayment ==
  outdated = {} => \A p \in Payments : refunded[p] <= Price

\* Likewise for statuses: they move along the lifecycle's edges, and a booking
\* is deleted only when it is over.
DeskMovesLegally ==
  [][outdated' = {} =>
       \A r \in Reservations :
         status'[r] # status[r]
           => \/ canTransition(status[r], status'[r])
              \/ status[r] = NONE
              \/ /\ status'[r] = "DELETED"
                 /\ status[r] \in {"CANCELLED", "EXPIRED", "NO_SHOW"}]_hotelVars

\* Likewise for the stays: placed, expired, sold, withdrawn, taken back, marked,
\* completed and erased, each only from the status the lifecycle asks for, with hold
\* and rooms changing with the status and with nothing else.  Taking back finds the
\* rooms it gives back: what GREATEST guards against does not happen.
Managed == INSTANCE ManagedLedger
             WITH held <- { r \in Reservations : rowsExpireAt[r] # 0 }

DeskKeepsTheLedger ==
  /\ Managed!LedgerInit
  /\ [][outdated' = {}
         => [Managed!ManagedNext]_(Managed!ledgerVars)]_hotelVars

\* Likewise for guests who have paid: "pretending the payment failed would lose the
\* fact that the guest was charged" (captureForRefund).  A success that was answered
\* is on file: captured, or given back at least in part, which a failure reported
\* later does not undo.  The exception is the code's own (applySuccess): a booking
\* cancelled, completed or marked NO_SHOW answers 422, and that the guest was charged
\* is written nowhere.  No booking that can still be confirmed, or is, does that.
PaidIsOnFileOrOver ==
  outdated = {} =>
    \A e \in Events :
      e[2] = "SUCCESS" /\ webhook[e].answer # 0
        => \/ paymentStatus[e[1]] \in Refundable \cup {"REFUNDED"}
           \/ refunded[e[1]] > 0
           \/ /\ webhook[e].answer = 422
              /\ status[paymentFor[e[1]]] \notin {"PAYMENT_PENDING", "EXPIRED", "CONFIRMED"}
=============================================================================
