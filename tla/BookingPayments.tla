-------------------------- MODULE BookingPayments ---------------------------
(***************************************************************************)
(* Paying for a booking: the checkout sessions the guest opens             *)
(* (payments/payment-sessions.service.ts, with the hold extension they     *)
(* start with, bookings.service.ts) and the outcomes the payment service   *)
(* reports (payments/payment-confirmation.service.ts), next to the booking *)
(* and job transactions of Bookings.                                       *)
(*                                                                         *)
(* A payment is a payments row and its paymentReference; amounts are       *)
(* abstracted: every reservation keeps its total and every notification    *)
(* carries it, so the 422 answers to a foreign or mis-stated payment, which *)
(* change no payment and no reservation, are left out.  The payment service *)
(* is external: an attempt it has a session for may be reported paid and   *)
(* may be reported failed, at any later time, in any order, any number of  *)
(* times.                                                                  *)
(***************************************************************************)
EXTENDS Bookings

CONSTANTS
  Payments,          \* payments rows that can be created
  Outcomes,          \* what the payment service reports: SUCCESS, FAILED
  Sessions,          \* bound: extend-hold and payment-session requests at a time
  Handlers,          \* bound: notifications handled at a time
  None,              \* no reservation, no payment, no event
  ExtendThreshold,   \* HOLD_EXTEND_THRESHOLD_MS
  ExtendBy,          \* HOLD_EXTEND_BY_MS
  MaxHold,           \* MAX_HOLD_MS
  MinHoldRemaining,  \* PAYMENT_SESSION_MIN_HOLD_REMAINING_SECONDS
  StaleAttempt,      \* PAYMENT_ATTEMPT_STALE_MINUTES
  ClaimTakeover      \* CLAIM_TAKEOVER_MS

ASSUME PaymentsAssumption ==
  /\ None \notin Reservations \cup Payments
  /\ Outcomes \subseteq {"SUCCESS", "FAILED"}
  /\ None \notin Payments \X Outcomes
  /\ ExtendThreshold \in Nat
  /\ ExtendBy \in Nat
  /\ MaxHold \in Nat
  /\ MinHoldRemaining \in Nat
  /\ StaleAttempt \in Nat
  /\ ClaimTakeover \in Nat

VARIABLES
  session,         \* the running extend-hold and payment-session requests
  paymentStatus,   \* payments.status
  paymentFor,      \* payments.reservationId
  paymentCreated,  \* payments.createdAt
  refundRequired,  \* payments with refundRequired set
  atService,       \* payments the payment service has a session for
  paidBy,          \* the paymentReference in the CONFIRMED history row
  webhook,         \* payment_webhook_events, by event
  delivery         \* the notification each handler is processing

paymentVars == <<paymentStatus, paymentFor, paymentCreated, refundRequired>>
webhookVars == <<webhook, delivery>>
vars == <<bookingVars, session, paymentVars, atService, paidBy, webhookVars>>

\* An event is told apart by the payment and the outcome it reports.
Events == Payments \X Outcomes

Answers == {200, 202, 422}

Idle == [pc |-> "idle", res |-> None, until |-> 0, payment |-> None]

NoDelivery == [event |-> None, at |-> 0]

NoEvent == [state |-> "ABSENT", receivedAt |-> 0, answer |-> 0]

Earlier(a, b) == IF a <= b THEN a ELSE b

-----------------------------------------------------------------------------
(* tryExtendHold: the extend-hold request, and how a payment-session       *)
(* request begins.  No lock: a read, then two writes.                      *)

ProposedExpiry(r) ==
  Earlier(holdExpiresAt[r] + ExtendBy, createdAt[r] + MaxHold)

Extendable(r) ==
  /\ status[r] = "PAYMENT_PENDING"
  /\ holdExpiresAt[r] # 0
  /\ holdExpiresAt[r] - now <= ExtendThreshold
  /\ ProposedExpiry(r) > now

\* Reads the reservation, checks it, and computes the new expiry.
ReadForExtension(s, r) ==
  /\ session[s] = Idle
  /\ status[r] # NONE
  /\ session' =
       [session EXCEPT ![s] =
          IF Extendable(r)
          THEN [Idle EXCEPT !.pc = "extendReservation", !.res = r,
                            !.until = ProposedExpiry(r)]
          ELSE [Idle EXCEPT !.pc = "prepare", !.res = r]]
  /\ UNCHANGED <<bookingVars, paymentVars, atService, paidBy, webhookVars>>

\* reservation.update by id: whatever the reservation has become meanwhile.
ExtendReservation(s) ==
  /\ session[s].pc = "extendReservation"
  /\ holdExpiresAt' = [holdExpiresAt EXCEPT ![session[s].res] = session[s].until]
  /\ session' = [session EXCEPT ![s].pc = "extendRows"]
  /\ UNCHANGED <<now, status, createdAt, rowsExpireAt, soldRooms, creating,
                 cronVars, coinVars, failures, lapsedHoldUsed,
                 paymentVars, atService, paidBy, webhookVars>>

\* inventoryHold.updateMany: the rows there still are.
ExtendRows(s) ==
  LET r == session[s].res IN
  /\ session[s].pc = "extendRows"
  /\ rowsExpireAt' =
       [rowsExpireAt EXCEPT ![r] = IF @ = 0 THEN 0 ELSE session[s].until]
  /\ lapsedHoldUsed' =
       lapsedHoldUsed \cup { x \in {r} : HoldLapsed(x) /\ session[s].until > now }
  /\ session' =
       [session EXCEPT ![s] = [@ EXCEPT !.pc = "prepare", !.until = 0]]
  /\ UNCHANGED <<now, status, createdAt, holdExpiresAt, soldRooms, creating,
                 cronVars, coinVars, failures,
                 paymentVars, atService, paidBy, webhookVars>>

-----------------------------------------------------------------------------
(* createSession, phase 1: prepareAttempt.                                 *)

isPayable(r) ==
  /\ status[r] = "PAYMENT_PENDING"
  /\ holdExpiresAt[r] # 0
  /\ holdExpiresAt[r] - now > MinHoldRemaining

\* Mutant: an attempt is forgotten, not retired, once it is stale.
FreshPayments(r) ==
  { p \in Payments : /\ paymentFor[p] = r
                     /\ paymentStatus[p] = "PENDING"
                     /\ paymentCreated[p] + StaleAttempt > now }

LivePayments(r) ==
  { p \in Payments : paymentFor[p] = r /\ paymentStatus[p] = "PENDING" }

\* The attempt a request looks at, if there is one: the youngest live one.
Existing(r) ==
  { p \in LivePayments(r) :
      \A q \in LivePayments(r) : paymentCreated[q] <= paymentCreated[p] }

IsStale(p) == paymentCreated[p] + StaleAttempt <= now

\* The guest pressed Pay twice: the live attempt is handed out again.
ReuseAttempt(s) ==
  LET r == session[s].res IN
  /\ session[s].pc = "prepare"
  /\ isPayable(r)
  /\ \E p \in Existing(r) :
       /\ ~IsStale(p)
       /\ session' =
            [session EXCEPT ![s] = [@ EXCEPT !.pc = "remote", !.payment = p]]
  /\ UNCHANGED <<bookingVars, paymentVars, atService, paidBy, webhookVars>>

\* What a new attempt replaces: nothing, or an attempt abandoned long enough ago
\* to be written off.
Retired(r) ==
  IF Existing(r) = {} THEN {{}} ELSE { {p} : p \in { q \in Existing(r) : IsStale(q) } }

OpenAttempt(s) ==
  LET r == session[s].res IN
  /\ session[s].pc = "prepare"
  /\ isPayable(r)
  /\ \E old \in Retired(r), new \in Payments :
       /\ paymentStatus[new] = NONE
       /\ paymentStatus' =
            [p \in Payments |-> CASE p = new   -> "PENDING"
                                  [] p \in old -> "FAILED"
                                  [] OTHER     -> paymentStatus[p]]
       /\ paymentFor' = [paymentFor EXCEPT ![new] = r]
       /\ paymentCreated' = [paymentCreated EXCEPT ![new] = now]
       /\ session' =
            [session EXCEPT ![s] = [@ EXCEPT !.pc = "remote", !.payment = new]]
  /\ UNCHANGED <<bookingVars, refundRequired, atService, paidBy, webhookVars>>

\* The request ends here: it only meant to extend the hold, the reservation
\* is not payable, the payment service did not answer, or a step failed.
EndSession(s) ==
  /\ session[s] # Idle
  /\ session' = [session EXCEPT ![s] = Idle]
  /\ UNCHANGED <<bookingVars, paymentVars, atService, paidBy, webhookVars>>

-----------------------------------------------------------------------------
(* Phase 2: the call to the payment service, outside any transaction.      *)

\* The service opened a session; its answer may still be lost (EndSession).
ServiceOpensSession(s) ==
  /\ session[s].pc = "remote"
  /\ atService' = atService \cup {session[s].payment}
  /\ session' = [session EXCEPT ![s].pc = "publish"]
  /\ UNCHANGED <<bookingVars, paymentVars, paidBy, webhookVars>>

FailIfPending(p) ==
  paymentStatus' =
    [paymentStatus EXCEPT ![p] = IF @ = "PENDING" THEN "FAILED" ELSE @]

\* The service rejected the reference: failAttempt.
ServiceRejects(s) ==
  /\ session[s].pc = "remote"
  /\ FailIfPending(session[s].payment)
  /\ session' = [session EXCEPT ![s] = Idle]
  /\ UNCHANGED <<bookingVars, paymentFor, paymentCreated, refundRequired,
                 atService, paidBy, webhookVars>>

(* Phase 3: publishOrAbort.                                                *)

StillEligible(s) ==
  /\ paymentStatus[session[s].payment] = "PENDING"
  /\ isPayable(session[s].res)

\* The checkout URL is handed to the guest.
PublishSession(s) ==
  /\ session[s].pc = "publish"
  /\ StillEligible(s)
  /\ session' = [session EXCEPT ![s] = Idle]
  /\ UNCHANGED <<bookingVars, paymentVars, atService, paidBy, webhookVars>>

\* The attempt is written off, then cancelled upstream, best effort.
AbortSession(s) ==
  /\ session[s].pc = "publish"
  /\ ~StillEligible(s)
  /\ FailIfPending(session[s].payment)
  /\ \/ UNCHANGED atService
     \/ atService' = atService \ {session[s].payment}
  /\ session' = [session EXCEPT ![s] = Idle]
  /\ UNCHANGED <<bookingVars, paymentFor, paymentCreated, refundRequired,
                 paidBy, webhookVars>>

-----------------------------------------------------------------------------
(* Notifications: PaymentConfirmationService.claim.  A delivery that finds  *)
(* its event answered replays the stored answer, and one that finds it in   *)
(* flight is told to come back (409): neither changes anything, so neither  *)
(* is an action.                                                            *)

\* The INSERT of the event row wins.
ClaimEvent(h, e) ==
  /\ delivery[h] = NoDelivery
  /\ e[1] \in atService
  /\ webhook[e].state = "ABSENT"
  /\ webhook' = [webhook EXCEPT ![e] = [state |-> "PROCESSING",
                                        receivedAt |-> now, answer |-> 0]]
  /\ delivery' = [delivery EXCEPT ![h] = [event |-> e, at |-> now]]
  /\ UNCHANGED <<bookingVars, session, paymentVars, atService, paidBy>>

\* Mutant: the comparison is turned around, and only young claims are taken over.
TakeOverYoungClaim(h, e) ==
  /\ delivery[h] = NoDelivery
  /\ webhook[e].state = "PROCESSING"
  /\ webhook[e].receivedAt + ClaimTakeover >= now
  /\ delivery' = [delivery EXCEPT ![h] = [event |-> e, at |-> now]]
  /\ UNCHANGED <<bookingVars, session, paymentVars, atService, paidBy, webhook>>

\* A redelivery finds a claim old enough to belong to a crashed attempt.
TakeOverEvent(h, e) ==
  /\ delivery[h] = NoDelivery
  /\ webhook[e].state = "PROCESSING"
  /\ webhook[e].receivedAt + ClaimTakeover <= now
  /\ delivery' = [delivery EXCEPT ![h] = [event |-> e, at |-> now]]
  /\ UNCHANGED <<bookingVars, session, paymentVars, atService, paidBy, webhook>>

\* Waiting for the lock took longer than Prisma lets a transaction live: it
\* rolls back, the event stays PROCESSING and the sender sees an error.
TimeOutDelivery(h) ==
  /\ delivery[h] # NoDelivery
  /\ now - delivery[h].at > MaxTxTime
  /\ delivery' = [delivery EXCEPT ![h] = NoDelivery]
  /\ UNCHANGED <<bookingVars, session, paymentVars, atService, paidBy, webhook>>

\* The same, for any other reason a transaction fails.
LoseDelivery(h) ==
  /\ delivery[h] # NoDelivery
  /\ failures < MaxFailures
  /\ failures' = failures + 1
  /\ delivery' = [delivery EXCEPT ![h] = NoDelivery]
  /\ UNCHANGED <<now, reservationVars, creating, cronVars, coinVars,
                 lapsedHoldUsed, session, paymentVars, atService, paidBy, webhook>>

-----------------------------------------------------------------------------
(* PaymentConfirmationService.process: one transaction under the           *)
(* reservation's row lock, which decides and stores the answer.  The time  *)
(* it decides with, delivery[h].at, was read before it waited for the lock. *)

Processing(h, outcome) ==
  /\ delivery[h] # NoDelivery
  /\ delivery[h].event[2] = outcome
  /\ now - delivery[h].at <= MaxTxTime

PaymentOf(h) == delivery[h].event[1]

ReservationOf(h) == paymentFor[PaymentOf(h)]

\* receivedAt is not read again once the event is answered.
StoreAnswer(h, code) ==
  LET e == delivery[h].event IN
  /\ webhook' = [webhook EXCEPT ![e] = [state |-> "ANSWERED",
                                        receivedAt |-> 0, answer |-> code]]
  /\ delivery' = [delivery EXCEPT ![h] = NoDelivery]

\* Mutant: a late failure report overwrites a captured payment.
RecordAnyFailure(h) ==
  /\ Processing(h, "FAILED")
  /\ paymentStatus' = [paymentStatus EXCEPT ![PaymentOf(h)] = "FAILED"]
  /\ StoreAnswer(h, 200)
  /\ UNCHANGED <<bookingVars, session, paymentFor, paymentCreated,
                 refundRequired, atService, paidBy>>

\* applyFailure: the reservation keeps its hold.
RecordFailure(h) ==
  /\ Processing(h, "FAILED")
  /\ paymentStatus[PaymentOf(h)] # "CAPTURED"
  /\ paymentStatus' = [paymentStatus EXCEPT ![PaymentOf(h)] = "FAILED"]
  /\ StoreAnswer(h, 200)
  /\ UNCHANGED <<bookingVars, session, paymentFor, paymentCreated,
                 refundRequired, atService, paidBy>>

\* Out of order: the success already settled this payment.
IgnoreFailure(h) ==
  /\ Processing(h, "FAILED")
  /\ paymentStatus[PaymentOf(h)] = "CAPTURED"
  /\ StoreAnswer(h, 200)
  /\ UNCHANGED <<bookingVars, session, paymentVars, atService, paidBy>>

\* Mutant: any success for a booking already paid for is "already captured".
AcknowledgeAny(h) ==
  /\ Processing(h, "SUCCESS")
  /\ status[ReservationOf(h)] = "CONFIRMED"
  /\ StoreAnswer(h, 200)
  /\ UNCHANGED <<bookingVars, session, paymentVars, atService, paidBy>>

\* applySuccess for the payment that already confirmed the booking.
AcknowledgeCaptured(h) ==
  /\ Processing(h, "SUCCESS")
  /\ status[ReservationOf(h)] = "CONFIRMED"
  /\ paymentStatus[PaymentOf(h)] = "CAPTURED"
  /\ StoreAnswer(h, 200)
  /\ UNCHANGED <<bookingVars, session, paymentVars, atService, paidBy>>

\* Mutant: a booking that expired is past saving.
StillWaiting(r) == status[r] = "PAYMENT_PENDING"

Confirmable(r) == status[r] \in {"PAYMENT_PENDING", "EXPIRED"}

RejectSuccess(h) ==
  /\ Processing(h, "SUCCESS")
  /\ status[ReservationOf(h)] # "CONFIRMED"
  /\ ~Confirmable(ReservationOf(h))
  /\ StoreAnswer(h, 422)
  /\ UNCHANGED <<bookingVars, session, paymentVars, atService, paidBy>>

\* Mutant: the money is captured and nobody is told to give it back.
captureAndForget(h) ==
  /\ paymentStatus' = [paymentStatus EXCEPT ![PaymentOf(h)] = "CAPTURED"]
  /\ UNCHANGED refundRequired
  /\ StoreAnswer(h, 202)
  /\ UNCHANGED <<bookingVars, session, paymentFor, paymentCreated, atService,
                 paidBy>>

captureForRefund(h) ==
  /\ paymentStatus' = [paymentStatus EXCEPT ![PaymentOf(h)] = "CAPTURED"]
  /\ refundRequired' = refundRequired \cup {PaymentOf(h)}
  /\ StoreAnswer(h, 202)
  /\ UNCHANGED <<bookingVars, session, paymentFor, paymentCreated, atService,
                 paidBy>>

\* A second payment succeeded for a booking already paid for.
RefundDuplicate(h) ==
  /\ Processing(h, "SUCCESS")
  /\ status[ReservationOf(h)] = "CONFIRMED"
  /\ paymentStatus[PaymentOf(h)] # "CAPTURED"
  /\ captureForRefund(h)

\* The attempt was written off and settled anyway.
RefundLateSuccess(h) ==
  /\ Processing(h, "SUCCESS")
  /\ Confirmable(ReservationOf(h))
  /\ paymentStatus[PaymentOf(h)] = "FAILED"
  /\ captureForRefund(h)

isHoldLive(r, t) == holdExpiresAt[r] # 0 /\ holdExpiresAt[r] > t

OnTime(h) ==
  LET r == ReservationOf(h) IN
  /\ status[r] = "PAYMENT_PENDING"
  /\ isHoldLive(r, delivery[h].at)
  /\ rowsExpireAt[r] # 0

markConfirmed(h) ==
  LET r == ReservationOf(h) IN
  /\ canTransition(status[r], "CONFIRMED")
  /\ status' = [status EXCEPT ![r] = "CONFIRMED"]
  /\ holdExpiresAt' = [holdExpiresAt EXCEPT ![r] = 0]
  /\ paymentStatus' = [paymentStatus EXCEPT ![PaymentOf(h)] = "CAPTURED"]
  /\ paidBy' = [paidBy EXCEPT ![r] = PaymentOf(h)]
  /\ StoreAnswer(h, 200)
  /\ UNCHANGED <<now, createdAt, creating, cronVars, coinVars, failures,
                 session, paymentFor, paymentCreated, refundRequired, atService>>

\* The hold rows become sold rooms; nothing is checked again.
ConfirmFromHolds(h) ==
  LET r == ReservationOf(h) IN
  /\ Processing(h, "SUCCESS")
  /\ paymentStatus[PaymentOf(h)] # "FAILED"
  /\ OnTime(h)
  /\ sellRooms(r)
  /\ releaseHolds(r)
  /\ lapsedHoldUsed' = lapsedHoldUsed \cup { x \in {r} : HoldLapsed(x) }
  /\ markConfirmed(h)

\* The hold is gone: capacity is derived again from the item.
ConfirmFromItems(h) ==
  LET r == ReservationOf(h) IN
  /\ Processing(h, "SUCCESS")
  /\ Confirmable(r)
  /\ paymentStatus[PaymentOf(h)] # "FAILED"
  /\ ~OnTime(h)
  /\ Available(r, delivery[h].at)
  /\ sellRooms(r)
  /\ releaseHolds(r)
  /\ markConfirmed(h)
  /\ UNCHANGED lapsedHoldUsed

RefundNoInventory(h) ==
  LET r == ReservationOf(h) IN
  /\ Processing(h, "SUCCESS")
  /\ Confirmable(r)
  /\ paymentStatus[PaymentOf(h)] # "FAILED"
  /\ ~OnTime(h)
  /\ ~Available(r, delivery[h].at)
  /\ captureForRefund(h)

-----------------------------------------------------------------------------
\* The one process serving requests, notifications and jobs dies.
Restart ==
  /\ StopBookingWork
  /\ session' = [s \in Sessions |-> Idle]
  /\ delivery' = [h \in Handlers |-> NoDelivery]
  /\ UNCHANGED <<paymentVars, atService, paidBy, webhook>>

Init ==
  /\ BookingsInit
  /\ session = [s \in Sessions |-> Idle]
  /\ paymentStatus = [p \in Payments |-> NONE]
  /\ paymentFor = [p \in Payments |-> None]
  /\ paymentCreated = [p \in Payments |-> 0]
  /\ refundRequired = {}
  /\ atService = {}
  /\ paidBy = [r \in Reservations |-> None]
  /\ webhook = [e \in Events |-> NoEvent]
  /\ delivery = [h \in Handlers |-> NoDelivery]

PayingUnchanged ==
  UNCHANGED <<session, paymentVars, atService, paidBy, webhookVars>>

CreateStep ==
  \/ \E r \in Reservations : BeginCreate(r) /\ PayingUnchanged
  \/ \E c \in creating : \/ CommitCreate(c) /\ PayingUnchanged
                         \/ RollBackCreate(c) /\ PayingUnchanged

JobStep ==
  \/ ScanExpiredHolds /\ PayingUnchanged
  \/ \E r \in Reservations : \/ ExpireReservation(r) /\ PayingUnchanged
                             \/ SkipExpiry(r) /\ PayingUnchanged
  \/ ScanPastStays /\ PayingUnchanged
  \/ \E r \in Reservations : \/ CompleteStay(r) /\ PayingUnchanged
                             \/ CreditEarn(r) /\ PayingUnchanged
                             \/ LoseCredit(r) /\ PayingUnchanged
                             \/ SkipCompletion(r) /\ PayingUnchanged

SessionStep(s) ==
  \/ \E r \in Reservations : ReadForExtension(s, r)
  \/ ExtendReservation(s)
  \/ ExtendRows(s)
  \/ ReuseAttempt(s)
  \/ OpenAttempt(s)
  \/ ServiceOpensSession(s)
  \/ ServiceRejects(s)
  \/ PublishSession(s)
  \/ AbortSession(s)
  \/ EndSession(s)

Decide(h) ==
  \/ RecordFailure(h)
  \/ IgnoreFailure(h)
  \/ AcknowledgeCaptured(h)
  \/ RejectSuccess(h)
  \/ RefundDuplicate(h)
  \/ RefundLateSuccess(h)
  \/ ConfirmFromHolds(h)
  \/ ConfirmFromItems(h)
  \/ RefundNoInventory(h)

Next ==
  \/ Tick /\ PayingUnchanged
  \/ CreateStep
  \/ JobStep
  \/ \E s \in Sessions : SessionStep(s)
  \/ \E h \in Handlers :
       \/ \E e \in Events : ClaimEvent(h, e) \/ TakeOverEvent(h, e)
       \/ TimeOutDelivery(h)
       \/ LoseDelivery(h)
       \/ Decide(h)
  \/ Restart

Spec == Init /\ [][Next]_vars

(* What keeps happening.  Time passes.  The jobs start a run whenever none   *)
(* is going on and come to the end of it.  A transaction of theirs may fail, *)
(* but not every one they try (SF of the job, none of a single candidate: it *)
(* is the order of the scan that has to reach it).  The sender redelivers an *)
(* event it got no answer to, and not every delivery dies.                   *)
Fairness ==
  /\ WF_vars(Tick /\ PayingUnchanged)
  /\ WF_vars(ScanExpiredHolds /\ PayingUnchanged)
  /\ WF_vars(ScanPastStays /\ PayingUnchanged)
  /\ WF_vars(\E r \in Reservations : SkipExpiry(r) /\ PayingUnchanged)
  /\ SF_vars(\E r \in Reservations : ExpireReservation(r) /\ PayingUnchanged)
  /\ WF_vars(\E r \in Reservations : SkipCompletion(r) /\ PayingUnchanged)
  /\ SF_vars(\E r \in Reservations : CompleteStay(r) /\ PayingUnchanged)
  /\ WF_vars(\E r \in Reservations : (CreditEarn(r) \/ LoseCredit(r)) /\ PayingUnchanged)
  /\ \A h \in Handlers : WF_vars(TimeOutDelivery(h))
  /\ \A e \in Events :
       /\ SF_vars(\E h \in Handlers : TakeOverEvent(h, e))
       /\ SF_vars(\E h \in Handlers : delivery[h].event = e /\ Decide(h))

FairSpec == Spec /\ Fairness

-----------------------------------------------------------------------------
(* Properties.                                                             *)

\* A request on its way: extending the hold, preparing an attempt, or with an
\* attempt at hand.
Extending ==
  [ pc : {"extendReservation", "extendRows"}, res : Reservations,
    until : Nat \ {0}, payment : {None} ]
Preparing ==
  [ pc : {"prepare"}, res : Reservations, until : {0}, payment : {None} ]
Paying ==
  [ pc : {"remote", "publish"}, res : Reservations, until : {0},
    payment : Payments ]
Request == Extending \cup Preparing \cup Paying

\* Type invariant: what each column and each in-flight request may hold.
TypeOK ==
  /\ now \in Nat
  /\ status \in [Reservations -> ReservationStatus \cup {NONE}]
  /\ createdAt \in [Reservations -> Nat]
  /\ holdExpiresAt \in [Reservations -> Nat]
  /\ rowsExpireAt \in [Reservations -> Nat]
  /\ soldRooms \in [Nights -> Nat]
  /\ creating \subseteq [res : Reservations, at : Nat]
  /\ expiryQueue \subseteq Reservations
  /\ completionQueue \subseteq Reservations
  /\ crediting \subseteq Reservations
  /\ coinsRefunded \subseteq Reservations
  /\ coinsEarned \subseteq Reservations
  /\ failures \in Nat
  /\ lapsedHoldUsed \subseteq Reservations
  /\ session \in [Sessions -> Request \cup {Idle}]
  /\ paymentStatus \in [Payments -> {NONE, "PENDING", "FAILED", "CAPTURED"}]
  /\ paymentFor \in [Payments -> Reservations \cup {None}]
  /\ paymentCreated \in [Payments -> Nat]
  /\ refundRequired \subseteq Payments
  /\ atService \subseteq Payments
  /\ paidBy \in [Reservations -> Payments \cup {None}]
  /\ webhook \in [Events -> [state : {"ABSENT", "PROCESSING", "ANSWERED"},
                             receivedAt : Nat,
                             answer : Answers \cup {0}]]
  /\ delivery \in [Handlers -> [event : Events, at : Nat] \cup {NoDelivery}]

\* soldRooms is exactly the rooms of the stays sold for that night: no
\* conversion of a hold, late sale, expiry, retry or restart adds a room twice,
\* forgets one, or takes one without the reservation being confirmed
\* (convertHoldsToSold and sellRooms against markConfirmed and expiry).
SoldMatchesStays ==
  \A n \in Nights :
    soldRooms[n] =
      Cardinality(RoomsOf({ r \in Reservations : /\ n \in Stay[r]
                                                 /\ status[r] \in SoldStatuses }))

\* A reservation has hold rows exactly while it waits for payment, so neither
\* an extension that races with expiry or confirmation, nor a late payment,
\* leaves rows behind or a waiting guest without any.
RowsExactlyWhilePending ==
  \A r \in Reservations : rowsExpireAt[r] # 0 <=> status[r] = "PAYMENT_PENDING"

\* "Overselling is the failure this whole design exists to prevent"
\* (test/bookings.concurrency.e2e-spec.ts): on no night are more rooms sold and
\* held than the hotel offers.
NoOverselling == \A n \in Nights : computeFreeRooms(n, now) >= 0

\* The row locks do their work: overselling takes a hold that was used after it
\* had lapsed (extended by tryExtendHold, or converted by a confirmation that
\* read the clock before it waited for its lock).
OversellingNeedsLapsedHold == lapsedHoldUsed = {} => NoOverselling

\* The partial unique index payments_active_per_reservation is never hit: the
\* reservation lock alone keeps attempts apart, through retries, aborts, stale
\* attempts being written off, and two tabs that ask to pay at the same time
\* (prepareAttempt and publishOrAbort around the call to the payment service).
OneLiveAttempt ==
  \A p, q \in Payments :
    /\ p # q
    /\ paymentStatus[p] = "PENDING"
    /\ paymentStatus[q] = "PENDING"
    => paymentFor[p] # paymentFor[q]

\* Money taken is money explained: a captured payment is the one its
\* reservation was confirmed with, or is marked for refund, and a confirmed
\* reservation has its captured payment.
CapturedMoneyExplained ==
  /\ \A p \in Payments :
       paymentStatus[p] = "CAPTURED"
         => p \in refundRequired \/ paidBy[paymentFor[p]] = p
  /\ \A r \in Reservations :
       status[r] \in SoldStatuses
         => /\ paidBy[r] \in Payments
            /\ paymentFor[paidBy[r]] = r
            /\ paymentStatus[paidBy[r]] = "CAPTURED"

\* The sender is told 200 or 202 for a success only with the payment captured.
AcceptedSuccessIsCaptured ==
  \A e \in Events :
    e[2] = "SUCCESS" /\ webhook[e].answer \in {200, 202}
      => paymentStatus[e[1]] = "CAPTURED"

\* Whatever requests, jobs and notifications do in whatever order, a stay is
\* placed, expired, sold and completed along the lifecycle's edges, and its hold
\* and its rooms change with its status and with nothing else.
Ledger == INSTANCE StayLedger
            WITH held <- { r \in Reservations : rowsExpireAt[r] # 0 }

ImplementsLedger == Ledger!LedgerSpec

\* "Money in hand beats a later failure report": nothing the guest, the jobs or
\* a late or repeated notification does takes a captured payment back.
CapturedStays ==
  [][\A p \in Payments :
       paymentStatus[p] = "CAPTURED" => paymentStatus'[p] = "CAPTURED"]_vars

\* A hold that lapsed is expired, paid or extended in the end.  No candidate is
\* promised a turn: a run takes the oldest JobBatch of them (findExpiredHoldCandidates),
\* and a candidate younger than a full batch is reached because the older ones
\* leave the list, not because they are waited for.
LapsedHoldsGetResolved ==
  \A r \in Reservations :
    (status[r] = "PAYMENT_PENDING" /\ holdExpiresAt[r] < now)
      ~> (status[r] # "PAYMENT_PENDING" \/ holdExpiresAt[r] >= now)

\* "Without it, one crash mid-transaction would wedge a payment behind permanent
\* 409s": with the takeover, an event the sender keeps delivering is answered.
\* (The bound on the clock only leaves out claims too late to become stale.)
EventsGetAnswered ==
  \A e \in Events :
    (webhook[e].state = "PROCESSING"
       /\ webhook[e].receivedAt + ClaimTakeover <= MaxTime)
      ~> webhook[e].state = "ANSWERED"

\* A confirmed stay past its check-out is completed, however often the job's
\* transactions fail or the process dies, as long as not all of them do.
PastStaysGetCompleted ==
  \A r \in Reservations :
    (status[r] = "CONFIRMED" /\ CheckOut[r] < now) ~> status[r] = "COMPLETED"
=============================================================================
