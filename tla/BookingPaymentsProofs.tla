----------------------- MODULE BookingPaymentsProofs ------------------------
(***************************************************************************)
(* What the requests, jobs and notifications of BookingPayments do to a    *)
(* stay and to its payments, for every set of reservations, nights,        *)
(* payments, concurrent requests and handlers and for every configuration: *)
(* they keep their types, they implement StayLedger, and so inherit what   *)
(* is proved of it; a reservation never has two live attempts; captured    *)
(* money is explained, stays captured, and is what a success is answered   *)
(* with; and the inventory row locks keep nights from being oversold.      *)
(* Then what the administrator of FrontDesk adds: rooms, money, refunds    *)
(* and statuses stay right through every operation that commits on a view  *)
(* of its booking that is still true, and mostly through the others too.   *)
(***************************************************************************)
EXTENDS FrontDesk, FiniteSetTheorems, TLAPS

-----------------------------------------------------------------------------
(* Counting rooms: what adding a reservation to a set, or taking a subset,  *)
(* does to the number of rooms.  FiniteSetTheorems counts elements, so a    *)
(* reservation of q rooms counts as its q pairs <<r, 1>> .. <<r, q>>.       *)

\* The rooms of one reservation are as many as it asks for.
LEMMA RoomsOfOne ==
  ASSUME NEW r \in Reservations
  PROVE  /\ IsFiniteSet(RoomsOf({r}))
         /\ Cardinality(RoomsOf({r})) = Quantity[r]
<1>1. RoomsOf({r}) = {r} \X (1 .. Quantity[r])
  BY DEF RoomsOf
<1>2. Quantity[r] \in Nat /\ Quantity[r] > 0
  BY StaysAssumption
<1>3. /\ IsFiniteSet(1 .. Quantity[r])
      /\ Cardinality(1 .. Quantity[r]) = Quantity[r]
  <2> DEFINE q == Quantity[r]
  <2>1. q \in Int /\ q >= 1
    BY <1>2
  <2> HIDE DEF q
  <2>2. IsFiniteSet(1 .. q) /\ Cardinality(1 .. q) = IF 1 > q THEN 0 ELSE q - 1 + 1
    BY <2>1, FS_Interval
  <2>3. Cardinality(1 .. q) = q
    BY <2>1, <2>2
  <2> QED  BY <2>2, <2>3 DEF q
<1>4. IsFiniteSet({r}) /\ Cardinality({r}) = 1
  BY FS_Singleton
<1>5. /\ IsFiniteSet({r} \X (1 .. Quantity[r]))
      /\ Cardinality({r} \X (1 .. Quantity[r])) = 1 * Quantity[r]
  <2> DEFINE rooms == 1 .. Quantity[r]
  <2>1. IsFiniteSet(rooms) /\ Cardinality(rooms) = Quantity[r]
    BY <1>3
  <2> HIDE DEF rooms
  <2>2. /\ IsFiniteSet({r} \X rooms)
        /\ Cardinality({r} \X rooms) = Cardinality({r}) * Cardinality(rooms)
    BY <1>4, <2>1, FS_Product
  <2>3. Cardinality({r} \X rooms) = 1 * Quantity[r]
    BY <1>4, <2>1, <2>2, Zenon
  <2> QED  BY <2>2, <2>3 DEF rooms
<1>6. 1 * Quantity[r] = Quantity[r]
  BY <1>2
<1> QED  BY <1>1, <1>5, <1>6, Zenon

\* Finitely many reservations take finitely many rooms.
LEMMA RoomsAreFinite ==
  ASSUME NEW R \in SUBSET Reservations
  PROVE  IsFiniteSet(RoomsOf(R))
<1> DEFINE each == [r \in R |-> {r} \X (1 .. Quantity[r])]
           S == { {r} \X (1 .. Quantity[r]) : r \in R }
<1>1. IsFiniteSet(R)
  BY StaysAssumption, FS_Subset
<1>2. each \in Surjection(R, S)
  BY DEF Surjection
<1>3. IsFiniteSet(S)
  <2> HIDE DEF each, S
  <2> QED  BY <1>1, <1>2, FS_Surjection
<1>4. \A T \in S : IsFiniteSet(T)
  BY RoomsOfOne DEF RoomsOf
<1>5. IsFiniteSet(UNION S)
  <2> HIDE DEF S
  <2> QED  BY <1>3, <1>4, FS_UNION
<1> QED  BY <1>5 DEF RoomsOf

\* A new reservation adds its rooms, no more and no fewer.
LEMMA RoomsOfMore ==
  ASSUME NEW R \in SUBSET Reservations, NEW r \in Reservations, r \notin R
  PROVE  Cardinality(RoomsOf(R \cup {r})) = Cardinality(RoomsOf(R)) + Quantity[r]
<1>1. RoomsOf(R \cup {r}) = RoomsOf(R) \cup RoomsOf({r})
  BY DEF RoomsOf
<1>2. RoomsOf(R) \cap RoomsOf({r}) = {}
  BY DEF RoomsOf
<1>3. /\ IsFiniteSet(RoomsOf(R))
      /\ IsFiniteSet(RoomsOf({r}))
      /\ Cardinality(RoomsOf({r})) = Quantity[r]
      /\ Quantity[r] \in Nat
  BY RoomsAreFinite, RoomsOfOne, StaysAssumption
<1>4. Cardinality(RoomsOf(R)) \in Nat
  BY <1>3, FS_CardinalityType
<1>5. Cardinality(RoomsOf(R) \cap RoomsOf({r})) = 0
  BY <1>2, FS_EmptySet
<1>6. Cardinality(RoomsOf(R) \cup RoomsOf({r}))
        = Cardinality(RoomsOf(R)) + Cardinality(RoomsOf({r}))
            - Cardinality(RoomsOf(R) \cap RoomsOf({r}))
  BY <1>3, FS_Union
<1>7. Cardinality(RoomsOf(R)) + Quantity[r] - 0 = Cardinality(RoomsOf(R)) + Quantity[r]
  BY <1>3, <1>4
<1> QED  BY <1>1, <1>3, <1>5, <1>6, <1>7, Zenon

\* Fewer reservations take no more rooms.
LEMMA RoomsOfFewer ==
  ASSUME NEW R \in SUBSET Reservations, NEW T \in SUBSET R
  PROVE  /\ Cardinality(RoomsOf(T)) \in Nat
         /\ Cardinality(RoomsOf(R)) \in Nat
         /\ Cardinality(RoomsOf(T)) <= Cardinality(RoomsOf(R))
<1>1. RoomsOf(T) \subseteq RoomsOf(R)
  BY DEF RoomsOf
<1>2. IsFiniteSet(RoomsOf(R)) /\ IsFiniteSet(RoomsOf(T))
  BY RoomsAreFinite
<1> QED  BY <1>1, <1>2, FS_Subset, FS_CardinalityType

\* No reservation, no room.
LEMMA RoomsOfNone == Cardinality(RoomsOf({})) = 0
<1>1. RoomsOf({}) = {}
  BY DEF RoomsOf
<1> QED  BY <1>1, FS_EmptySet

-----------------------------------------------------------------------------
(* Types.  The foreign keys come with them: selling the rooms of the       *)
(* reservation a notification pays for is only typed when the payment has  *)
(* one.                                                                    *)

\* Foreign keys: a payment row, and so everything that names one, has a
\* reservation.
KnownPayments ==
  /\ \A p \in Payments : paymentStatus[p] # NONE => paymentFor[p] \in Reservations
  /\ \A p \in atService : paymentStatus[p] # NONE
  /\ \A s \in Sessions :
       session[s] \in Paying => paymentStatus[session[s].payment] # NONE
  /\ \A e \in Events : webhook[e].state # "ABSENT" => paymentStatus[e[1]] # NONE
  /\ \A h \in Handlers :
       delivery[h] # NoDelivery => paymentStatus[PaymentOf(h)] # NONE

\* TypeOK, with the values of the two status columns left open: an administrator
\* puts bookings and payments in states that the rest of the code never does.
Typed(statuses, paymentStatuses) ==
  /\ now \in Nat
  /\ status \in [Reservations -> statuses]
  /\ createdAt \in [Reservations -> Nat]
  /\ holdExpiresAt \in [Reservations -> Nat]
  /\ rowsExpireAt \in [Reservations -> Nat]
  /\ soldRooms \in [Nights -> Nat]
  /\ creating \subseteq [res : Reservations, at : Nat]
  /\ expiryQueue \subseteq Reservations
  /\ completionQueue \subseteq Reservations
  /\ crediting \subseteq Reservations
  /\ coinsRefunded \subseteq Reservations
  /\ coinsEarned \subseteq Reservations
  /\ failures \in Nat
  /\ lapsedHoldUsed \subseteq Reservations
  /\ session \in [Sessions -> Request \cup {Idle}]
  /\ paymentStatus \in [Payments -> paymentStatuses]
  /\ paymentFor \in [Payments -> Reservations \cup {None}]
  /\ paymentCreated \in [Payments -> Nat]
  /\ refundRequired \subseteq Payments
  /\ atService \subseteq Payments
  /\ paidBy \in [Reservations -> Payments \cup {None}]
  /\ webhook \in [Events -> [state : {"ABSENT", "PROCESSING", "ANSWERED"},
                             receivedAt : Nat,
                             answer : Answers \cup {0}]]
  /\ delivery \in [Handlers -> [event : Events, at : Nat] \cup {NoDelivery}]

PaidStatus == {NONE, "PENDING", "FAILED", "CAPTURED"}

AnyStatus == ReservationStatus \cup {NONE, "DELETED"}
AnyPaidStatus == PaidStatus \cup {"PARTIALLY_REFUNDED", "REFUNDED"}

Shape == Typed(AnyStatus, AnyPaidStatus)

TypeInv == Shape /\ KnownPayments

LEMMA TypedApart == TypeOK <=> Typed(ReservationStatus \cup {NONE}, PaidStatus)
BY DEF TypeOK, Typed, PaidStatus

LEMMA TypeStep ==
  ASSUME NEW StatusSet, NEW PaymentSet,
         ReservationStatus \cup {NONE} \subseteq StatusSet,
         PaidStatus \subseteq PaymentSet,
         Typed(StatusSet, PaymentSet), KnownPayments, [Next]_vars
  PROVE  Typed(StatusSet, PaymentSet)'
<1> USE StaysAssumption, BookingsAssumption, PaymentsAssumption
    DEF reservationVars, coinVars, cronVars, bookingVars, paymentVars,
        webhookVars, PayingUnchanged, PaidStatus
<1>1. CASE Tick /\ PayingUnchanged
  BY <1>1 DEF Typed, Tick
<1>2. CASE CreateStep
  <2>1. ASSUME NEW r \in Reservations, BeginCreate(r), PayingUnchanged
        PROVE  Typed(StatusSet, PaymentSet)'
    BY <2>1 DEF Typed, BeginCreate
  <2>2. ASSUME NEW c \in creating, CommitCreate(c), PayingUnchanged
        PROVE  Typed(StatusSet, PaymentSet)'
    BY <2>2 DEF Typed, CommitCreate, ReservationStatus
  <2>3. ASSUME NEW c \in creating, RollBackCreate(c), PayingUnchanged
        PROVE  Typed(StatusSet, PaymentSet)'
    BY <2>3 DEF Typed, RollBackCreate
  <2> QED  BY <1>2, <2>1, <2>2, <2>3 DEF CreateStep
<1>3. CASE JobStep
  <2>1. CASE ScanExpiredHolds /\ PayingUnchanged
    BY <2>1 DEF Typed, ScanExpiredHolds, ExpiredHoldCandidates, Oldest
  <2>2. ASSUME NEW r \in Reservations, ExpireReservation(r), PayingUnchanged
        PROVE  Typed(StatusSet, PaymentSet)'
    BY <2>2 DEF Typed, ExpireReservation, releaseHolds, ReservationStatus
  <2>3. ASSUME NEW r \in Reservations, SkipExpiry(r), PayingUnchanged
        PROVE  Typed(StatusSet, PaymentSet)'
    BY <2>3 DEF Typed, SkipExpiry
  <2>4. CASE ScanPastStays /\ PayingUnchanged
    BY <2>4 DEF Typed, ScanPastStays, CompletionCandidates, Oldest
  <2>5. ASSUME NEW r \in Reservations, CompleteStay(r), PayingUnchanged
        PROVE  Typed(StatusSet, PaymentSet)'
    BY <2>5 DEF Typed, CompleteStay, ReservationStatus
  <2>6. ASSUME NEW r \in Reservations, CreditEarn(r), PayingUnchanged
        PROVE  Typed(StatusSet, PaymentSet)'
    BY <2>6 DEF Typed, CreditEarn
  <2>7. ASSUME NEW r \in Reservations, SkipCompletion(r) \/ LoseCredit(r),
               PayingUnchanged
        PROVE  Typed(StatusSet, PaymentSet)'
    BY <2>7 DEF Typed, SkipCompletion, LoseCredit
  <2> QED  BY <1>3, <2>1, <2>2, <2>3, <2>4, <2>5, <2>6, <2>7 DEF JobStep
<1>4. ASSUME NEW s \in Sessions, SessionStep(s)
      PROVE  Typed(StatusSet, PaymentSet)'
  <2> USE DEF Request, Extending, Preparing, Paying, Idle
  <2>1. ASSUME NEW r \in Reservations, ReadForExtension(s, r)
        PROVE  Typed(StatusSet, PaymentSet)'
    <3>1. ProposedExpiry(r) \in Int
      BY <2>1 DEF Typed, ProposedExpiry, Earlier
    <3>2. Extendable(r) => ProposedExpiry(r) \in Nat \ {0}
      BY <3>1 DEF Typed, Extendable
    <3>3. session'[s] \in Request
      BY <2>1, <3>2, ZenonT(30) DEF Typed, ReadForExtension
    <3> QED  BY <2>1, <3>3 DEF Typed, ReadForExtension
  <2>2. CASE ExtendReservation(s)
    <3>1. session[s] \in Extending
      BY <2>2 DEF Typed, ExtendReservation
    <3>2. session' = [session EXCEPT ![s] = [@ EXCEPT !.pc = "extendRows"]]
      BY <2>2 DEF ExtendReservation
    <3>3. [session[s] EXCEPT !.pc = "extendRows"] \in Request
      BY <3>1
    <3> QED  BY <2>2, <3>1, <3>2, <3>3 DEF Typed, ExtendReservation
  <2>3. CASE ExtendRows(s)
    <3>1. session[s] \in Extending
      BY <2>3 DEF Typed, ExtendRows
    <3>2. session' = [session EXCEPT ![s] = [@ EXCEPT !.pc = "prepare", !.until = 0]]
      BY <2>3 DEF ExtendRows
    <3>3. [session[s] EXCEPT !.pc = "prepare", !.until = 0] \in Request
      BY <3>1
    <3>4. session' \in [Sessions -> Request \cup {Idle}]
      BY <3>2, <3>3 DEF Typed
    <3>5. rowsExpireAt' \in [Reservations -> Nat]
      BY <2>3, <3>1 DEF Typed, ExtendRows
    <3> QED  BY <2>3, <3>1, <3>4, <3>5 DEF Typed, ExtendRows
  <2>4. CASE ReuseAttempt(s)
    <3>1. session[s] \in Preparing
      BY <2>4 DEF Typed, ReuseAttempt
    <3>2. PICK p \in Payments :
            session' = [session EXCEPT ![s] = [@ EXCEPT !.pc = "remote", !.payment = p]]
      BY <2>4 DEF ReuseAttempt, Existing, LivePayments
    <3>3. [session[s] EXCEPT !.pc = "remote", !.payment = p] \in Request
      BY <3>1
    <3>4. session' \in [Sessions -> Request \cup {Idle}]
      BY <3>2, <3>3 DEF Typed
    <3> QED  BY <2>4, <3>4 DEF Typed, ReuseAttempt
  <2>5. CASE OpenAttempt(s)
    <3>1. session[s] \in Preparing
      BY <2>5 DEF Typed, OpenAttempt
    <3>2. PICK old \in Retired(session[s].res), new \in Payments :
            /\ paymentStatus' = [p \in Payments |-> CASE p = new   -> "PENDING"
                                                      [] p \in old -> "FAILED"
                                                      [] OTHER     -> paymentStatus[p]]
            /\ paymentFor' = [paymentFor EXCEPT ![new] = session[s].res]
            /\ paymentCreated' = [paymentCreated EXCEPT ![new] = now]
            /\ session' =
                 [session EXCEPT ![s] = [@ EXCEPT !.pc = "remote", !.payment = new]]
      BY <2>5 DEF OpenAttempt
    <3>3. [session[s] EXCEPT !.pc = "remote", !.payment = new] \in Request
      BY <3>1
    <3>4. session' \in [Sessions -> Request \cup {Idle}]
      BY <3>2, <3>3 DEF Typed
    <3>5. paymentStatus' \in [Payments -> PaymentSet]
      BY <3>2 DEF Typed, NONE
    <3>6. /\ paymentFor' \in [Payments -> Reservations \cup {None}]
          /\ paymentCreated' \in [Payments -> Nat]
      BY <3>1, <3>2 DEF Typed
    <3> QED  BY <2>5, <3>4, <3>5, <3>6 DEF Typed, OpenAttempt
  <2>6. CASE ServiceOpensSession(s)
    <3>1. session[s] \in Paying
      BY <2>6 DEF Typed, ServiceOpensSession
    <3>2. session' = [session EXCEPT ![s] = [@ EXCEPT !.pc = "publish"]]
      BY <2>6 DEF ServiceOpensSession
    <3>3. [session[s] EXCEPT !.pc = "publish"] \in Request
      BY <3>1
    <3> QED  BY <2>6, <3>1, <3>2, <3>3 DEF Typed, ServiceOpensSession
  <2>7. CASE ServiceRejects(s)
    BY <2>7 DEF Typed, ServiceRejects, FailIfPending
  <2>8. CASE PublishSession(s)
    BY <2>8 DEF Typed, PublishSession
  <2>9. CASE AbortSession(s)
    BY <2>9 DEF Typed, AbortSession, FailIfPending
  <2>10. CASE EndSession(s)
    BY <2>10 DEF Typed, EndSession
  <2> QED  BY <1>4, <2>1, <2>2, <2>3, <2>4, <2>5, <2>6, <2>7, <2>8, <2>9,
              <2>10 DEF SessionStep
<1>5. ASSUME NEW h \in Handlers, NEW e \in Events, ClaimEvent(h, e)
      PROVE  Typed(StatusSet, PaymentSet)'
  BY <1>5 DEF Typed, ClaimEvent
<1>6. ASSUME NEW h \in Handlers, NEW e \in Events, TakeOverEvent(h, e)
      PROVE  Typed(StatusSet, PaymentSet)'
  BY <1>6 DEF Typed, TakeOverEvent
<1>7. ASSUME NEW h \in Handlers, TimeOutDelivery(h)
      PROVE  Typed(StatusSet, PaymentSet)'
  BY <1>7 DEF Typed, TimeOutDelivery
<1>8. ASSUME NEW h \in Handlers, LoseDelivery(h)
      PROVE  Typed(StatusSet, PaymentSet)'
  BY <1>8 DEF Typed, LoseDelivery
<1>9. ASSUME NEW h \in Handlers, Decide(h)
      PROVE  Typed(StatusSet, PaymentSet)'
  <2> USE DEF Processing, PaymentOf, ReservationOf, StoreAnswer, Answers,
              Events, ReservationStatus
  <2>1. CASE RecordFailure(h)
    BY <2>1 DEF Typed, RecordFailure
  <2>2. CASE IgnoreFailure(h)
    BY <2>2 DEF Typed, IgnoreFailure
  <2>3. CASE AcknowledgeCaptured(h)
    BY <2>3 DEF Typed, AcknowledgeCaptured
  <2>4. CASE RejectSuccess(h)
    BY <2>4 DEF Typed, RejectSuccess
  <2>5. CASE RefundDuplicate(h)
    BY <2>5 DEF Typed, RefundDuplicate, captureForRefund
  <2>6. CASE RefundLateSuccess(h)
    BY <2>6 DEF Typed, RefundLateSuccess, captureForRefund
  <2>7. ASSUME delivery[h] # NoDelivery,
               sellRooms(ReservationOf(h)), releaseHolds(ReservationOf(h)),
               markConfirmed(h), lapsedHoldUsed' \subseteq Reservations
        PROVE  Typed(StatusSet, PaymentSet)'
    <3>1. /\ delivery[h].event \in Events
          /\ PaymentOf(h) \in Payments
          /\ ReservationOf(h) \in Reservations
      BY <2>7 DEF Typed, KnownPayments
    <3>a. soldRooms' \in [Nights -> Nat]
      <4>1. PICK r \in Reservations : sellRooms(r)
        BY <2>7, <3>1
      <4>2. Quantity[r] \in Nat
        OBVIOUS
      <4> QED  BY <4>1, <4>2 DEF Typed, sellRooms
    <3>2. /\ status' \in [Reservations -> StatusSet]
          /\ holdExpiresAt' \in [Reservations -> Nat]
          /\ rowsExpireAt' \in [Reservations -> Nat]
          /\ paidBy' \in [Reservations -> Payments \cup {None}]
          /\ paymentStatus' \in
               [Payments -> PaymentSet]
      BY <2>7, <3>1, ZenonT(30) DEF Typed, releaseHolds, markConfirmed
    <3>3. /\ webhook' \in [Events -> [state : {"ABSENT", "PROCESSING", "ANSWERED"},
                                     receivedAt : Nat,
                                     answer : Answers \cup {0}]]
          /\ delivery' \in [Handlers -> [event : Events, at : Nat] \cup {NoDelivery}]
      BY <2>7, <3>1, ZenonT(30) DEF Typed, markConfirmed
    <3> QED  BY <2>7, <3>a, <3>2, <3>3 DEF Typed, markConfirmed
  <2>8. CASE ConfirmFromHolds(h)
    <3>1. ReservationOf(h) \in Reservations
      BY <2>8 DEF ConfirmFromHolds, Typed, KnownPayments, NoDelivery
    <3>2. lapsedHoldUsed' \subseteq Reservations
      BY <2>8, <3>1 DEF Typed, ConfirmFromHolds
    <3> QED  BY <2>7, <2>8, <3>2 DEF ConfirmFromHolds
  <2>9. CASE ConfirmFromItems(h)
    BY <2>7, <2>9 DEF Typed, ConfirmFromItems
  <2>10. CASE RefundNoInventory(h)
    BY <2>10 DEF Typed, RefundNoInventory, captureForRefund
  <2> QED  BY <1>9, <2>1, <2>2, <2>3, <2>4, <2>5, <2>6, <2>8, <2>9, <2>10
           DEF Decide
<1>10. CASE Restart
  BY <1>10 DEF Typed, Restart, StopBookingWork
<1>11. CASE UNCHANGED vars
  BY <1>11 DEF Typed, vars
<1> QED  BY <1>1, <1>2, <1>3, <1>4, <1>5, <1>6, <1>7, <1>8, <1>9, <1>10,
            <1>11 DEF Next

LEMMA ShapeStep == TypeInv /\ [Next]_vars => Shape'
BY TypeStep DEF TypeInv, Shape, AnyStatus, AnyPaidStatus

LEMMA KnownStep == TypeInv /\ [Next]_vars => KnownPayments'
<1> USE PaymentsAssumption
    DEF reservationVars, coinVars, cronVars, bookingVars, paymentVars,
        webhookVars, PayingUnchanged, KnownPayments, PaymentOf
<1> SUFFICES ASSUME Shape, Shape', KnownPayments, [Next]_vars
             PROVE  KnownPayments'
  BY ShapeStep DEF TypeInv
<1>1. CASE PayingUnchanged
  BY <1>1
<1>2. ASSUME NEW s \in Sessions, SessionStep(s)
      PROVE  KnownPayments'
  <2> USE DEF Extending, Preparing, Paying, Request, Idle
  <2>1. ASSUME NEW r \in Reservations, ReadForExtension(s, r)
        PROVE  KnownPayments'
    BY <2>1, ZenonT(30) DEF Shape, Typed, ReadForExtension
  <2>2. CASE ExtendReservation(s)
    BY <2>2 DEF Shape, Typed, ExtendReservation
  <2>3. CASE ExtendRows(s)
    BY <2>3, ZenonT(30) DEF Shape, Typed, ExtendRows
  <2>4. CASE ReuseAttempt(s)
    BY <2>4 DEF Shape, Typed, ReuseAttempt, Existing, LivePayments, NONE
  <2>5. CASE OpenAttempt(s)
    <3>1. PICK old \in Retired(session[s].res), new \in Payments :
            /\ paymentStatus[new] = NONE
            /\ paymentStatus' = [p \in Payments |-> CASE p = new   -> "PENDING"
                                                      [] p \in old -> "FAILED"
                                                      [] OTHER     -> paymentStatus[p]]
            /\ paymentFor' = [paymentFor EXCEPT ![new] = session[s].res]
            /\ session' =
                 [session EXCEPT ![s] = [@ EXCEPT !.pc = "remote", !.payment = new]]
      BY <2>5 DEF OpenAttempt
    <3>a. old \subseteq LivePayments(session[s].res)
      BY DEF Retired, Existing
    <3>2. session[s] \in Preparing
      BY <2>5, SMTT(30) DEF Shape, Typed, OpenAttempt
    <3>3. \A p \in Payments : paymentStatus[p] # NONE => /\ p # new
                                                       /\ paymentStatus'[p] # NONE
                                                       /\ paymentFor'[p] = paymentFor[p]
      BY <3>1 DEF Shape, Typed, NONE
    <3>4. /\ paymentStatus'[new] # NONE
          /\ paymentFor'[new] \in Reservations
      BY <3>1, <3>2 DEF Shape, Typed, NONE
    <3>5. \A p \in Payments \ {new} : paymentStatus'[p] # NONE => paymentStatus[p] # NONE
      BY <3>1, <3>a DEF Shape, Typed, LivePayments, NONE
    <3>6. \A t \in Sessions :
            session'[t] \in Paying => paymentStatus'[session'[t].payment] # NONE
      <4>1. TAKE t \in Sessions
      <4>2. CASE t = s
        BY <3>1, <3>2, <3>4, <4>2 DEF Shape, Typed
      <4>3. CASE t # s
        BY <3>1, <3>3, <4>3 DEF Shape, Typed
      <4> QED  BY <4>2, <4>3
    <3>7. UNCHANGED <<atService, webhook, delivery>>
      BY <2>5 DEF OpenAttempt
    <3>8. \A p \in Payments : paymentStatus'[p] # NONE => paymentFor'[p] \in Reservations
      BY <3>3, <3>4, <3>5
    <3>9. /\ \A p \in atService' : paymentStatus'[p] # NONE
          /\ \A e \in Events : webhook'[e].state # "ABSENT" => paymentStatus'[e[1]] # NONE
          /\ \A h \in Handlers :
               delivery'[h] # NoDelivery => paymentStatus'[delivery'[h].event[1]] # NONE
      BY <3>3, <3>7 DEF Shape, Typed, Events
    <3> QED  BY <3>6, <3>8, <3>9
  <2>6. CASE ServiceOpensSession(s)
    BY <2>6 DEF Shape, Typed, ServiceOpensSession
  <2>7. CASE ServiceRejects(s)
    BY <2>7 DEF Shape, Typed, ServiceRejects, FailIfPending, NONE
  <2>8. CASE PublishSession(s)
    BY <2>8 DEF Shape, Typed, PublishSession
  <2>9. CASE AbortSession(s)
    BY <2>9 DEF Shape, Typed, AbortSession, FailIfPending, NONE
  <2>10. CASE EndSession(s)
    BY <2>10 DEF Shape, Typed, EndSession
  <2> QED  BY <1>2, <2>1, <2>2, <2>3, <2>4, <2>5, <2>6, <2>7, <2>8, <2>9,
              <2>10 DEF SessionStep
<1>3. ASSUME NEW h \in Handlers, NEW e \in Events, ClaimEvent(h, e)
      PROVE  KnownPayments'
  BY <1>3 DEF Shape, Typed, ClaimEvent
<1>4. ASSUME NEW h \in Handlers, NEW e \in Events, TakeOverEvent(h, e)
      PROVE  KnownPayments'
  BY <1>4 DEF Shape, Typed, TakeOverEvent
<1>5. ASSUME NEW h \in Handlers, TimeOutDelivery(h)
      PROVE  KnownPayments'
  BY <1>5 DEF Shape, Typed, TimeOutDelivery
<1>6. ASSUME NEW h \in Handlers, LoseDelivery(h)
      PROVE  KnownPayments'
  BY <1>6 DEF Shape, Typed, LoseDelivery
<1>7. ASSUME NEW h \in Handlers, Decide(h)
      PROVE  KnownPayments'
  <2> USE DEF Processing, ReservationOf, StoreAnswer, NONE
  <2>1. CASE RecordFailure(h)
    BY <2>1 DEF Shape, Typed, RecordFailure
  <2>2. CASE IgnoreFailure(h)
    BY <2>2 DEF Shape, Typed, IgnoreFailure
  <2>3. CASE AcknowledgeCaptured(h)
    BY <2>3 DEF Shape, Typed, AcknowledgeCaptured
  <2>4. CASE RejectSuccess(h)
    BY <2>4 DEF Shape, Typed, RejectSuccess
  <2>5. CASE RefundDuplicate(h)
    BY <2>5 DEF Shape, Typed, RefundDuplicate, captureForRefund
  <2>6. CASE RefundLateSuccess(h)
    BY <2>6 DEF Shape, Typed, RefundLateSuccess, captureForRefund
  <2>7. ASSUME delivery[h] # NoDelivery, markConfirmed(h)
        PROVE  KnownPayments'
    <3>1. /\ UNCHANGED <<session, paymentFor, atService>>
          /\ paymentStatus' = [paymentStatus EXCEPT ![PaymentOf(h)] = "CAPTURED"]
          /\ delivery' = [delivery EXCEPT ![h] = NoDelivery]
          /\ \A e \in Events : webhook'[e].state # "ABSENT" =>
               e = delivery[h].event \/ webhook[e].state # "ABSENT"
      <4>1. /\ UNCHANGED <<session, paymentFor, atService>>
            /\ paymentStatus' = [paymentStatus EXCEPT ![PaymentOf(h)] = "CAPTURED"]
            /\ StoreAnswer(h, 200)
        BY <2>7 DEF markConfirmed
      <4> QED  BY <4>1 DEF Shape, Typed
    <3>2. \A p \in Payments :
            paymentStatus'[p] # NONE <=> paymentStatus[p] # NONE \/ p = PaymentOf(h)
      BY <3>1 DEF Shape, Typed
    <3>3. /\ delivery[h].event \in Events
          /\ PaymentOf(h) \in Payments
          /\ paymentStatus[PaymentOf(h)] # NONE
      BY <2>7 DEF Shape, Typed, NoDelivery, Events
    <3> QED  BY <3>1, <3>2, <3>3 DEF Shape, Typed, Events
  <2>8. CASE ConfirmFromHolds(h)
    BY <2>7, <2>8 DEF ConfirmFromHolds
  <2>9. CASE ConfirmFromItems(h)
    BY <2>7, <2>9 DEF ConfirmFromItems
  <2>10. CASE RefundNoInventory(h)
    BY <2>10, SMTT(30) DEF Shape, Typed, RefundNoInventory, captureForRefund
  <2> QED  BY <1>7, <2>1, <2>2, <2>3, <2>4, <2>5, <2>6, <2>8, <2>9, <2>10
           DEF Decide
<1>8. CASE Restart
  BY <1>8 DEF Shape, Typed, Restart, StopBookingWork, Paying, Idle
<1>9. CASE UNCHANGED vars
  BY <1>9 DEF vars
<1> QED  BY <1>1, <1>2, <1>3, <1>4, <1>5, <1>6, <1>7, <1>8, <1>9
         DEF Next, CreateStep, JobStep

\* Every column, every request and every notification in flight keeps its type,
\* and names a payment only together with its reservation.
THEOREM TypeCorrect == Spec => [](TypeOK /\ KnownPayments)
<1>1. Init => TypeOK /\ KnownPayments
  BY StaysAssumption, BookingsAssumption, PaymentsAssumption
  DEF Init, BookingsInit, TypeOK, KnownPayments, NONE, Idle, Paying,
      NoEvent, NoDelivery, Answers
<1>2. TypeOK /\ KnownPayments => TypeInv
  BY TypedApart DEF TypeInv, Shape, Typed, AnyStatus, AnyPaidStatus
<1>3. TypeOK /\ KnownPayments /\ [Next]_vars => TypeOK'
  <2>1. TypeOK' <=> Typed(ReservationStatus \cup {NONE}, PaidStatus)'
    BY DEF TypeOK, Typed, PaidStatus
  <2> QED  BY <2>1, TypedApart, TypeStep
<1>4. TypeOK /\ KnownPayments /\ [Next]_vars => KnownPayments'
  BY <1>2, KnownStep
<1> QED  BY <1>1, <1>3, <1>4, PTL DEF Spec

\* The part of it that an administrator's work leaves true as well.
LEMMA TypesKept == Spec => []TypeInv
<1>1. TypeOK /\ KnownPayments => TypeInv
  BY TypedApart DEF TypeInv, Shape, Typed, AnyStatus, AnyPaidStatus
<1> QED  BY <1>1, TypeCorrect, PTL

-----------------------------------------------------------------------------
(* Creating and the ledger.                                                *)


\* A create transaction works for a reservation that is not there yet, and is
\* the only one that does.
CreatingInv ==
  /\ \A c \in creating : status[c.res] = NONE /\ c.at <= now
  /\ \A c, d \in creating : c.res = d.res => c = d

LEMMA CreatingStep == TypeInv /\ CreatingInv /\ [Next]_vars => CreatingInv'
<1> USE DEF CreatingInv, bookingVars, reservationVars
<1> SUFFICES ASSUME Shape, CreatingInv, [Next]_vars
             PROVE  CreatingInv'
  BY DEF TypeInv
<1>1. CASE Tick /\ PayingUnchanged
  BY <1>1 DEF Tick, Shape, Typed
<1>2. ASSUME NEW r \in Reservations, BeginCreate(r)
      PROVE  CreatingInv'
  BY <1>2 DEF BeginCreate, Shape, Typed
<1>3. ASSUME NEW c \in creating, CommitCreate(c) \/ RollBackCreate(c)
      PROVE  CreatingInv'
  BY <1>3 DEF CommitCreate, RollBackCreate, Shape, Typed
<1>4. CASE JobStep
  BY <1>4 DEF JobStep, ScanExpiredHolds, ExpireReservation, SkipExpiry,
      StillExpirable, ScanPastStays, CompleteStay, CreditEarn, SkipCompletion,
      LoseCredit, Shape, Typed, NONE
<1>5. ASSUME NEW s \in Sessions, SessionStep(s)
      PROVE  CreatingInv'
  BY <1>5 DEF SessionStep, ReadForExtension, ExtendReservation, ExtendRows,
      ReuseAttempt, OpenAttempt, ServiceOpensSession, ServiceRejects,
      PublishSession, AbortSession, EndSession, Shape, Typed
<1>6. ASSUME NEW h \in Handlers,
             \/ \E e \in Events : ClaimEvent(h, e) \/ TakeOverEvent(h, e)
             \/ TimeOutDelivery(h)
             \/ LoseDelivery(h)
      PROVE  CreatingInv'
  BY <1>6 DEF ClaimEvent, TakeOverEvent, TimeOutDelivery, LoseDelivery, Shape, Typed
<1>7. ASSUME NEW h \in Handlers, Decide(h)
      PROVE  CreatingInv'
  <2>1. CASE ConfirmFromHolds(h) \/ ConfirmFromItems(h)
    BY <2>1 DEF ConfirmFromHolds, ConfirmFromItems, OnTime, Confirmable,
        markConfirmed, Shape, Typed, NONE
  <2>2. CASE ~(ConfirmFromHolds(h) \/ ConfirmFromItems(h))
    BY <1>7, <2>2 DEF Decide, RecordFailure, IgnoreFailure, AcknowledgeCaptured,
        RejectSuccess, RefundDuplicate, RefundLateSuccess, RefundNoInventory,
        captureForRefund, Shape, Typed
  <2> QED  BY <2>1, <2>2
<1>8. CASE Restart
  BY <1>8 DEF Restart, StopBookingWork
<1>9. CASE UNCHANGED vars
  BY <1>9 DEF vars
<1> QED  BY <1>1, <1>2, <1>3, <1>4, <1>5, <1>6, <1>7, <1>8, <1>9
         DEF Next, CreateStep

\* A booking that waits for the inventory locks is new, and its clock is read.
THEOREM CreatingCorrect == Spec => []CreatingInv
<1>1. Init => CreatingInv
  BY DEF Init, BookingsInit, CreatingInv
<1> QED  BY <1>1, CreatingStep, TypesKept, PTL DEF Spec

-----------------------------------------------------------------------------
(* The refinement of StayLedger.                                           *)

LEMMA LedgerStart == Init => Ledger!LedgerInit
BY DEF Init, BookingsInit, Ledger!LedgerInit, Ledger!NONE, NONE

LEMMA LedgerSteps ==
  TypeInv /\ CreatingInv /\ [Next]_vars
    => [Ledger!LedgerNext]_(Ledger!ledgerVars)
<1> USE DEF bookingVars, reservationVars
<1> SUFFICES ASSUME Shape, KnownPayments, CreatingInv, [Next]_vars
             PROVE  [Ledger!LedgerNext]_(Ledger!ledgerVars)
  BY DEF TypeInv
<1>a. ASSUME UNCHANGED <<status, rowsExpireAt, soldRooms>>
      PROVE  UNCHANGED Ledger!ledgerVars
  BY <1>a DEF Ledger!ledgerVars
<1>1. CASE Tick /\ PayingUnchanged
  BY <1>1, <1>a DEF Tick
<1>2. ASSUME NEW r \in Reservations, BeginCreate(r)
      PROVE  UNCHANGED Ledger!ledgerVars
  BY <1>2, <1>a DEF BeginCreate
<1>3. ASSUME NEW c \in creating, CommitCreate(c)
      PROVE  Ledger!LedgerNext
  <2>1. c.res \in Reservations /\ status[c.res] = NONE /\ c.at + HoldTTL # 0
    BY BookingsAssumption DEF Shape, Typed, CreatingInv
  <2>2. Ledger!Place(c.res)
    BY <1>3, <2>1 DEF CommitCreate, Ledger!Place, Ledger!NONE, NONE, Shape, Typed
  <2> QED  BY <2>1, <2>2 DEF Ledger!LedgerNext
<1>4. ASSUME NEW c \in creating, RollBackCreate(c)
      PROVE  UNCHANGED Ledger!ledgerVars
  BY <1>4, <1>a DEF RollBackCreate
<1>5. ASSUME NEW r \in Reservations, ExpireReservation(r)
      PROVE  Ledger!LedgerNext
  <2>1. Ledger!Expire(r)
    BY <1>5 DEF ExpireReservation, StillExpirable, releaseHolds, Ledger!Expire, Shape, Typed
  <2> QED  BY <2>1 DEF Ledger!LedgerNext
<1>6. ASSUME NEW r \in Reservations, CompleteStay(r)
      PROVE  Ledger!LedgerNext
  <2>1. Ledger!Complete(r)
    BY <1>6 DEF CompleteStay, Ledger!Complete
  <2> QED  BY <2>1 DEF Ledger!LedgerNext
<1>7. CASE JobStep
  <2>1. ASSUME NEW r \in Reservations,
               \/ ScanExpiredHolds \/ SkipExpiry(r) \/ ScanPastStays
               \/ CreditEarn(r) \/ SkipCompletion(r) \/ LoseCredit(r)
        PROVE  UNCHANGED Ledger!ledgerVars
    BY <2>1, <1>a DEF ScanExpiredHolds, SkipExpiry, ScanPastStays, CreditEarn,
        SkipCompletion, LoseCredit
  <2>2. CASE ScanExpiredHolds \/ ScanPastStays
    BY <2>2, <1>a DEF ScanExpiredHolds, ScanPastStays
  <2> QED  BY <1>5, <1>6, <1>7, <2>1, <2>2 DEF JobStep
<1>8. ASSUME NEW s \in Sessions, ExtendRows(s)
      PROVE  UNCHANGED Ledger!ledgerVars
  <2>1. session[s] \in Extending
    BY <1>8 DEF ExtendRows, Shape, Typed, Request, Extending, Preparing, Paying, Idle
  <2>2. \A r \in Reservations : rowsExpireAt'[r] # 0 <=> rowsExpireAt[r] # 0
    BY <1>8, <2>1 DEF ExtendRows, Shape, Typed, Extending
  <2> QED  BY <1>8, <2>2 DEF ExtendRows, Ledger!ledgerVars
<1>9. ASSUME NEW s \in Sessions, SessionStep(s), ~ExtendRows(s)
      PROVE  UNCHANGED Ledger!ledgerVars
  BY <1>9, <1>a DEF SessionStep, ReadForExtension, ExtendReservation,
      ReuseAttempt, OpenAttempt, ServiceOpensSession, ServiceRejects,
      PublishSession, AbortSession, EndSession
<1>10. ASSUME NEW h \in Handlers,
              \/ \E e \in Events : ClaimEvent(h, e) \/ TakeOverEvent(h, e)
              \/ TimeOutDelivery(h)
              \/ LoseDelivery(h)
       PROVE  UNCHANGED Ledger!ledgerVars
  BY <1>10, <1>a DEF ClaimEvent, TakeOverEvent, TimeOutDelivery, LoseDelivery
<1>11. ASSUME NEW h \in Handlers, ConfirmFromHolds(h) \/ ConfirmFromItems(h)
       PROVE  Ledger!LedgerNext
  <2>1. ReservationOf(h) \in Reservations
    BY <1>11 DEF ConfirmFromHolds, ConfirmFromItems, Processing, Shape, Typed,
        KnownPayments, ReservationOf, PaymentOf, Events
  <2>2. PICK r \in Reservations : r = ReservationOf(h)
    BY <2>1
  <2>3. /\ status[r] \in {"PAYMENT_PENDING", "EXPIRED"}
        /\ sellRooms(r)
        /\ releaseHolds(r)
        /\ status' = [status EXCEPT ![r] = "CONFIRMED"]
    BY <1>11, <2>2 DEF ConfirmFromHolds, ConfirmFromItems, OnTime, Confirmable,
        markConfirmed
  <2>4. Ledger!Sell(r)
    BY <2>3 DEF Ledger!Sell, sellRooms, releaseHolds, Shape, Typed
  <2> QED  BY <2>4 DEF Ledger!LedgerNext
<1>12. ASSUME NEW h \in Handlers, Decide(h),
              ~(ConfirmFromHolds(h) \/ ConfirmFromItems(h))
       PROVE  UNCHANGED Ledger!ledgerVars
  BY <1>12, <1>a DEF Decide, RecordFailure, IgnoreFailure, AcknowledgeCaptured,
      RejectSuccess, RefundDuplicate, RefundLateSuccess, RefundNoInventory,
      captureForRefund
<1>13. CASE Restart
  BY <1>13, <1>a DEF Restart, StopBookingWork
<1>14. CASE UNCHANGED vars
  BY <1>14, <1>a DEF vars
<1> QED  BY <1>1, <1>2, <1>3, <1>4, <1>7, <1>8, <1>9, <1>10, <1>11, <1>12, <1>13,
            <1>14 DEF Next, CreateStep

\* Every behaviour of requests, jobs, notifications, failures and restarts is one
\* of the ledger.
THEOREM LedgerImplemented == Spec => ImplementsLedger
BY LedgerStart, LedgerSteps, TypesKept, CreatingCorrect, PTL
DEF Spec, ImplementsLedger, Ledger!LedgerSpec
-----------------------------------------------------------------------------
(* What StayLedger promises, proved of the ledger that a booking database  *)
(* with these columns is.                                                  *)

\* The ledger's columns have their types, its counts and its holds are right.
LedgerInv ==
  Ledger!LedgerTypeOK /\ Ledger!SoldMatchesStays /\ Ledger!HeldExactlyWhilePending

LEMMA LedgerTypeStep ==
  Ledger!LedgerTypeOK /\ [Ledger!LedgerNext]_(Ledger!ledgerVars) => Ledger!LedgerTypeOK'
<1> SUFFICES ASSUME Ledger!LedgerTypeOK, [Ledger!LedgerNext]_(Ledger!ledgerVars)
             PROVE  Ledger!LedgerTypeOK'
  OBVIOUS
<1> USE DEF Ledger!LedgerTypeOK, Ledger!ReservationStatus
<1>1. ASSUME NEW r \in Reservations, Ledger!Place(r)
      PROVE  Ledger!LedgerTypeOK'
  BY <1>1 DEF Ledger!Place
<1>2. ASSUME NEW r \in Reservations, Ledger!Expire(r)
      PROVE  Ledger!LedgerTypeOK'
  BY <1>2 DEF Ledger!Expire
<1>3. ASSUME NEW r \in Reservations, Ledger!Sell(r)
      PROVE  Ledger!LedgerTypeOK'
  <2>1. \A n \in Nights : soldRooms[n] + Quantity[r] \in Nat
    BY StaysAssumption
  <2> QED  BY <1>3, <2>1 DEF Ledger!Sell
<1>4. ASSUME NEW r \in Reservations, Ledger!Complete(r)
      PROVE  Ledger!LedgerTypeOK'
  BY <1>4 DEF Ledger!Complete
<1>5. CASE UNCHANGED Ledger!ledgerVars
  BY <1>5 DEF Ledger!ledgerVars
<1> QED  BY <1>1, <1>2, <1>3, <1>4, <1>5 DEF Ledger!LedgerNext

LEMMA LedgerHeldStep ==
  /\ Ledger!LedgerTypeOK /\ Ledger!HeldExactlyWhilePending
  /\ [Ledger!LedgerNext]_(Ledger!ledgerVars)
  => Ledger!HeldExactlyWhilePending'
<1> USE DEF Ledger!HeldExactlyWhilePending, Ledger!LedgerTypeOK, Ledger!NONE
<1> QED  BY DEF Ledger!LedgerNext, Ledger!ledgerVars, Ledger!Place, Ledger!Expire,
                Ledger!Sell, Ledger!Complete

\* The ledger counts the rooms as the bookings do.
LEMMA LedgerCounts ==
  /\ Ledger!SoldMatchesStays <=> SoldMatchesStays
  /\ Ledger!SoldMatchesStays' <=> SoldMatchesStays'
BY DEF Ledger!SoldMatchesStays, Ledger!RoomsOf, Ledger!SoldFor, Ledger!SoldStatuses,
       Ledger!Cardinality, Cardinality, SoldMatchesStays, RoomsOf, SoldStatuses

\* Only a sale moves a reservation among the sold, and it adds exactly the rooms
\* that it adds to soldRooms.
LEMMA LedgerSoldStep ==
  /\ Ledger!LedgerTypeOK /\ Ledger!SoldMatchesStays
  /\ [Ledger!LedgerNext]_(Ledger!ledgerVars)
  => Ledger!SoldMatchesStays'
<1> SUFFICES ASSUME Ledger!LedgerTypeOK, SoldMatchesStays,
                    [Ledger!LedgerNext]_(Ledger!ledgerVars),
                    NEW n \in Nights
             PROVE  soldRooms'[n] = Cardinality(RoomsOf(Ledger!SoldFor(n)'))
  BY LedgerCounts DEF SoldMatchesStays, Ledger!SoldFor, Ledger!SoldStatuses, SoldStatuses
<1>1. soldRooms[n] = Cardinality(RoomsOf(Ledger!SoldFor(n)))
  BY DEF SoldMatchesStays, Ledger!SoldFor, Ledger!SoldStatuses, SoldStatuses
<1> USE DEF Ledger!LedgerTypeOK, Ledger!SoldFor, Ledger!SoldStatuses, Ledger!NONE
<1>2. Ledger!SoldFor(n) \in SUBSET Reservations
  OBVIOUS
<1>3. ASSUME Ledger!SoldFor(n)' = Ledger!SoldFor(n), soldRooms'[n] = soldRooms[n]
      PROVE  soldRooms'[n] = Cardinality(RoomsOf(Ledger!SoldFor(n)'))
  BY <1>1, <1>3
<1>4. ASSUME NEW r \in Reservations,
             Ledger!Place(r) \/ Ledger!Expire(r) \/ Ledger!Complete(r)
      PROVE  Ledger!SoldFor(n)' = Ledger!SoldFor(n) /\ soldRooms'[n] = soldRooms[n]
  BY <1>4 DEF Ledger!Place, Ledger!Expire, Ledger!Complete
<1>5. ASSUME NEW r \in Reservations, Ledger!Sell(r), n \in Stay[r]
      PROVE  soldRooms'[n] = Cardinality(RoomsOf(Ledger!SoldFor(n)'))
  <2>1. soldRooms'[n] = soldRooms[n] + Quantity[r]
    BY <1>5 DEF Ledger!Sell
  <2>2. r \notin Ledger!SoldFor(n) /\ Ledger!SoldFor(n)' = Ledger!SoldFor(n) \cup {r}
    BY <1>5 DEF Ledger!Sell
  <2>3. Cardinality(RoomsOf(Ledger!SoldFor(n) \cup {r}))
          = Cardinality(RoomsOf(Ledger!SoldFor(n))) + Quantity[r]
    BY <1>2, <2>2, RoomsOfMore
  <2> QED  BY <1>1, <2>1, <2>2, <2>3
<1>6. ASSUME NEW r \in Reservations, Ledger!Sell(r), n \notin Stay[r]
      PROVE  Ledger!SoldFor(n)' = Ledger!SoldFor(n) /\ soldRooms'[n] = soldRooms[n]
  BY <1>6 DEF Ledger!Sell
<1>7. CASE UNCHANGED Ledger!ledgerVars
  BY <1>3, <1>7 DEF Ledger!ledgerVars
<1> QED  BY <1>3, <1>4, <1>5, <1>6, <1>7 DEF Ledger!LedgerNext

\* The ledger never adds a room twice, forgets one, or keeps a hold that no
\* guest is waiting behind.
THEOREM LedgerCorrect == Ledger!LedgerSpec => []LedgerInv
<1>1. Ledger!LedgerInit => LedgerInv
  <2> SUFFICES ASSUME Ledger!LedgerInit
               PROVE  LedgerInv
    OBVIOUS
  <2>1. Ledger!LedgerTypeOK /\ Ledger!HeldExactlyWhilePending
    BY DEF Ledger!LedgerInit, Ledger!LedgerTypeOK, Ledger!HeldExactlyWhilePending,
           Ledger!NONE
  <2>2. \A n \in Nights : Ledger!SoldFor(n) = {}
    BY DEF Ledger!LedgerInit, Ledger!SoldFor, Ledger!SoldStatuses, Ledger!NONE
  <2>3. Ledger!SoldMatchesStays
    <3>1. SoldMatchesStays
      BY <2>2, RoomsOfNone DEF Ledger!LedgerInit, SoldMatchesStays, Ledger!SoldFor,
         Ledger!SoldStatuses, SoldStatuses
    <3> QED  BY <3>1, LedgerCounts
  <2> QED  BY <2>1, <2>3 DEF LedgerInv
<1>2. LedgerInv /\ [Ledger!LedgerNext]_(Ledger!ledgerVars) => LedgerInv'
  BY LedgerTypeStep, LedgerHeldStep, LedgerSoldStep DEF LedgerInv
<1> QED  BY <1>1, <1>2, PTL DEF Ledger!LedgerSpec

\* A reservation of the ledger only moves along the edges of the lifecycle.
THEOREM LedgerMovesLegally == Ledger!LedgerSpec => Ledger!LegalTransitions
<1> DEFINE Legal ==
      \A r \in Reservations :
        status'[r] # status[r]
          => \/ Ledger!canTransition(status[r], status'[r])
             \/ status[r] = Ledger!NONE /\ status'[r] = "PAYMENT_PENDING"
<1>1. LedgerInv /\ [Ledger!LedgerNext]_(Ledger!ledgerVars) => [Legal]_status
  BY DEF LedgerInv, Ledger!LedgerTypeOK, Ledger!LedgerNext, Ledger!ledgerVars,
         Ledger!Place, Ledger!Expire, Ledger!Sell, Ledger!Complete,
         Ledger!canTransition, Ledger!ALLOWED_TRANSITIONS
<1> QED  BY <1>1, LedgerCorrect, PTL DEF Ledger!LedgerSpec, Ledger!LegalTransitions

-----------------------------------------------------------------------------
(* What the ledger's theorems say of the booking code.                     *)

\* What holds of the ledger's stays holds of the bookings that implement them.
LEMMA LedgerApplies == Spec => []LedgerInv
BY LedgerImplemented, LedgerCorrect, PTL DEF ImplementsLedger

\* soldRooms is exactly the rooms of the stays sold for each night, whatever
\* races, retries, late payments and restarts there were.
THEOREM SoldIsWhatIsSold == Spec => []SoldMatchesStays
<1>1. LedgerInv => SoldMatchesStays
  BY LedgerCounts DEF LedgerInv
<1> QED  BY <1>1, LedgerApplies, PTL

\* Hold rows exist exactly while the reservation waits for its payment.
THEOREM RowsOnlyWhilePending == Spec => []RowsExactlyWhilePending
<1>1. LedgerInv => RowsExactlyWhilePending
  BY DEF LedgerInv, Ledger!HeldExactlyWhilePending, RowsExactlyWhilePending
<1> QED  BY <1>1, LedgerApplies, PTL

-----------------------------------------------------------------------------
(* Payment attempts.                                                       *)

\* Only OpenAttempt makes a payment PENDING, and what it finds live it retires
\* first; with at most one live attempt, the youngest is all there is.
LEMMA OneLiveStep == TypeInv /\ OneLiveAttempt /\ [Next]_vars => OneLiveAttempt'
<1> USE DEF OneLiveAttempt, paymentVars, PayingUnchanged
<1> SUFFICES ASSUME Shape, KnownPayments, OneLiveAttempt, [Next]_vars
             PROVE  OneLiveAttempt'
  BY DEF TypeInv
<1>1. ASSUME paymentFor' = paymentFor,
             \A p \in Payments : paymentStatus'[p] = "PENDING"
                                  => paymentStatus[p] = "PENDING"
      PROVE  OneLiveAttempt'
  BY <1>1
<1>2. CASE PayingUnchanged \/ Restart \/ UNCHANGED vars
  BY <1>2 DEF Restart, vars
<1>3. ASSUME NEW s \in Sessions, OpenAttempt(s)
      PROVE  OneLiveAttempt'
  <2> DEFINE r == session[s].res
  <2>1. PICK old \in Retired(r), new \in Payments :
          /\ paymentStatus[new] = NONE
          /\ paymentStatus' = [p \in Payments |-> CASE p = new   -> "PENDING"
                                                    [] p \in old -> "FAILED"
                                                    [] OTHER     -> paymentStatus[p]]
          /\ paymentFor' = [paymentFor EXCEPT ![new] = r]
    BY <1>3 DEF OpenAttempt
  <2>2. \A p, q \in LivePayments(r) : p = q
    BY DEF LivePayments
  <2>3. Existing(r) = LivePayments(r)
    BY <2>2 DEF Existing, LivePayments, Shape, Typed
  <2>4. LivePayments(r) \subseteq old
    BY <2>1, <2>2, <2>3 DEF Retired
  <2>5. \A p \in Payments \ {new} :
          paymentStatus'[p] = "PENDING"
            => /\ paymentStatus[p] = "PENDING"
               /\ paymentFor'[p] = paymentFor[p]
               /\ paymentFor[p] # r
    BY <2>1, <2>4 DEF Shape, Typed, LivePayments
  <2>6. paymentFor'[new] = r
    BY <2>1 DEF Shape, Typed
  <2> QED  BY <2>5, <2>6
<1>4. ASSUME NEW s \in Sessions, SessionStep(s), ~OpenAttempt(s)
      PROVE  OneLiveAttempt'
  BY <1>1, <1>4 DEF SessionStep, ReadForExtension, ExtendReservation, ExtendRows,
      ReuseAttempt, ServiceOpensSession, ServiceRejects, FailIfPending,
      PublishSession, AbortSession, EndSession, Shape, Typed
<1>5. ASSUME NEW h \in Handlers,
             \/ \E e \in Events : ClaimEvent(h, e) \/ TakeOverEvent(h, e)
             \/ TimeOutDelivery(h)
             \/ LoseDelivery(h)
      PROVE  OneLiveAttempt'
  BY <1>5 DEF ClaimEvent, TakeOverEvent, TimeOutDelivery, LoseDelivery
<1>6. ASSUME NEW h \in Handlers, Decide(h)
      PROVE  OneLiveAttempt'
  BY <1>1, <1>6 DEF Decide, RecordFailure, IgnoreFailure, AcknowledgeCaptured,
      RejectSuccess, RefundDuplicate, RefundLateSuccess, RefundNoInventory,
      captureForRefund, ConfirmFromHolds, ConfirmFromItems, markConfirmed, Shape, Typed
<1> QED  BY <1>2, <1>3, <1>4, <1>5, <1>6 DEF Next, CreateStep, JobStep

\* No two payments of a reservation are ever PENDING together, so the partial
\* unique index that enforces it in the database is never hit.
THEOREM AttemptsStayApart == Spec => []OneLiveAttempt
<1>1. Init => OneLiveAttempt
  BY DEF Init, OneLiveAttempt, NONE
<1> QED  BY <1>1, OneLiveStep, TypesKept, PTL DEF Spec

-----------------------------------------------------------------------------
(* Money.                                                                  *)

\* A confirmation finds nothing its reservation was paid with before: that is
\* what keeps the payment it was confirmed with from being forgotten.
MoneyInv ==
  /\ CapturedMoneyExplained
  /\ \A r \in Reservations : paidBy[r] # None => status[r] \in SoldStatuses

LEMMA MoneyStep == TypeInv /\ CreatingInv /\ MoneyInv /\ [Next]_vars => MoneyInv'
<1> USE DEF MoneyInv, CapturedMoneyExplained, reservationVars, bookingVars,
            paymentVars, PayingUnchanged
<1> SUFFICES ASSUME Shape, KnownPayments, CreatingInv, MoneyInv, [Next]_vars
             PROVE  MoneyInv'
  BY DEF TypeInv
<1>a. ASSUME UNCHANGED <<status, paymentVars, paidBy>>
      PROVE  MoneyInv'
  BY <1>a
<1>b. ASSUME \A r \in Reservations : status'[r] \in SoldStatuses
                                       <=> status[r] \in SoldStatuses,
             UNCHANGED <<paymentVars, paidBy>>
      PROVE  MoneyInv'
  BY <1>b
<1>1. CASE Tick /\ PayingUnchanged
  BY <1>1, <1>a DEF Tick
<1>2. CASE CreateStep
  <2>1. ASSUME NEW r \in Reservations, BeginCreate(r), PayingUnchanged
        PROVE  MoneyInv'
    BY <2>1, <1>a DEF BeginCreate
  <2>2. ASSUME NEW c \in creating, CommitCreate(c), PayingUnchanged
        PROVE  MoneyInv'
    BY <2>2, <1>b DEF CommitCreate, CreatingInv, Shape, Typed, SoldStatuses, NONE
  <2>3. ASSUME NEW c \in creating, RollBackCreate(c), PayingUnchanged
        PROVE  MoneyInv'
    BY <2>3, <1>a DEF RollBackCreate
  <2> QED  BY <1>2, <2>1, <2>2, <2>3 DEF CreateStep
<1>3. CASE JobStep
  <2>1. CASE (ScanExpiredHolds \/ ScanPastStays) /\ PayingUnchanged
    BY <2>1, <1>a DEF ScanExpiredHolds, ScanPastStays
  <2>2. ASSUME NEW r \in Reservations, PayingUnchanged,
               SkipExpiry(r) \/ CreditEarn(r) \/ SkipCompletion(r) \/ LoseCredit(r)
        PROVE  MoneyInv'
    BY <2>2, <1>a DEF SkipExpiry, CreditEarn, SkipCompletion, LoseCredit
  <2>3. ASSUME NEW r \in Reservations, ExpireReservation(r), PayingUnchanged
        PROVE  MoneyInv'
    BY <2>3, <1>b DEF ExpireReservation, StillExpirable, Shape, Typed, SoldStatuses
  <2>4. ASSUME NEW r \in Reservations, CompleteStay(r), PayingUnchanged
        PROVE  MoneyInv'
    BY <2>4, <1>b DEF CompleteStay, Shape, Typed, SoldStatuses
  <2> QED  BY <1>3, <2>1, <2>2, <2>3, <2>4 DEF JobStep
<1>4. ASSUME \A p \in Payments : \/ paymentStatus'[p] = paymentStatus[p]
                                 \/ /\ paymentStatus[p] # "CAPTURED"
                                    /\ paymentStatus'[p] # "CAPTURED",
             \A p \in Payments : paymentStatus[p] # NONE => paymentFor'[p] = paymentFor[p],
             UNCHANGED <<status, refundRequired, paidBy>>
      PROVE  MoneyInv'
  BY <1>4 DEF Shape, Typed, NONE
<1>5. ASSUME NEW s \in Sessions, SessionStep(s)
      PROVE  MoneyInv'
  <2>1. CASE OpenAttempt(s)
    <3>1. PICK old \in Retired(session[s].res), new \in Payments :
            /\ paymentStatus[new] = NONE
            /\ paymentStatus' = [p \in Payments |-> CASE p = new   -> "PENDING"
                                                      [] p \in old -> "FAILED"
                                                      [] OTHER     -> paymentStatus[p]]
            /\ paymentFor' = [paymentFor EXCEPT ![new] = session[s].res]
      BY <2>1 DEF OpenAttempt
    <3>2. \A p \in old : paymentStatus[p] = "PENDING"
      BY DEF Retired, Existing, LivePayments
    <3>3. UNCHANGED <<status, refundRequired, paidBy>>
      BY <2>1 DEF OpenAttempt
    <3> QED  BY <1>4, <3>1, <3>2, <3>3 DEF Shape, Typed, NONE
  <2>2. CASE ServiceRejects(s) \/ AbortSession(s)
    BY <1>4, <2>2 DEF ServiceRejects, AbortSession, FailIfPending, Shape, Typed
  <2>3. CASE ~(OpenAttempt(s) \/ ServiceRejects(s) \/ AbortSession(s))
    BY <1>a, <1>5, <2>3 DEF SessionStep, ReadForExtension, ExtendReservation,
        ExtendRows, ReuseAttempt, ServiceOpensSession, PublishSession, EndSession
  <2> QED  BY <2>1, <2>2, <2>3
<1>6. ASSUME NEW h \in Handlers,
             \/ \E e \in Events : ClaimEvent(h, e) \/ TakeOverEvent(h, e)
             \/ TimeOutDelivery(h)
             \/ LoseDelivery(h)
      PROVE  MoneyInv'
  BY <1>6, <1>a DEF ClaimEvent, TakeOverEvent, TimeOutDelivery, LoseDelivery
<1>7. ASSUME NEW h \in Handlers, Decide(h)
      PROVE  MoneyInv'
  <2>1. CASE RecordFailure(h)
    BY <1>4, <2>1 DEF RecordFailure, Shape, Typed
  <2>2. CASE IgnoreFailure(h) \/ AcknowledgeCaptured(h) \/ RejectSuccess(h)
    BY <1>a, <2>2 DEF IgnoreFailure, AcknowledgeCaptured, RejectSuccess
  <2>3. CASE captureForRefund(h)
    BY <2>3 DEF captureForRefund, Shape, Typed
  <2>4. CASE ConfirmFromHolds(h) \/ ConfirmFromItems(h)
    <3>1. /\ PaymentOf(h) \in Payments
          /\ ReservationOf(h) \in Reservations
      BY <2>4 DEF ConfirmFromHolds, ConfirmFromItems, Processing, Shape, Typed,
          KnownPayments, ReservationOf, PaymentOf, Events
    <3>2. PICK r \in Reservations, p \in Payments :
            r = ReservationOf(h) /\ p = PaymentOf(h) /\ paymentFor[p] = r
      BY <3>1 DEF ReservationOf
    <3>3. /\ status[r] \notin SoldStatuses
          /\ status' = [status EXCEPT ![r] = "CONFIRMED"]
          /\ paymentStatus' = [paymentStatus EXCEPT ![p] = "CAPTURED"]
          /\ paidBy' = [paidBy EXCEPT ![r] = p]
          /\ UNCHANGED <<paymentFor, refundRequired>>
      BY <2>4, <3>2 DEF ConfirmFromHolds, ConfirmFromItems, OnTime, Confirmable,
          markConfirmed, SoldStatuses
    <3>4. paidBy[r] = None /\ None \notin Payments
      BY <3>3, PaymentsAssumption
    <3> QED  BY <3>2, <3>3, <3>4 DEF Shape, Typed, SoldStatuses
  <2> QED  BY <1>7, <2>1, <2>2, <2>3, <2>4 DEF Decide, RefundDuplicate,
              RefundLateSuccess, RefundNoInventory
<1>8. CASE Restart
  BY <1>8, <1>a DEF Restart, StopBookingWork
<1>9. CASE UNCHANGED vars
  BY <1>9, <1>a DEF vars
<1> QED  BY <1>1, <1>2, <1>3, <1>5, <1>6, <1>7, <1>8, <1>9 DEF Next

\* A captured payment is the one its reservation was confirmed with or is marked
\* for refund, and a confirmed or completed stay has its captured payment: in
\* every order of attempts, failures, late successes and redeliveries.
THEOREM NoMoneyUnexplained == Spec => []CapturedMoneyExplained
<1>1. Init => MoneyInv
  BY DEF Init, BookingsInit, MoneyInv, CapturedMoneyExplained, SoldStatuses, NONE
<1>2. MoneyInv => CapturedMoneyExplained
  BY DEF MoneyInv
<1> QED  BY <1>1, <1>2, MoneyStep, TypesKept, CreatingCorrect, PTL
         DEF Spec

-----------------------------------------------------------------------------
(* Captured money stays captured, and is what a success is answered with.  *)

\* A retired or failed attempt was PENDING, a failure report spares what is
\* captured, and everything else leaves the payments alone or captures one.
LEMMA CapturedStep ==
  TypeInv /\ [Next]_vars =>
    \A p \in Payments : paymentStatus[p] = "CAPTURED" => paymentStatus'[p] = "CAPTURED"
<1> DEFINE Kept == \A p \in Payments :
                     paymentStatus[p] = "CAPTURED" => paymentStatus'[p] = "CAPTURED"
<1> USE DEF paymentVars, PayingUnchanged
<1> SUFFICES ASSUME Shape, [Next]_vars
             PROVE  Kept
  BY DEF TypeInv
<1>1. CASE UNCHANGED paymentStatus
  BY <1>1
<1>2. ASSUME NEW s \in Sessions, SessionStep(s)
      PROVE  Kept
  <2>1. CASE OpenAttempt(s)
    <3>1. PICK old \in Retired(session[s].res), new \in Payments :
            /\ paymentStatus[new] = NONE
            /\ paymentStatus' = [p \in Payments |-> CASE p = new   -> "PENDING"
                                                      [] p \in old -> "FAILED"
                                                      [] OTHER     -> paymentStatus[p]]
      BY <2>1 DEF OpenAttempt
    <3>2. \A p \in old : paymentStatus[p] = "PENDING"
      BY DEF Retired, Existing, LivePayments
    <3> QED  BY <3>1, <3>2 DEF NONE
  <2>2. CASE ServiceRejects(s) \/ AbortSession(s)
    BY <2>2 DEF ServiceRejects, AbortSession, FailIfPending, Shape, Typed
  <2>3. CASE ~(OpenAttempt(s) \/ ServiceRejects(s) \/ AbortSession(s))
    BY <1>1, <1>2, <2>3 DEF SessionStep, ReadForExtension, ExtendReservation,
        ExtendRows, ReuseAttempt, ServiceOpensSession, PublishSession, EndSession
  <2> QED  BY <2>1, <2>2, <2>3
<1>3. ASSUME NEW h \in Handlers, Decide(h)
      PROVE  Kept
  BY <1>3 DEF Decide, RecordFailure, IgnoreFailure, AcknowledgeCaptured,
      RejectSuccess, RefundDuplicate, RefundLateSuccess, RefundNoInventory,
      captureForRefund, ConfirmFromHolds, ConfirmFromItems, markConfirmed, Shape, Typed
<1>4. CASE \E h \in Handlers : \/ \E e \in Events : ClaimEvent(h, e) \/ TakeOverEvent(h, e)
                               \/ TimeOutDelivery(h)
                               \/ LoseDelivery(h)
  BY <1>1, <1>4 DEF ClaimEvent, TakeOverEvent, TimeOutDelivery, LoseDelivery
<1>5. CASE PayingUnchanged \/ Restart \/ UNCHANGED vars
  BY <1>1, <1>5 DEF Restart, vars
<1> QED  BY <1>2, <1>3, <1>4, <1>5 DEF Next, CreateStep, JobStep

\* Nothing the guest, the jobs or a late or repeated notification does takes a
\* captured payment back.
THEOREM MoneyBeatsFailures == Spec => CapturedStays
<1>1. TypeInv /\ [Next]_vars =>
        [\A p \in Payments :
           paymentStatus[p] = "CAPTURED" => paymentStatus'[p] = "CAPTURED"]_vars
  BY CapturedStep
<1> QED  BY <1>1, TypesKept, PTL DEF Spec, CapturedStays

\* A success is answered 200 or 202 only by a transaction that leaves its payment
\* captured.
AnsweredOnCapture(e) ==
  \/ webhook'[e].answer = webhook[e].answer
  \/ webhook'[e].answer \notin {200, 202}
  \/ e[2] # "SUCCESS"
  \/ paymentStatus'[e[1]] = "CAPTURED"

LEMMA AcceptanceStep ==
  TypeInv /\ [Next]_vars => \A e \in Events : AnsweredOnCapture(e)
<1> DEFINE Goal == \A e \in Events : AnsweredOnCapture(e)
<1> USE DEF AnsweredOnCapture, PayingUnchanged, webhookVars
<1> SUFFICES ASSUME Shape, KnownPayments, [Next]_vars
             PROVE  Goal
  BY DEF TypeInv
<1>1. \A p \in Payments : paymentStatus[p] = "CAPTURED" => paymentStatus'[p] = "CAPTURED"
  BY CapturedStep DEF TypeInv
<1>2. \A e \in Events : e[1] \in Payments
  BY DEF Events
<1>4. CASE UNCHANGED webhook
  BY <1>4
<1>5. ASSUME NEW h \in Handlers, NEW e \in Events, ClaimEvent(h, e)
      PROVE  Goal
  <2>1. \A d \in Events : webhook'[d].answer = IF d = e THEN 0 ELSE webhook[d].answer
    BY <1>5 DEF ClaimEvent, Shape, Typed
  <2> QED  BY <2>1
<1>6. ASSUME NEW h \in Handlers, Decide(h)
      PROVE  Goal
  <2> DEFINE e == delivery[h].event
  <2>1. delivery[h] # NoDelivery
    BY <1>6 DEF Decide, RecordFailure, IgnoreFailure, AcknowledgeCaptured, RejectSuccess,
        RefundDuplicate, RefundLateSuccess, RefundNoInventory, ConfirmFromHolds,
        ConfirmFromItems, Processing
  <2>2. e \in Events /\ e[1] \in Payments /\ PaymentOf(h) = e[1]
    BY <2>1, <1>2 DEF Shape, Typed, PaymentOf
  <2>3. ASSUME NEW code, StoreAnswer(h, code),
               \/ code \notin {200, 202}
               \/ e[2] # "SUCCESS"
               \/ paymentStatus'[e[1]] = "CAPTURED"
        PROVE  Goal
    <3>1. \A d \in Events : webhook'[d].answer = IF d = e THEN code ELSE webhook[d].answer
      BY <2>3 DEF StoreAnswer, Shape, Typed
    <3> QED  BY <2>3, <3>1
  <2>4. CASE RecordFailure(h) \/ IgnoreFailure(h)
    BY <2>3, <2>4 DEF RecordFailure, IgnoreFailure, Processing
  <2>5. CASE AcknowledgeCaptured(h)
    BY <1>1, <2>2, <2>3, <2>5 DEF AcknowledgeCaptured
  <2>6. CASE RejectSuccess(h)
    BY <2>3, <2>6 DEF RejectSuccess
  <2>7. CASE captureForRefund(h)
    BY <2>2, <2>3, <2>7 DEF captureForRefund, Shape, Typed
  <2>8. CASE ConfirmFromHolds(h) \/ ConfirmFromItems(h)
    BY <2>2, <2>3, <2>8 DEF ConfirmFromHolds, ConfirmFromItems, markConfirmed, Shape, Typed
  <2> QED  BY <1>6, <2>4, <2>5, <2>6, <2>7, <2>8 DEF Decide, RefundDuplicate,
              RefundLateSuccess, RefundNoInventory
<1>7. CASE \E h \in Handlers : \/ \E e \in Events : TakeOverEvent(h, e)
                               \/ TimeOutDelivery(h)
                               \/ LoseDelivery(h)
  BY <1>4, <1>7 DEF TakeOverEvent, TimeOutDelivery, LoseDelivery
<1>8. CASE \E s \in Sessions : SessionStep(s)
  BY <1>4, <1>8 DEF SessionStep, OpenAttempt, ServiceRejects, AbortSession, ReadForExtension,
      ExtendReservation, ExtendRows, ReuseAttempt, ServiceOpensSession, PublishSession,
      EndSession
<1>9. CASE PayingUnchanged \/ Restart \/ UNCHANGED vars
  BY <1>4, <1>9 DEF Restart, vars
<1> QED  BY <1>5, <1>6, <1>7, <1>8, <1>9 DEF Next, CreateStep, JobStep

LEMMA AcceptedStep ==
  TypeInv /\ AcceptedSuccessIsCaptured /\ [Next]_vars => AcceptedSuccessIsCaptured'
BY AcceptanceStep, CapturedStep DEF AcceptedSuccessIsCaptured, AnsweredOnCapture, TypeInv, Events

\* A success answered 200 or 202, to the first delivery or to a repeated one,
\* leaves its payment captured for good.
THEOREM AcceptedMeansCaptured == Spec => []AcceptedSuccessIsCaptured
<1>1. Init => AcceptedSuccessIsCaptured
  BY DEF Init, AcceptedSuccessIsCaptured, NoEvent, Events
<1> QED  BY <1>1, AcceptedStep, TypesKept, PTL DEF Spec
-----------------------------------------------------------------------------
(* The inventory row locks do their work: as long as no hold is used after *)
(* it has lapsed, no night is oversold.                                    *)
(*                                                                         *)
(* Each transaction counts the holds that live at the time it read the     *)
(* clock, which is never later than the present: what it finds free is     *)
(* free when it commits.  The two exceptions, an extension and the         *)
(* conversion of a hold, count nothing; they are safe exactly when the     *)
(* hold they work on is still counted.                                     *)

\* A notification is processed with a time that is not in the future.
ClocksRead == \A h \in Handlers : delivery[h].at <= now

LEMMA ClocksStep == TypeInv /\ ClocksRead /\ [Next]_vars => ClocksRead'
<1> USE DEF ClocksRead, bookingVars, webhookVars, PayingUnchanged
<1> SUFFICES ASSUME Shape, ClocksRead, [Next]_vars
             PROVE  ClocksRead'
  BY DEF TypeInv
<1>0. \A h \in Handlers : delivery[h].at \in Nat
  BY DEF Shape, Typed, NoDelivery
<1>1. CASE Tick /\ PayingUnchanged
  BY <1>0, <1>1 DEF Tick, Shape, Typed
<1>2. CASE CreateStep
  BY <1>2 DEF CreateStep, BeginCreate, CommitCreate, RollBackCreate
<1>3. CASE JobStep
  BY <1>3 DEF JobStep, ScanExpiredHolds, ExpireReservation, SkipExpiry,
      ScanPastStays, CompleteStay, CreditEarn, SkipCompletion, LoseCredit
<1>4. ASSUME NEW s \in Sessions, SessionStep(s)
      PROVE  ClocksRead'
  BY <1>4 DEF SessionStep, ReadForExtension, ExtendReservation, ExtendRows,
      ReuseAttempt, OpenAttempt, ServiceOpensSession, ServiceRejects,
      PublishSession, AbortSession, EndSession
<1>5. ASSUME NEW h \in Handlers,
             \/ delivery' = [delivery EXCEPT ![h] = NoDelivery]
             \/ \E e \in Events :
                  delivery' = [delivery EXCEPT ![h] = [event |-> e, at |-> now]],
             now' = now
      PROVE  ClocksRead'
  BY <1>5 DEF Shape, Typed, NoDelivery
<1>6. ASSUME NEW h \in Handlers,
             \/ \E e \in Events : ClaimEvent(h, e) \/ TakeOverEvent(h, e)
             \/ TimeOutDelivery(h)
             \/ LoseDelivery(h)
      PROVE  ClocksRead'
  BY <1>5, <1>6 DEF ClaimEvent, TakeOverEvent, TimeOutDelivery, LoseDelivery
<1>7. ASSUME NEW h \in Handlers, Decide(h)
      PROVE  ClocksRead'
  BY <1>5, <1>7 DEF Decide, RecordFailure, IgnoreFailure, AcknowledgeCaptured,
      RejectSuccess, RefundDuplicate, RefundLateSuccess, RefundNoInventory,
      captureForRefund, ConfirmFromHolds, ConfirmFromItems, markConfirmed, StoreAnswer
<1>8. CASE Restart
  BY <1>8 DEF Restart, StopBookingWork, Shape, Typed, NoDelivery
<1>9. CASE UNCHANGED vars
  BY <1>9 DEF vars
<1> QED  BY <1>1, <1>2, <1>3, <1>4, <1>6, <1>7, <1>8, <1>9 DEF Next

\* No clock a transaction has read is ahead of the present.
THEOREM ClocksCorrect == Spec => []ClocksRead
<1>1. Init => ClocksRead
  BY DEF Init, BookingsInit, ClocksRead, NoDelivery
<1> QED  BY <1>1, ClocksStep, TypesKept, PTL DEF Spec

-----------------------------------------------------------------------------
\* Counting later counts no more holds.
LEMMA HoldingShrinks ==
  ASSUME Shape, NEW n \in Nights, NEW t \in Nat, t <= now
  PROVE  /\ Holding(n, now) \in SUBSET Holding(n, t)
         /\ Holding(n, t) \in SUBSET Reservations
BY DEF Holding, Shape, Typed

\* With the same rooms sold and no hold more, a night that was not oversold
\* still is not.
LEMMA StillFree ==
  ASSUME Shape, NEW n \in Nights, computeFreeRooms(n, now) >= 0,
         soldRooms'[n] = soldRooms[n],
         Holding(n, now)' \subseteq Holding(n, now)
  PROVE  computeFreeRooms(n, now)' >= 0
<1> DEFINE H == Holding(n, now)
           G == Holding(n, now)'
<1>1. H \in SUBSET Reservations /\ G \in SUBSET H
  BY DEF Holding
<1>2. /\ Cardinality(RoomsOf(G)) \in Nat
      /\ Cardinality(RoomsOf(H)) \in Nat
      /\ Cardinality(RoomsOf(G)) <= Cardinality(RoomsOf(H))
  <2> HIDE DEF H, G
  <2> QED  BY <1>1, RoomsOfFewer
<1>3. /\ computeFreeRooms(n, now) = Sellable[n] - soldRooms[n] - Cardinality(RoomsOf(H))
      /\ computeFreeRooms(n, now)' = Sellable[n] - soldRooms'[n] - Cardinality(RoomsOf(G))
  BY DEF computeFreeRooms, activeHoldQuantity
<1>4. Sellable[n] \in Nat /\ soldRooms[n] \in Nat
  BY BookingsAssumption DEF Shape, Typed
<1> HIDE DEF H, G
<1> QED  BY <1>2, <1>3, <1>4

\* What a transaction finds free at a time already past, it can take: as rooms
\* held (gain is r), or as rooms sold.
LEMMA FreeToHold ==
  ASSUME Shape, NEW n \in Nights, NEW r \in Reservations, NEW t \in Nat, t <= now,
         computeFreeRooms(n, t) >= Quantity[r], r \notin Holding(n, t),
         soldRooms'[n] = soldRooms[n],
         Holding(n, now)' \subseteq Holding(n, t) \cup {r}
  PROVE  computeFreeRooms(n, now)' >= 0
<1> DEFINE H == Holding(n, t)
           G == Holding(n, now)'
<1>1. H \in SUBSET Reservations /\ G \in SUBSET (H \cup {r}) /\ r \notin H
  BY DEF Holding
<1>2. /\ Cardinality(RoomsOf(H)) \in Nat
      /\ Cardinality(RoomsOf(H \cup {r})) = Cardinality(RoomsOf(H)) + Quantity[r]
      /\ Cardinality(RoomsOf(G)) \in Nat
      /\ Cardinality(RoomsOf(G)) <= Cardinality(RoomsOf(H \cup {r}))
  <2> HIDE DEF H, G
  <2> QED  BY <1>1, RoomsOfFewer, RoomsOfMore
<1>3. /\ computeFreeRooms(n, t) = Sellable[n] - soldRooms[n] - Cardinality(RoomsOf(H))
      /\ computeFreeRooms(n, now)' = Sellable[n] - soldRooms'[n] - Cardinality(RoomsOf(G))
  BY DEF computeFreeRooms, activeHoldQuantity
<1>4. Sellable[n] \in Nat /\ soldRooms[n] \in Nat /\ Quantity[r] \in Nat
  BY BookingsAssumption, StaysAssumption DEF Shape, Typed
<1> HIDE DEF H, G
<1> QED  BY <1>2, <1>3, <1>4

LEMMA FreeToSell ==
  ASSUME Shape, NEW n \in Nights, NEW r \in Reservations, NEW t \in Nat, t <= now,
         computeFreeRooms(n, t) >= Quantity[r],
         soldRooms'[n] = soldRooms[n] + Quantity[r],
         Holding(n, now)' \subseteq Holding(n, t)
  PROVE  computeFreeRooms(n, now)' >= 0
<1> DEFINE H == Holding(n, t)
           G == Holding(n, now)'
<1>1. H \in SUBSET Reservations /\ G \in SUBSET H
  BY DEF Holding
<1>2. /\ Cardinality(RoomsOf(H)) \in Nat
      /\ Cardinality(RoomsOf(G)) \in Nat
      /\ Cardinality(RoomsOf(G)) <= Cardinality(RoomsOf(H))
  <2> HIDE DEF H, G
  <2> QED  BY <1>1, RoomsOfFewer
<1>3. /\ computeFreeRooms(n, t) = Sellable[n] - soldRooms[n] - Cardinality(RoomsOf(H))
      /\ computeFreeRooms(n, now)' = Sellable[n] - soldRooms'[n] - Cardinality(RoomsOf(G))
  BY DEF computeFreeRooms, activeHoldQuantity
<1>4. Sellable[n] \in Nat /\ soldRooms[n] \in Nat /\ Quantity[r] \in Nat
  BY BookingsAssumption, StaysAssumption DEF Shape, Typed
<1> HIDE DEF H, G
<1> QED  BY <1>2, <1>3, <1>4

\* A live hold that is sold makes room for itself.
LEMMA HeldToSell ==
  ASSUME Shape, NEW n \in Nights, NEW r \in Reservations,
         computeFreeRooms(n, now) >= 0, r \in Holding(n, now),
         soldRooms'[n] = soldRooms[n] + Quantity[r],
         Holding(n, now)' \subseteq Holding(n, now) \ {r}
  PROVE  computeFreeRooms(n, now)' >= 0
<1> DEFINE H == Holding(n, now) \ {r}
           G == Holding(n, now)'
<1>1. H \in SUBSET Reservations /\ G \in SUBSET H /\ r \notin H
  BY DEF Holding
<1>2. /\ Cardinality(RoomsOf(H)) \in Nat
      /\ Cardinality(RoomsOf(H \cup {r})) = Cardinality(RoomsOf(H)) + Quantity[r]
      /\ Cardinality(RoomsOf(G)) \in Nat
      /\ Cardinality(RoomsOf(G)) <= Cardinality(RoomsOf(H))
  <2> HIDE DEF H, G
  <2> QED  BY <1>1, RoomsOfFewer, RoomsOfMore
<1>3. Holding(n, now) = H \cup {r}
  OBVIOUS
<1>4. /\ computeFreeRooms(n, now)
           = Sellable[n] - soldRooms[n] - Cardinality(RoomsOf(H \cup {r}))
      /\ computeFreeRooms(n, now)' = Sellable[n] - soldRooms'[n] - Cardinality(RoomsOf(G))
  BY <1>3 DEF computeFreeRooms, activeHoldQuantity
<1>5. Sellable[n] \in Nat /\ soldRooms[n] \in Nat /\ Quantity[r] \in Nat
  BY BookingsAssumption, StaysAssumption DEF Shape, Typed
<1> HIDE DEF H, G
<1> QED  BY <1>2, <1>4, <1>5

-----------------------------------------------------------------------------
\* An extension that does not revive a lapsed hold changes nothing that counts.
LEMMA ExtensionKeepsHoldings ==
  ASSUME Shape, NEW s \in Sessions, ExtendRows(s), lapsedHoldUsed' = {},
         NEW n \in Nights
  PROVE  Holding(n, now)' \subseteq Holding(n, now)
<1> DEFINE r == session[s].res
<1>1. session[s] \in Extending
  BY DEF ExtendRows, Shape, Typed, Request, Extending, Preparing, Paying, Idle
<1>2. r \in Reservations /\ session[s].until \in Nat
  BY <1>1 DEF Extending
<1>3. ~(HoldLapsed(r) /\ session[s].until > now)
  BY DEF ExtendRows
<1>4. /\ rowsExpireAt' =
           [rowsExpireAt EXCEPT ![r] = IF @ = 0 THEN 0 ELSE session[s].until]
      /\ UNCHANGED <<now, status>>
  BY DEF ExtendRows
<1>5. \A x \in Reservations : rowsExpireAt'[x] > now => rowsExpireAt[x] > now
  BY <1>2, <1>3, <1>4 DEF HoldLapsed, Shape, Typed
<1> QED  BY <1>4, <1>5 DEF Holding

LEMMA OversellingStep ==
  TypeInv /\ CreatingInv /\ ClocksRead /\ OversellingNeedsLapsedHold /\ [Next]_vars
    => OversellingNeedsLapsedHold'
<1> USE DEF reservationVars, bookingVars, PayingUnchanged
<1> SUFFICES ASSUME Shape, KnownPayments, CreatingInv, ClocksRead,
                    OversellingNeedsLapsedHold, [Next]_vars,
                    lapsedHoldUsed' = {}, NEW n \in Nights
             PROVE  computeFreeRooms(n, now)' >= 0
  BY DEF TypeInv, OversellingNeedsLapsedHold, NoOverselling, computeFreeRooms,
         activeHoldQuantity, Holding, RoomsOf
<1>0. ASSUME lapsedHoldUsed = {}
      PROVE  computeFreeRooms(n, now) >= 0
  BY <1>0 DEF OversellingNeedsLapsedHold, NoOverselling
<1>a. ASSUME UNCHANGED <<now, status, rowsExpireAt, soldRooms, lapsedHoldUsed>>
      PROVE  computeFreeRooms(n, now)' >= 0
  BY <1>0, <1>a, StillFree DEF Holding
<1>b. now \in Nat
  BY DEF Shape, Typed
<1>1. CASE Tick /\ PayingUnchanged
  <2>1. Holding(n, now)' \subseteq Holding(n, now)
    BY <1>1 DEF Tick, Holding, Shape, Typed
  <2> QED  BY <1>0, <1>1, <2>1, StillFree DEF Tick
<1>2. ASSUME NEW r \in Reservations, BeginCreate(r)
      PROVE  computeFreeRooms(n, now)' >= 0
  BY <1>2, <1>a DEF BeginCreate
<1>3. ASSUME NEW c \in creating, CommitCreate(c)
      PROVE  computeFreeRooms(n, now)' >= 0
  <2>1. /\ c.res \in Reservations
        /\ c.at \in Nat /\ c.at <= now
        /\ status[c.res] = NONE
    BY DEF Shape, Typed, CreatingInv
  <2>2. /\ status' = [status EXCEPT ![c.res] = "PAYMENT_PENDING"]
        /\ rowsExpireAt' = [rowsExpireAt EXCEPT ![c.res] = c.at + HoldTTL]
        /\ UNCHANGED <<now, soldRooms, lapsedHoldUsed>>
        /\ Available(c.res, c.at)
    BY <1>3 DEF CommitCreate
  <2>3. CASE n \in Stay[c.res]
    <3>1. computeFreeRooms(n, c.at) >= Quantity[c.res]
      BY <2>2, <2>3 DEF Available
    <3>2. c.res \notin Holding(n, c.at)
      BY <2>1 DEF Holding, HOLDING_STATUSES, NONE
    <3>3. Holding(n, now)' \subseteq Holding(n, now) \cup {c.res}
      BY <2>1, <2>2 DEF Holding, Shape, Typed
    <3>4. Holding(n, now)' \subseteq Holding(n, c.at) \cup {c.res}
      BY <2>1, <3>3, HoldingShrinks
    <3> QED  BY <2>1, <2>2, <3>1, <3>2, <3>4, FreeToHold
  <2>4. CASE n \notin Stay[c.res]
    <3>1. Holding(n, now)' \subseteq Holding(n, now)
      BY <2>1, <2>2, <2>4 DEF Holding, Shape, Typed
    <3> QED  BY <1>0, <2>2, <3>1, StillFree
  <2> QED  BY <2>3, <2>4
<1>4. ASSUME NEW c \in creating, RollBackCreate(c)
      PROVE  computeFreeRooms(n, now)' >= 0
  BY <1>4, <1>a DEF RollBackCreate
<1>5. CASE JobStep
  <2>1. ASSUME NEW r \in Reservations, ExpireReservation(r) \/ CompleteStay(r)
        PROVE  computeFreeRooms(n, now)' >= 0
    <3>1. Holding(n, now)' \subseteq Holding(n, now)
      BY <2>1 DEF ExpireReservation, CompleteStay, StillExpirable, releaseHolds,
          Holding, HOLDING_STATUSES, Shape, Typed
    <3>2. soldRooms' = soldRooms /\ lapsedHoldUsed' = lapsedHoldUsed
      BY <2>1 DEF ExpireReservation, CompleteStay
    <3> QED  BY <1>0, <3>1, <3>2, StillFree
  <2>2. CASE ScanExpiredHolds \/ ScanPastStays
    BY <2>2, <1>a DEF ScanExpiredHolds, ScanPastStays
  <2>3. ASSUME NEW r \in Reservations,
               SkipExpiry(r) \/ CreditEarn(r) \/ SkipCompletion(r) \/ LoseCredit(r)
        PROVE  computeFreeRooms(n, now)' >= 0
    BY <2>3, <1>a DEF SkipExpiry, CreditEarn, SkipCompletion, LoseCredit
  <2> QED  BY <1>5, <2>1, <2>2, <2>3 DEF JobStep
<1>6. ASSUME NEW s \in Sessions, SessionStep(s)
      PROVE  computeFreeRooms(n, now)' >= 0
  <2>1. CASE ExtendRows(s)
    <3>1. lapsedHoldUsed = {} /\ soldRooms' = soldRooms
      BY <2>1 DEF ExtendRows
    <3> QED  BY <1>0, <2>1, <3>1, ExtensionKeepsHoldings, StillFree
  <2>2. CASE ~ExtendRows(s)
    BY <1>6, <2>2, <1>a DEF SessionStep, ReadForExtension, ExtendReservation,
        ReuseAttempt, OpenAttempt, ServiceOpensSession, ServiceRejects,
        PublishSession, AbortSession, EndSession
  <2> QED  BY <2>1, <2>2
<1>7. ASSUME NEW h \in Handlers,
             \/ \E e \in Events : ClaimEvent(h, e) \/ TakeOverEvent(h, e)
             \/ TimeOutDelivery(h)
             \/ LoseDelivery(h)
      PROVE  computeFreeRooms(n, now)' >= 0
  BY <1>7, <1>a DEF ClaimEvent, TakeOverEvent, TimeOutDelivery, LoseDelivery
<1>8. ASSUME NEW h \in Handlers, ConfirmFromHolds(h) \/ ConfirmFromItems(h)
      PROVE  computeFreeRooms(n, now)' >= 0
  <2>1. ReservationOf(h) \in Reservations
    BY <1>8 DEF ConfirmFromHolds, ConfirmFromItems, Processing, Shape, Typed,
        KnownPayments, ReservationOf, PaymentOf, Events
  <2>2. PICK r \in Reservations : r = ReservationOf(h)
    BY <2>1
  <2>3. /\ status' = [status EXCEPT ![r] = "CONFIRMED"]
        /\ sellRooms(r)
        /\ releaseHolds(r)
        /\ now' = now
    BY <1>8, <2>2 DEF ConfirmFromHolds, ConfirmFromItems, markConfirmed
  <2>4. Holding(n, now)' \subseteq Holding(n, now) \ {r}
    BY <2>3 DEF releaseHolds, Holding, HOLDING_STATUSES, Shape, Typed
  <2>5. lapsedHoldUsed = {}
    BY <1>8 DEF ConfirmFromHolds, ConfirmFromItems
  <2>6. CASE n \notin Stay[r]
    BY <1>0, <2>3, <2>4, <2>5, <2>6, StillFree DEF sellRooms
  <2>7. CASE n \in Stay[r] /\ ConfirmFromHolds(h)
    <3>1. /\ status[r] = "PAYMENT_PENDING"
          /\ rowsExpireAt[r] # 0
          /\ ~HoldLapsed(r)
      BY <2>2, <2>7 DEF ConfirmFromHolds, OnTime
    <3>2. r \in Holding(n, now)
      BY <2>7, <3>1 DEF HoldLapsed, Holding, HOLDING_STATUSES, Shape, Typed
    <3>3. soldRooms'[n] = soldRooms[n] + Quantity[r]
      BY <2>3, <2>7 DEF sellRooms
    <3> QED  BY <1>0, <2>4, <2>5, <3>2, <3>3, HeldToSell
  <2>8. CASE n \in Stay[r] /\ ConfirmFromItems(h)
    <3> DEFINE t == delivery[h].at
    <3>1. t \in Nat /\ t <= now
      BY DEF Shape, Typed, NoDelivery, ClocksRead
    <3>2. computeFreeRooms(n, t) >= Quantity[r]
      BY <2>2, <2>8 DEF ConfirmFromItems, Available
    <3>3. Holding(n, now)' \subseteq Holding(n, t)
      BY <2>4, <3>1, HoldingShrinks
    <3>4. soldRooms'[n] = soldRooms[n] + Quantity[r]
      BY <2>3, <2>8 DEF sellRooms
    <3> HIDE DEF t
    <3> QED  BY <3>1, <3>2, <3>3, <3>4, FreeToSell
  <2> QED  BY <1>8, <2>6, <2>7, <2>8
<1>9. ASSUME NEW h \in Handlers, Decide(h),
             ~(ConfirmFromHolds(h) \/ ConfirmFromItems(h))
      PROVE  computeFreeRooms(n, now)' >= 0
  BY <1>9, <1>a DEF Decide, RecordFailure, IgnoreFailure, AcknowledgeCaptured,
      RejectSuccess, RefundDuplicate, RefundLateSuccess, RefundNoInventory,
      captureForRefund
<1>10. CASE Restart
  BY <1>10, <1>a DEF Restart, StopBookingWork
<1>11. CASE UNCHANGED vars
  BY <1>11, <1>a DEF vars
<1> QED  BY <1>1, <1>2, <1>3, <1>4, <1>5, <1>6, <1>7, <1>8, <1>9, <1>10, <1>11
         DEF Next, CreateStep

LEMMA OversellingStart == Init => OversellingNeedsLapsedHold
<1> SUFFICES ASSUME Init, NEW n \in Nights
             PROVE  computeFreeRooms(n, now) >= 0
  BY DEF OversellingNeedsLapsedHold, NoOverselling
<1>1. Holding(n, now) = {}
  BY DEF Init, BookingsInit, Holding
<1>2. activeHoldQuantity(n, now) = 0
  BY <1>1, RoomsOfNone DEF activeHoldQuantity
<1> QED  BY <1>2, BookingsAssumption DEF Init, BookingsInit, computeFreeRooms

\* No night is oversold while every extension and every conversion found its
\* hold still counted: the two paths that count nothing are the only way to
\* sell a room twice.
THEOREM LocksPreventOverselling == Spec => []OversellingNeedsLapsedHold
BY OversellingStart, OversellingStep, TypesKept, CreatingCorrect, ClocksCorrect, PTL
DEF Spec


-----------------------------------------------------------------------------
(* What the rest of the code may do to a booking, a payment and an answer  *)
(* while an administrator is at work: all that the proofs about FrontDesk  *)
(* have to know of Next.                                                   *)

LEMMA StatusStep ==
  TypeInv /\ CreatingInv /\ [Next]_vars =>
    \A r \in Reservations :
      \/ status'[r] = status[r]
      \/ status[r] = NONE /\ status'[r] = "PAYMENT_PENDING"
      \/ status[r] = "PAYMENT_PENDING" /\ status'[r] = "EXPIRED"
      \/ status[r] \in {"PAYMENT_PENDING", "EXPIRED"} /\ status'[r] = "CONFIRMED"
      \/ status[r] = "CONFIRMED" /\ status'[r] = "COMPLETED"
<1> SUFFICES ASSUME TypeInv, CreatingInv, [Next]_vars
             PROVE  \A r \in Reservations :
                      \/ status'[r] = status[r]
                      \/ status[r] = NONE /\ status'[r] = "PAYMENT_PENDING"
                      \/ status[r] = "PAYMENT_PENDING" /\ status'[r] = "EXPIRED"
                      \/ /\ status[r] \in {"PAYMENT_PENDING", "EXPIRED"}
                         /\ status'[r] = "CONFIRMED"
                      \/ status[r] = "CONFIRMED" /\ status'[r] = "COMPLETED"
  OBVIOUS
<1>1. [Ledger!LedgerNext]_(Ledger!ledgerVars)
  BY LedgerSteps
<1> QED  BY <1>1 DEF TypeInv, Shape, Typed, Ledger!LedgerNext, Ledger!ledgerVars,
         Ledger!Place, Ledger!Expire, Ledger!Sell, Ledger!Complete, Ledger!NONE, NONE

\* A payment is created for a booking that waits for it, fails, or is captured:
\* for a booking it confirms, or to be refunded.  It never changes bookings.
PaymentMove(p) ==
  /\ \/ paymentStatus'[p] = paymentStatus[p]
     \/ /\ paymentStatus[p] = NONE
        /\ status[paymentFor'[p]] = "PAYMENT_PENDING"
        /\ paymentFor'[p] \in Reservations
        /\ paymentStatus'[p] = "PENDING"
     \/ paymentStatus[p] # NONE /\ paymentStatus'[p] = "FAILED"
     \/ /\ paymentStatus[p] # NONE
        /\ paymentStatus'[p] = "CAPTURED"
        /\ p \in refundRequired' \/ status'[paymentFor[p]] = "CONFIRMED"
  /\ paymentStatus[p] # NONE => paymentFor'[p] = paymentFor[p]

LEMMA PaymentStep ==
  TypeInv /\ [Next]_vars =>
    refundRequired \subseteq refundRequired' /\ \A p \in Payments : PaymentMove(p)
<1> DEFINE Moved == /\ refundRequired \subseteq refundRequired'
                    /\ \A p \in Payments : PaymentMove(p)
<1> USE DEF paymentVars, PayingUnchanged, PaymentMove
<1> SUFFICES ASSUME Shape, KnownPayments, [Next]_vars
             PROVE  Moved
  BY DEF TypeInv
<1>1. CASE UNCHANGED paymentVars
  BY <1>1
<1>2. ASSUME NEW s \in Sessions, SessionStep(s)
      PROVE  Moved
  <2>1. CASE OpenAttempt(s)
    <3>1. PICK old \in Retired(session[s].res), new \in Payments :
            /\ paymentStatus[new] = NONE
            /\ paymentStatus' = [p \in Payments |-> CASE p = new   -> "PENDING"
                                                      [] p \in old -> "FAILED"
                                                      [] OTHER     -> paymentStatus[p]]
            /\ paymentFor' = [paymentFor EXCEPT ![new] = session[s].res]
      BY <2>1 DEF OpenAttempt
    <3>2. \A p \in old : paymentStatus[p] = "PENDING"
      BY DEF Retired, Existing, LivePayments
    <3>3. /\ status[session[s].res] = "PAYMENT_PENDING"
          /\ UNCHANGED refundRequired
      BY <2>1 DEF OpenAttempt, isPayable
    <3>4. session[s].res \in Reservations
      BY <2>1 DEF OpenAttempt, Shape, Typed, Request, Extending, Preparing, Paying, Idle
    <3>a. paymentStatus'[new] = "PENDING"
      BY <3>1, <3>2 DEF NONE
    <3>b. paymentFor'[new] = session[s].res
      BY <3>1 DEF Shape, Typed
    <3>5. PaymentMove(new)
      BY <3>1, <3>3, <3>4, <3>a, <3>b
    <3>6. \A p \in Payments \ {new} : PaymentMove(p)
      BY <3>1, <3>2 DEF NONE, Shape, Typed
    <3> QED  BY <3>3, <3>5, <3>6
  <2>2. CASE ServiceRejects(s) \/ AbortSession(s)
    BY <2>2 DEF ServiceRejects, AbortSession, FailIfPending, Shape, Typed, NONE
  <2>3. CASE ~(OpenAttempt(s) \/ ServiceRejects(s) \/ AbortSession(s))
    BY <1>1, <1>2, <2>3 DEF SessionStep, ReadForExtension, ExtendReservation,
        ExtendRows, ReuseAttempt, ServiceOpensSession, PublishSession, EndSession
  <2> QED  BY <2>1, <2>2, <2>3
<1>3. ASSUME NEW h \in Handlers, Decide(h)
      PROVE  Moved
  <2>1. /\ PaymentOf(h) \in Payments
        /\ ReservationOf(h) \in Reservations
        /\ paymentStatus[PaymentOf(h)] # NONE
    BY <1>3 DEF Decide, RecordFailure, IgnoreFailure, AcknowledgeCaptured, RejectSuccess,
        RefundDuplicate, RefundLateSuccess, RefundNoInventory, ConfirmFromHolds,
        ConfirmFromItems, Processing, Shape, Typed, KnownPayments, ReservationOf,
        PaymentOf, Events
  <2>2. CASE RecordFailure(h)
    BY <2>1, <2>2 DEF RecordFailure, Shape, Typed
  <2>3. CASE IgnoreFailure(h) \/ AcknowledgeCaptured(h) \/ RejectSuccess(h)
    BY <1>1, <2>3 DEF IgnoreFailure, AcknowledgeCaptured, RejectSuccess
  <2>4. CASE captureForRefund(h)
    BY <2>1, <2>4 DEF captureForRefund, Shape, Typed
  <2>5. CASE ConfirmFromHolds(h) \/ ConfirmFromItems(h)
    <3>1. PICK r \in Reservations, p \in Payments :
            r = ReservationOf(h) /\ p = PaymentOf(h) /\ paymentFor[p] = r
      BY <2>1 DEF ReservationOf
    <3>2. /\ status' = [status EXCEPT ![r] = "CONFIRMED"]
          /\ paymentStatus' = [paymentStatus EXCEPT ![p] = "CAPTURED"]
          /\ UNCHANGED <<paymentFor, refundRequired>>
      BY <2>5, <3>1 DEF ConfirmFromHolds, ConfirmFromItems, markConfirmed
    <3>3. status'[r] = "CONFIRMED"
      BY <3>2 DEF Shape, Typed
    <3>4. PaymentMove(p)
      BY <2>1, <3>1, <3>2, <3>3 DEF Shape, Typed
    <3>5. \A q \in Payments \ {p} : PaymentMove(q)
      BY <3>2 DEF Shape, Typed
    <3> QED  BY <3>2, <3>4, <3>5
  <2> QED  BY <1>3, <2>2, <2>3, <2>4, <2>5 DEF Decide, RefundDuplicate,
              RefundLateSuccess, RefundNoInventory
<1>4. CASE \E h \in Handlers : \/ \E e \in Events : ClaimEvent(h, e) \/ TakeOverEvent(h, e)
                               \/ TimeOutDelivery(h)
                               \/ LoseDelivery(h)
  BY <1>1, <1>4 DEF ClaimEvent, TakeOverEvent, TimeOutDelivery, LoseDelivery
<1>5. CASE PayingUnchanged \/ Restart \/ UNCHANGED vars
  BY <1>1, <1>5 DEF Restart, vars
<1> QED  BY <1>2, <1>3, <1>4, <1>5 DEF Next, CreateStep, JobStep

\* A success is turned away only from a booking that is over.
Turned(e) == e[2] = "SUCCESS" /\ webhook[e].answer = 422

StillOpen == {"PAYMENT_PENDING", "EXPIRED", "CONFIRMED"}

\* An event has an answer only once it has arrived.
AnswersArrive == \A e \in Events : webhook[e].answer # 0 => webhook[e].state # "ABSENT"

LEMMA AnswerStep ==
  TypeInv /\ AnswersArrive /\ [Next]_vars =>
    /\ AnswersArrive'
    /\ \A e \in Events :
         Turned(e)' => \/ Turned(e)
                       \/ /\ UNCHANGED <<status, paymentFor>>
                          /\ status[paymentFor[e[1]]] \notin StillOpen
<1> DEFINE Answered ==
      \A e \in Events :
        /\ webhook'[e].answer # 0 => webhook'[e].state # "ABSENT"
        /\ e[2] = "SUCCESS" /\ webhook'[e].answer = 422 =>
             \/ webhook[e].answer = 422
             \/ /\ UNCHANGED <<status, paymentFor>>
                /\ status[paymentFor[e[1]]] \notin StillOpen
<1> USE DEF PayingUnchanged, webhookVars
<1> SUFFICES ASSUME Shape, KnownPayments, AnswersArrive, [Next]_vars
             PROVE  Answered
  BY DEF TypeInv, Turned, AnswersArrive
<1>1. CASE UNCHANGED webhook
  BY <1>1 DEF AnswersArrive
<1>2. ASSUME NEW h \in Handlers, NEW e \in Events, ClaimEvent(h, e)
      PROVE  Answered
  <2>1. \A d \in Events : webhook'[d] = IF d = e THEN [state |-> "PROCESSING",
                                                       receivedAt |-> now, answer |-> 0]
                                                 ELSE webhook[d]
    BY <1>2 DEF ClaimEvent, Shape, Typed
  <2> QED  BY <2>1 DEF AnswersArrive
<1>3. ASSUME NEW h \in Handlers, Decide(h)
      PROVE  Answered
  <2> DEFINE e == delivery[h].event
  <2>1. ASSUME NEW code, StoreAnswer(h, code),
               \/ code # 422
               \/ /\ UNCHANGED <<status, paymentFor>>
                  /\ status[paymentFor[e[1]]] \notin StillOpen
        PROVE  Answered
    <3>1. \A d \in Events : webhook'[d] = IF d = e THEN [state |-> "ANSWERED",
                                                         receivedAt |-> 0, answer |-> code]
                                                   ELSE webhook[d]
      BY <2>1 DEF StoreAnswer, Shape, Typed
    <3> QED  BY <2>1, <3>1 DEF AnswersArrive
  <2>2. CASE RejectSuccess(h)
    <3>1. /\ UNCHANGED <<status, paymentFor>>
          /\ status[paymentFor[e[1]]] \notin StillOpen
          /\ StoreAnswer(h, 422)
      BY <2>2 DEF RejectSuccess, Confirmable, StillOpen, ReservationOf, PaymentOf,
          bookingVars, reservationVars, paymentVars
    <3> QED  BY <2>1, <3>1
  <2>3. CASE ~RejectSuccess(h)
    <3>1. StoreAnswer(h, 200) \/ StoreAnswer(h, 202)
      BY <1>3, <2>3 DEF Decide, RecordFailure, IgnoreFailure, AcknowledgeCaptured,
          RefundDuplicate, RefundLateSuccess, RefundNoInventory, captureForRefund,
          ConfirmFromHolds, ConfirmFromItems, markConfirmed
    <3> QED  BY <2>1, <3>1
  <2> QED  BY <2>2, <2>3
<1>4. CASE \E h \in Handlers : \/ \E e \in Events : TakeOverEvent(h, e)
                               \/ TimeOutDelivery(h)
                               \/ LoseDelivery(h)
  BY <1>1, <1>4 DEF TakeOverEvent, TimeOutDelivery, LoseDelivery
<1>5. CASE \E s \in Sessions : SessionStep(s)
  BY <1>1, <1>5 DEF SessionStep, OpenAttempt, ServiceRejects, AbortSession, ReadForExtension,
      ExtendReservation, ExtendRows, ReuseAttempt, ServiceOpensSession, PublishSession,
      EndSession
<1>6. CASE PayingUnchanged \/ Restart \/ UNCHANGED vars
  BY <1>1, <1>6 DEF Restart, vars
<1> QED  BY <1>2, <1>3, <1>4, <1>5, <1>6 DEF Next, CreateStep, JobStep

-----------------------------------------------------------------------------
(* The administrator (FrontDesk).  First what holds whatever views are      *)
(* outdated: the types, what a task was checked for when its booking was    *)
(* read, and that rows named by other rows are there.                       *)

\* What there can be left of a booking's payments, when it is read.
Lefts == (UNION { [S -> Int] : S \in SUBSET Payments }) \cup { << >> }

Views == [status : AnyStatus, left : Lefts]

Operations ==
  {"accept", "cancel", "refund", "noShow", "complete", "credit", "remove",
   "cancelOnly", "cancelThenDelete", "delete"}

Tasks == [op : Operations, res : Reservations, saw : Views]

DeskTyped ==
  /\ desk \in [Clerks -> Tasks \cup {NoTask}]
  /\ refunded \in [Payments -> Nat]
  /\ noShows \subseteq Reservations
  /\ waived \subseteq Payments

\* What was checked before a task was taken on: of the booking it read, and of
\* the payments it read.
Sound(t) ==
  /\ t.op = "accept" => t.saw.status = "PAYMENT_PENDING"
  /\ t.op \in {"cancel", "cancelOnly", "cancelThenDelete"}
       => canTransition(t.saw.status, "CANCELLED")
  /\ t.op = "noShow" => canTransition(t.saw.status, "NO_SHOW")
  /\ \A p \in DOMAIN t.saw.left : paymentStatus[p] # NONE

TasksAreSound == \A c \in Clerks : Sound(desk[c])

\* A payment is for a booking that was made.
PaidForPlaced ==
  \A p \in Payments : paymentStatus[p] # NONE => status[paymentFor[p]] # NONE

DeskInv ==
  /\ TypeInv
  /\ CreatingInv
  /\ ClocksRead
  /\ DeskTyped
  /\ TasksAreSound
  /\ PaidForPlaced
  /\ AnswersArrive

LEMMA LeftFacts ==
  ASSUME NEW l \in Lefts
  PROVE  /\ DOMAIN l \subseteq Payments
         /\ \A p \in DOMAIN l : l[p] \in Int
<1>1. CASE l = << >>
  <2>1. DOMAIN l = {}
    BY <1>1
  <2> QED  BY <2>1
<1>2. ASSUME NEW S \in SUBSET Payments, l \in [S -> Int]
      PROVE  /\ DOMAIN l \subseteq Payments
             /\ \A p \in DOMAIN l : l[p] \in Int
  BY <1>2
<1> QED  BY <1>1, <1>2 DEF Lefts

\* What is read of a booking.
LEMMA ViewFacts ==
  ASSUME TypeInv, DeskTyped, NEW r \in Reservations
  PROVE  /\ View(r) \in Views
         /\ View(r).status = status[r]
         /\ DOMAIN View(r).left = { q \in Payments : /\ paymentFor[q] = r
                                                     /\ paymentStatus[q] \in Refundable }
         /\ \A p \in DOMAIN View(r).left : View(r).left[p] = Price - refunded[p]
<1> DEFINE S == { q \in Payments : paymentFor[q] = r /\ paymentStatus[q] \in Refundable }
           l == [p \in S |-> Price - refunded[p]]
<1>1. View(r) = [status |-> status[r], left |-> l]
  BY DEF View
<1>2. \A p \in S : Price - refunded[p] \in Int
  BY DeskAssumption DEF DeskTyped
<1>3. l \in [S -> Int] /\ S \in SUBSET Payments
  BY <1>2
<1>4. l \in Lefts
  BY <1>3 DEF Lefts
<1>5. status[r] \in AnyStatus
  BY DEF TypeInv, Shape, Typed
<1> QED  BY <1>1, <1>4, <1>5 DEF Views

\* A task that was taken on.
LEMMA TaskFacts ==
  ASSUME DeskTyped, NEW c \in Clerks, desk[c] # NoTask
  PROVE  /\ desk[c] \in Tasks
         /\ desk[c].res \in Reservations
         /\ desk[c].saw \in Views
         /\ DOMAIN desk[c].saw.left \subseteq Payments
         /\ \A p \in DOMAIN desk[c].saw.left : desk[c].saw.left[p] \in Int
<1>1. desk[c] \in Tasks
  BY DEF DeskTyped
<1>2. desk[c].res \in Reservations /\ desk[c].saw \in Views
  BY <1>1 DEF Tasks
<1>3. desk[c].saw.left \in Lefts
  BY <1>2 DEF Views
<1> QED  BY <1>1, <1>2, <1>3, LeftFacts

\* Reading a booking and taking on a task it passes the checks of.
LEMMA TakenOn ==
  ASSUME DeskInv, NEW r \in Reservations, NEW operation \in Operations,
         operation = "accept" => status[r] = "PAYMENT_PENDING",
         operation \in {"cancel", "cancelOnly", "cancelThenDelete"}
           => canTransition(status[r], "CANCELLED"),
         operation = "noShow" => canTransition(status[r], "NO_SHOW")
  PROVE  /\ Task(operation, r, View(r)) \in Tasks
         /\ Sound(Task(operation, r, View(r)))
<1>1. /\ View(r) \in Views
      /\ View(r).status = status[r]
      /\ DOMAIN View(r).left = { q \in Payments : /\ paymentFor[q] = r
                                                  /\ paymentStatus[q] \in Refundable }
  BY ViewFacts DEF DeskInv
<1>2. Task(operation, r, View(r)) \in Tasks
  BY <1>1 DEF Task, Tasks
<1>3. \A p \in DOMAIN View(r).left : paymentStatus[p] # NONE
  BY <1>1 DEF Refundable, NONE
<1>4. Sound(Task(operation, r, View(r)))
  BY <1>1, <1>3 DEF Task, Sound
<1> QED  BY <1>2, <1>4

LEMMA NothingTaken == NoTask.op = "none" /\ DOMAIN NoTask.saw.left = {} /\ Sound(NoTask)
<1>1. NoTask.op = "none" /\ NoTask.saw.left = << >>
  BY DEF NoTask, Task, NoView
<1>2. DOMAIN NoTask.saw.left = {}
  BY <1>1
<1> QED  BY <1>1, <1>2 DEF Sound

\* What becomes of a clerk's task: every step leaves a sound one.
LEMMA TaskStep ==
  ASSUME DeskInv, NEW c \in Clerks, DeskStep(c)
  PROVE  \E t \in Tasks \cup {NoTask} : desk' = [desk EXCEPT ![c] = t] /\ Sound(t)
<1> DEFINE Goal == \E t \in Tasks \cup {NoTask} :
                     desk' = [desk EXCEPT ![c] = t] /\ Sound(t)
<1>a. ASSUME desk' = [desk EXCEPT ![c] = NoTask] PROVE Goal
  BY <1>a, NothingTaken
<1>b. ASSUME desk[c] # NoTask, desk' = [desk EXCEPT ![c] = [desk[c] EXCEPT !.op = "delete"]]
      PROVE  Goal
  <2>1. desk[c] \in Tasks /\ Sound(desk[c])
    BY <1>b, TaskFacts DEF DeskInv, TasksAreSound
  <2> DEFINE t == [desk[c] EXCEPT !.op = "delete"]
  <2>2. t \in Tasks /\ t.op = "delete" /\ t.saw = desk[c].saw
    BY <2>1 DEF Tasks, Operations
  <2>3. Sound(t)
    BY <2>1, <2>2 DEF Sound
  <2> QED  BY <1>b, <2>2, <2>3
<1>c. ASSUME NEW r \in Reservations, NEW operation \in Operations,
             operation = "accept" => status[r] = "PAYMENT_PENDING",
             operation \in {"cancel", "cancelOnly", "cancelThenDelete"}
               => canTransition(status[r], "CANCELLED"),
             operation = "noShow" => canTransition(status[r], "NO_SHOW"),
             desk' = [desk EXCEPT ![c] = Task(operation, r, View(r))]
      PROVE  Goal
  <2>1. Task(operation, r, View(r)) \in Tasks /\ Sound(Task(operation, r, View(r)))
    BY <1>c, TakenOn
  <2> QED  BY <1>c, <2>1
<1>d. ASSUME NEW operation, Doing(c, operation), operation # "none"
      PROVE  desk[c] # NoTask /\ desk[c].res \in Reservations
  BY <1>d, NothingTaken, TaskFacts DEF Doing, DeskInv
<1>1. ASSUME NEW r \in Reservations, NEW operation \in OperationsOn(r), Look(c, r, operation)
      PROVE  Goal
  <2>1. operation \in Operations
    BY DEF OperationsOn, Operations
  <2>2. /\ operation = "accept" => status[r] = "PAYMENT_PENDING"
        /\ operation \in {"cancel", "cancelOnly", "cancelThenDelete"}
             => canTransition(status[r], "CANCELLED")
        /\ operation = "noShow" => canTransition(status[r], "NO_SHOW")
    BY DEF OperationsOn
  <2> QED  BY <1>1, <1>c, <2>1, <2>2 DEF Look
<1>2. CASE Abandon(c) \/ Accept(c) \/ RefundPayment(c) \/ MarkNoShow(c) \/ Credit(c) \/ Delete(c)
  BY <1>2, <1>a DEF Abandon, Accept, RefundPayment, MarkNoShow, Credit, Delete, Finish
<1>3. CASE Cancel(c)
  <2>1. CASE Doing(c, "cancelThenDelete") /\ Finish(c, [desk[c] EXCEPT !.op = "delete"])
    BY <2>1, <1>b, <1>d DEF Finish
  <2>2. CASE Finish(c, NoTask)
    BY <2>2, <1>a DEF Finish
  <2> QED  BY <1>3, <2>1, <2>2 DEF Cancel
<1>4. CASE Complete(c)
  <2>1. desk[c].res \in Reservations
    BY <1>4, <1>d DEF Complete
  <2> DEFINE t == Task("credit", desk[c].res, NoView)
  <2>2. NONE \in AnyStatus /\ << >> \in Lefts
    BY DEF AnyStatus, Lefts
  <2>3. t \in Tasks
    BY <2>1, <2>2 DEF Task, Tasks, Views, NoView, Operations
  <2>4. t.op = "credit" /\ t.saw.left = << >>
    BY DEF Task, NoView
  <2>5. DOMAIN t.saw.left = {}
    BY <2>4
  <2>6. Sound(t)
    BY <2>4, <2>5 DEF Sound
  <2> QED  BY <1>4, <2>3, <2>6 DEF Complete
<1>5. CASE Remove(c)
  <2> DEFINE r == desk[c].res
             paid == DOMAIN desk[c].saw.left # {}
  <2>1. desk[c] # NoTask /\ r \in Reservations
    BY <1>5, <1>d DEF Remove
  <2>2. \/ desk' = [desk EXCEPT ![c] = NoTask]
        \/ desk' = [desk EXCEPT ![c] = [desk[c] EXCEPT !.op = "delete"]]
        \/ /\ canTransition(status[r], "CANCELLED")
           /\ \/ desk' = [desk EXCEPT ![c] = Task("cancelOnly", r, View(r))]
              \/ desk' = [desk EXCEPT ![c] = Task("cancelThenDelete", r, View(r))]
    <3>1. CASE paid
      BY <1>5, <3>1 DEF Remove
    <3>2. CASE ~paid
      BY <1>5, <3>2 DEF Remove
    <3> QED  BY <3>1, <3>2
  <2>3. CASE /\ canTransition(status[r], "CANCELLED")
             /\ desk' = [desk EXCEPT ![c] = Task("cancelOnly", r, View(r))]
    <3>1. "cancelOnly" \in Operations
      BY DEF Operations
    <3> HIDE DEF r
    <3> QED  BY <1>c, <2>1, <2>3, <3>1
  <2>4. CASE /\ canTransition(status[r], "CANCELLED")
             /\ desk' = [desk EXCEPT ![c] = Task("cancelThenDelete", r, View(r))]
    <3>1. "cancelThenDelete" \in Operations
      BY DEF Operations
    <3> HIDE DEF r
    <3> QED  BY <1>c, <2>1, <2>4, <3>1
  <2> QED  BY <2>1, <2>2, <2>3, <2>4, <1>a, <1>b
<1> QED  BY <1>1, <1>2, <1>3, <1>4, <1>5 DEF DeskStep

\* A clerk who is doing something is doing it to a booking.
LEMMA AtTask ==
  ASSUME DeskInv, NEW c \in Clerks, NEW operation, Doing(c, operation), operation # "none"
  PROVE  /\ desk[c] # NoTask
         /\ desk[c].res \in Reservations
         /\ status[desk[c].res] # NONE
         /\ Sound(desk[c])
         /\ DOMAIN desk[c].saw.left \subseteq Payments
         /\ \A p \in DOMAIN desk[c].saw.left :
              desk[c].saw.left[p] \in Int /\ paymentStatus[p] # NONE
<1>1. desk[c] # NoTask
  BY NothingTaken DEF Doing
<1>2. Sound(desk[c])
  BY DEF DeskInv, TasksAreSound
<1> QED  BY <1>1, <1>2, TaskFacts DEF Doing, Exists, DeskInv, Sound

\* The clerk's steps that change bookings or payments.
LEMMA DeskChanges ==
  ASSUME NEW c \in Clerks, DeskStep(c)
  PROVE  \/ UNCHANGED <<vars, refunded, outdated, noShows, waived>>
         \/ Accept(c)
         \/ Cancel(c)
         \/ RefundPayment(c)
         \/ MarkNoShow(c)
         \/ Complete(c)
         \/ Credit(c)
         \/ Delete(c)
BY DEF DeskStep, Look, Abandon, Remove

\* A refund: of a payment that was seen, and of no more than was seen to be left.
LEMMA RefundFacts ==
  ASSUME DeskInv, NEW c \in Clerks, RefundPayment(c)
  PROVE  \E p \in Payments, amount \in Nat :
           /\ p \in DOMAIN desk[c].saw.left
           /\ paymentStatus[p] # NONE
           /\ amount > 0 /\ amount <= desk[c].saw.left[p]
           /\ refunded' = [refunded EXCEPT ![p] = refunded[p] + amount]
           /\ \/ /\ paymentStatus' = [paymentStatus EXCEPT ![p] = "REFUNDED"]
                 /\ refundRequired' = refundRequired \ {p}
              \/ /\ paymentStatus' = [paymentStatus EXCEPT ![p] = "PARTIALLY_REFUNDED"]
                 /\ refundRequired' = refundRequired \cup {p}
<1> DEFINE saw == desk[c].saw
<1>1. /\ DOMAIN saw.left \subseteq Payments
      /\ \A p \in DOMAIN saw.left : saw.left[p] \in Int /\ paymentStatus[p] # NONE
  BY AtTask DEF RefundPayment
<1>a. PICK p \in DOMAIN saw.left : \E amount \in 1 .. Remaining(saw, p) :
        /\ refunded' = [refunded EXCEPT ![p] = refunded[p] + amount]
        /\ paymentStatus' =
             [paymentStatus EXCEPT ![p] =
                IF amount = Remaining(saw, p) THEN "REFUNDED" ELSE "PARTIALLY_REFUNDED"]
        /\ refundRequired' =
             IF amount = Remaining(saw, p) THEN refundRequired \ {p}
                                           ELSE refundRequired \cup {p}
  BY DEF RefundPayment
<1>2. PICK amount \in 1 .. Remaining(saw, p) :
        /\ refunded' = [refunded EXCEPT ![p] = refunded[p] + amount]
        /\ paymentStatus' =
             [paymentStatus EXCEPT ![p] =
                IF amount = Remaining(saw, p) THEN "REFUNDED" ELSE "PARTIALLY_REFUNDED"]
        /\ refundRequired' =
             IF amount = Remaining(saw, p) THEN refundRequired \ {p}
                                           ELSE refundRequired \cup {p}
  BY <1>a
<1>3. saw.left[p] \in Int
  BY <1>1
<1>4. amount \in Nat /\ amount > 0 /\ amount <= saw.left[p]
  BY <1>3 DEF Remaining
<1>5. refunded' = [refunded EXCEPT ![p] = refunded[p] + amount]
  BY <1>2
<1>6. \/ /\ paymentStatus' = [paymentStatus EXCEPT ![p] = "REFUNDED"]
         /\ refundRequired' = refundRequired \ {p}
      \/ /\ paymentStatus' = [paymentStatus EXCEPT ![p] = "PARTIALLY_REFUNDED"]
         /\ refundRequired' = refundRequired \cup {p}
  BY <1>2
<1>7. p \in Payments /\ paymentStatus[p] # NONE
  BY <1>1
<1> QED  BY <1>4, <1>5, <1>6, <1>7

LEMMA DeskShapeStep == ASSUME DeskInv, NEW c \in Clerks, DeskStep(c) PROVE Shape'
<1> USE DEF vars, reservationVars, coinVars, cronVars, bookingVars, paymentVars,
        webhookVars
<1>0. Shape
  BY DEF DeskInv, TypeInv
<1>s. /\ {"CONFIRMED", "CANCELLED", "NO_SHOW", "COMPLETED", "DELETED"} \subseteq AnyStatus
      /\ {"REFUNDED", "PARTIALLY_REFUNDED"} \subseteq AnyPaidStatus
  BY DEF AnyStatus, ReservationStatus, AnyPaidStatus
<1>q. \A r \in Reservations : Quantity[r] \in Nat
  BY StaysAssumption
<1>1. CASE UNCHANGED vars
  BY <1>0, <1>1 DEF Shape, Typed
<1>2. CASE Accept(c)
  <2>1. PICK r \in Reservations : r = desk[c].res
    BY <1>2, AtTask DEF Accept
  <2>2. soldRooms' \in [Nights -> Nat]
    BY <1>0, <1>2, <1>q, <2>1 DEF Shape, Typed, Accept, sellRooms
  <2>3. /\ status' \in [Reservations -> AnyStatus]
        /\ rowsExpireAt' \in [Reservations -> Nat]
        /\ holdExpiresAt' \in [Reservations -> Nat]
        /\ lapsedHoldUsed' \subseteq Reservations
    BY <1>0, <1>2, <1>s, <2>1 DEF Shape, Typed, Accept, releaseHolds
  <2> QED  BY <1>0, <1>2, <2>2, <2>3 DEF Shape, Typed, Accept
<1>3. CASE Cancel(c)
  <2>1. /\ desk[c].res \in Reservations
        /\ DOMAIN desk[c].saw.left \subseteq Payments
    BY <1>3, AtTask DEF Cancel
  <2>2. PICK r \in Reservations : r = desk[c].res
    BY <2>1
  <2>3. soldRooms' \in [Nights -> Nat]
    <3>1. CASE UNCHANGED soldRooms
      BY <1>0, <3>1 DEF Shape, Typed
    <3>2. CASE restoreSoldRooms(r)
      <4>1. Quantity[r] \in Nat
        BY <1>q
      <4>2. \A n \in Nights : soldRooms[n] \in Nat
        BY <1>0 DEF Shape, Typed
      <4>3. \A n \in Nights : soldRooms'[n] \in Nat
        BY <3>2, <4>1, <4>2 DEF restoreSoldRooms, GREATEST
      <4> QED  BY <3>2, <4>3 DEF restoreSoldRooms
    <3> QED  BY <1>3, <2>2, <3>1, <3>2 DEF Cancel
  <2>4. /\ status' \in [Reservations -> AnyStatus]
        /\ rowsExpireAt' \in [Reservations -> Nat]
        /\ holdExpiresAt' \in [Reservations -> Nat]
        /\ coinsRefunded' \subseteq Reservations
    BY <1>0, <1>3, <1>s, <2>2 DEF Shape, Typed, Cancel, releaseHolds
  <2>5. refundRequired' \subseteq Payments
    BY <1>0, <1>3, <2>1 DEF Shape, Typed, Cancel, MarkForRefund
  <2> QED  BY <1>0, <1>3, <2>3, <2>4, <2>5 DEF Shape, Typed, Cancel
<1>4. CASE RefundPayment(c)
  <2>1. /\ paymentStatus' \in [Payments -> AnyPaidStatus]
        /\ refundRequired' \subseteq Payments
    BY <1>0, <1>4, <1>s, RefundFacts DEF Shape, Typed
  <2> QED  BY <1>0, <1>4, <2>1 DEF Shape, Typed, RefundPayment
<1>5. CASE MarkNoShow(c)
  BY <1>0, <1>5, <1>s DEF Shape, Typed, MarkNoShow
<1>6. CASE Complete(c)
  BY <1>0, <1>6, <1>s DEF Shape, Typed, Complete
<1>7. CASE Credit(c)
  <2>1. desk[c].res \in Reservations
    BY <1>7, AtTask DEF Credit
  <2> QED  BY <1>0, <1>7, <2>1 DEF Shape, Typed, Credit
<1>8. CASE Delete(c)
  BY <1>0, <1>8, <1>s DEF Shape, Typed, Delete, releaseHolds
<1> QED  BY DeskChanges, <1>1, <1>2, <1>3, <1>4, <1>5, <1>6, <1>7, <1>8

\* What a clerk leaves alone.
LEMMA DeskFrame ==
  ASSUME DeskInv, NEW c \in Clerks, DeskStep(c)
  PROVE  /\ UNCHANGED <<now, creating, session, paymentFor, atService, webhook, delivery>>
         /\ outdated \subseteq outdated'
         /\ \A p \in Payments : paymentStatus'[p] # NONE <=> paymentStatus[p] # NONE
         /\ \A r \in Reservations : status'[r] # NONE <=> status[r] # NONE
<1> DEFINE Frame ==
      /\ UNCHANGED <<now, creating, session, paymentFor, atService, webhook, delivery>>
      /\ outdated \subseteq outdated'
      /\ \A p \in Payments : paymentStatus'[p] # NONE <=> paymentStatus[p] # NONE
      /\ \A r \in Reservations : status'[r] # NONE <=> status[r] # NONE
<1> USE DEF vars, reservationVars, coinVars, cronVars, bookingVars, paymentVars,
        webhookVars
<1>0. /\ status \in [Reservations -> AnyStatus]
      /\ paymentStatus \in [Payments -> AnyPaidStatus]
  BY DEF DeskInv, TypeInv, Shape, Typed
<1>1. ASSUME NEW operation, Doing(c, operation), operation # "none"
      PROVE  status[desk[c].res] # NONE
  BY <1>1, AtTask
<1>2. CASE UNCHANGED <<vars, refunded, outdated, noShows, waived>>
  BY <1>2
<1>3. CASE Accept(c)
  BY <1>0, <1>1, <1>3 DEF Accept, Finish, NONE
<1>4. CASE Cancel(c)
  <2>1. status[desk[c].res] # NONE
    BY <1>1, <1>4 DEF Cancel
  <2>2. outdated \subseteq outdated'
    BY <1>4 DEF Cancel, Finish
  <2> QED  BY <1>0, <1>4, <2>1, <2>2 DEF Cancel, NONE
<1>5. CASE RefundPayment(c)
  <2>1. PICK p \in Payments :
          /\ paymentStatus[p] # NONE
          /\ \/ paymentStatus' = [paymentStatus EXCEPT ![p] = "REFUNDED"]
             \/ paymentStatus' = [paymentStatus EXCEPT ![p] = "PARTIALLY_REFUNDED"]
    BY <1>5, RefundFacts
  <2>2. \A q \in Payments : paymentStatus'[q] # NONE <=> paymentStatus[q] # NONE
    BY <1>0, <2>1 DEF NONE
  <2> QED  BY <1>5, <2>2 DEF RefundPayment, Finish
<1>6. CASE MarkNoShow(c)
  BY <1>0, <1>1, <1>6 DEF MarkNoShow, Finish, NONE
<1>7. CASE Complete(c)
  BY <1>0, <1>1, <1>7 DEF Complete, NONE
<1>8. CASE Credit(c)
  BY <1>8 DEF Credit
<1>9. CASE Delete(c)
  BY <1>0, <1>1, <1>9 DEF Delete, NONE
<1> QED  BY DeskChanges, <1>2, <1>3, <1>4, <1>5, <1>6, <1>7, <1>8, <1>9

LEMMA DeskTypedStep == ASSUME DeskInv, NEW c \in Clerks, DeskStep(c) PROVE DeskTyped'
<1>0. DeskTyped /\ TypeInv
  BY DEF DeskInv
<1>1. desk' \in [Clerks -> Tasks \cup {NoTask}]
  BY <1>0, TaskStep DEF DeskTyped
<1>2. refunded' \in [Payments -> Nat]
  <2>1. CASE RefundPayment(c)
    <3>1. PICK p \in Payments, amount \in Nat :
            refunded' = [refunded EXCEPT ![p] = refunded[p] + amount]
      BY <2>1, RefundFacts
    <3> QED  BY <1>0, <3>1 DEF DeskTyped
  <2>2. CASE ~RefundPayment(c)
    <3>1. UNCHANGED refunded
      BY <2>2, DeskChanges DEF Accept, Cancel, MarkNoShow, Complete, Credit, Delete
    <3> QED  BY <1>0, <3>1 DEF DeskTyped
  <2> QED  BY <2>1, <2>2
<1>3. noShows' \subseteq Reservations
  <2>1. CASE MarkNoShow(c)
    <3>1. desk[c].res \in Reservations
      BY <2>1, AtTask DEF MarkNoShow
    <3> QED  BY <1>0, <2>1, <3>1 DEF DeskTyped, MarkNoShow
  <2>2. CASE ~MarkNoShow(c)
    <3>1. UNCHANGED noShows
      BY <2>2, DeskChanges DEF Accept, Cancel, RefundPayment, Complete, Credit, Delete
    <3> QED  BY <1>0, <3>1 DEF DeskTyped
  <2> QED  BY <2>1, <2>2
<1>4. waived' \subseteq Payments
  <2>1. CASE Cancel(c)
    <3>1. DOMAIN desk[c].saw.left \subseteq Payments
      BY <2>1, AtTask DEF Cancel
    <3> QED  BY <1>0, <2>1, <3>1 DEF DeskTyped, Cancel
  <2>2. CASE ~Cancel(c)
    <3>1. UNCHANGED waived
      BY <2>2, DeskChanges DEF Accept, MarkNoShow, RefundPayment, Complete, Credit, Delete
    <3> QED  BY <1>0, <3>1 DEF DeskTyped
  <2> QED  BY <2>1, <2>2
<1> QED  BY <1>1, <1>2, <1>3, <1>4 DEF DeskTyped

LEMMA DeskInvOfDesk == ASSUME DeskInv, NEW c \in Clerks, DeskStep(c) PROVE DeskInv'
<1>0. /\ Shape /\ KnownPayments /\ CreatingInv /\ ClocksRead
      /\ DeskTyped /\ TasksAreSound /\ PaidForPlaced /\ AnswersArrive
  BY DEF DeskInv, TypeInv
<1>1. Shape' /\ DeskTyped'
  BY DeskShapeStep, DeskTypedStep
<1>2. /\ UNCHANGED <<now, creating, session, paymentFor, atService, webhook, delivery>>
      /\ \A p \in Payments : paymentStatus'[p] # NONE <=> paymentStatus[p] # NONE
      /\ \A r \in Reservations : status'[r] # NONE <=> status[r] # NONE
  BY DeskFrame
<1>3. KnownPayments'
  BY <1>0, <1>2 DEF KnownPayments, PaymentOf, Shape, Typed, Events, Paying
<1>4. CreatingInv'
  BY <1>0, <1>2 DEF CreatingInv, Shape, Typed
<1>5. ClocksRead'
  BY <1>0, <1>2 DEF ClocksRead
<1>6. PaidForPlaced'
  BY <1>0, <1>2 DEF PaidForPlaced, KnownPayments
<1>7. AnswersArrive'
  BY <1>0, <1>2 DEF AnswersArrive
<1>8. TasksAreSound'
  <2>1. PICK t \in Tasks \cup {NoTask} : desk' = [desk EXCEPT ![c] = t] /\ Sound(t)
    BY TaskStep
  <2>2. \A d \in Clerks : desk'[d] = t \/ desk'[d] = desk[d]
    BY <1>0, <2>1 DEF DeskTyped
  <2>3. DOMAIN t.saw.left \subseteq Payments
    <3>1. CASE t = NoTask
      BY <3>1, NothingTaken
    <3>2. CASE t # NoTask
      <4>1. t.saw.left \in Lefts
        BY <2>1, <3>2 DEF Tasks, Views
      <4> QED  BY <4>1, LeftFacts
    <3> QED  BY <3>1, <3>2
  <2>4. \A d \in Clerks : DOMAIN desk[d].saw.left \subseteq Payments
    BY <1>0, NothingTaken, TaskFacts
  <2>5. ASSUME NEW d \in Clerks
        PROVE  /\ desk'[d].op = "accept" => desk'[d].saw.status = "PAYMENT_PENDING"
               /\ desk'[d].op \in {"cancel", "cancelOnly", "cancelThenDelete"}
                    => canTransition(desk'[d].saw.status, "CANCELLED")
               /\ desk'[d].op = "noShow" => canTransition(desk'[d].saw.status, "NO_SHOW")
               /\ \A p \in DOMAIN desk'[d].saw.left : paymentStatus'[p] # NONE
    <3>1. CASE desk'[d] = t
      BY <1>2, <2>1, <2>3, <3>1 DEF Sound
    <3>2. CASE desk'[d] = desk[d]
      BY <1>0, <1>2, <2>4, <3>2 DEF Sound, TasksAreSound
    <3> QED  BY <2>2, <3>1, <3>2
  <2> QED  BY <2>5 DEF TasksAreSound, Sound
<1> QED  BY <1>1, <1>3, <1>4, <1>5, <1>6, <1>7, <1>8 DEF DeskInv, TypeInv

LEMMA DeskInvOfNext == ASSUME DeskInv, [Next]_vars, UNCHANGED deskVars PROVE DeskInv'
<1>0. /\ TypeInv /\ CreatingInv /\ ClocksRead
      /\ DeskTyped /\ TasksAreSound /\ PaidForPlaced /\ AnswersArrive
  BY DEF DeskInv
<1>1. TypeInv' /\ CreatingInv' /\ ClocksRead' /\ AnswersArrive'
  BY <1>0, ShapeStep, KnownStep, CreatingStep, ClocksStep, AnswerStep DEF TypeInv
<1>2. /\ \A p \in Payments : PaymentMove(p)
      /\ \A r \in Reservations : status[r] # NONE => status'[r] # NONE
  BY <1>0, PaymentStep, StatusStep DEF NONE
<1>3. \A p \in Payments : paymentStatus[p] # NONE => paymentStatus'[p] # NONE
  BY <1>2 DEF PaymentMove, NONE
<1>4. DeskTyped'
  BY <1>0 DEF DeskTyped, deskVars
<1>5. TasksAreSound'
  <2>1. \A d \in Clerks : DOMAIN desk[d].saw.left \subseteq Payments
    BY <1>0, NothingTaken, TaskFacts
  <2> QED  BY <1>0, <1>3, <2>1 DEF TasksAreSound, Sound, deskVars
<1>6. PaidForPlaced'
  <2> SUFFICES ASSUME NEW p \in Payments, paymentStatus'[p] # NONE
               PROVE  status'[paymentFor'[p]] # NONE
    BY DEF PaidForPlaced
  <2>1. CASE paymentStatus[p] # NONE
    BY <1>0, <1>2, <2>1 DEF PaymentMove, PaidForPlaced, TypeInv, KnownPayments
  <2>2. CASE paymentStatus[p] = NONE
    <3>1. paymentFor'[p] \in Reservations /\ status[paymentFor'[p]] = "PAYMENT_PENDING"
      BY <1>2, <2>2 DEF PaymentMove
    <3> QED  BY <1>2, <3>1 DEF NONE
  <2> QED  BY <2>1, <2>2
<1> QED  BY <1>1, <1>4, <1>5, <1>6 DEF DeskInv

LEMMA DeskStart == DeskInit => DeskInv
<1> SUFFICES ASSUME DeskInit
             PROVE  DeskInv
  OBVIOUS
<1>1. TypeInv
  <2>1. Init
    BY DEF DeskInit
  <2>2. TypeOK /\ KnownPayments
    BY <2>1, StaysAssumption, BookingsAssumption, PaymentsAssumption
    DEF Init, BookingsInit, TypeOK, KnownPayments, NONE, Idle, Paying,
        NoEvent, NoDelivery, Answers
  <2> QED  BY <2>2, TypedApart DEF TypeInv, Shape, Typed, AnyStatus, AnyPaidStatus
<1>2. CreatingInv /\ ClocksRead /\ PaidForPlaced /\ AnswersArrive
  BY DEF DeskInit, Init, BookingsInit, CreatingInv, ClocksRead, PaidForPlaced,
      AnswersArrive, NoDelivery, NoEvent
<1>3. DeskTyped
  BY DEF DeskInit, DeskTyped
<1>4. TasksAreSound
  BY NothingTaken DEF DeskInit, TasksAreSound
<1> QED  BY <1>1, <1>2, <1>3, <1>4 DEF DeskInv

\* A step of the hotel is a clerk's, or one of the others'.
LEMMA HotelStep ==
  ASSUME [DeskNext]_hotelVars
  PROVE  \/ [Next]_vars /\ UNCHANGED deskVars
         \/ \E c \in Clerks : DeskStep(c)
BY DEF DeskNext, hotelVars

\* Bookings and payments keep their types and foreign keys with an administrator
\* at work too, and every task at the desk is one its booking passed the checks
\* of when it was read.
THEOREM DeskCorrect == DeskSpec => []DeskInv
<1>1. DeskInv /\ [DeskNext]_hotelVars => DeskInv'
  BY HotelStep, DeskInvOfNext, DeskInvOfDesk
<1> QED  BY <1>1, DeskStart, PTL DEF DeskSpec

-----------------------------------------------------------------------------
(* Then what holds as long as no transaction at the desk committed on an    *)
(* outdated view: each of them is one of a few moves of a stay, next to     *)
(* those of the ledger.                                                    *)

\* Transactions on an up-to-date view.
Accepted(r) ==
  /\ status[r] = "PAYMENT_PENDING"
  /\ status' = [status EXCEPT ![r] = "CONFIRMED"]
  /\ rowsExpireAt[r] # 0
  /\ rowsExpireAt' = [rowsExpireAt EXCEPT ![r] = 0]
  /\ sellRooms(r)
  /\ lapsedHoldUsed' = lapsedHoldUsed \cup { x \in {r} : HoldLapsed(x) }
  /\ UNCHANGED noShows

Released(r) ==
  /\ status[r] \in {"PENDING", "PAYMENT_PENDING"}
  /\ status' = [status EXCEPT ![r] = "CANCELLED"]
  /\ rowsExpireAt' = [rowsExpireAt EXCEPT ![r] = 0]
  /\ UNCHANGED <<soldRooms, noShows, lapsedHoldUsed>>

TakenBack(r) ==
  /\ status[r] = "CONFIRMED"
  /\ status' = [status EXCEPT ![r] = "CANCELLED"]
  /\ restoreSoldRooms(r)
  /\ UNCHANGED <<rowsExpireAt, noShows, lapsedHoldUsed>>

NotShown(r) ==
  /\ status[r] = "CONFIRMED"
  /\ status' = [status EXCEPT ![r] = "NO_SHOW"]
  /\ noShows' = noShows \cup {r}
  /\ UNCHANGED <<rowsExpireAt, soldRooms, lapsedHoldUsed>>

Completed(r) ==
  /\ status[r] = "CONFIRMED"
  /\ status' = [status EXCEPT ![r] = "COMPLETED"]
  /\ UNCHANGED <<rowsExpireAt, soldRooms, noShows, lapsedHoldUsed>>

Deleted(r) ==
  /\ status[r] \in {"CANCELLED", "EXPIRED", "NO_SHOW"}
  /\ status' = [status EXCEPT ![r] = "DELETED"]
  /\ rowsExpireAt' = [rowsExpireAt EXCEPT ![r] = 0]
  /\ UNCHANGED <<soldRooms, noShows, lapsedHoldUsed>>

Untouched == UNCHANGED <<status, rowsExpireAt, soldRooms, noShows, lapsedHoldUsed>>

DeskMove(r) ==
  \/ Accepted(r)
  \/ Released(r)
  \/ TakenBack(r)
  \/ NotShown(r)
  \/ Completed(r)
  \/ Deleted(r)

\* A transaction that leaves no view outdated had an up-to-date one.
LEMMA UpToDate ==
  ASSUME DeskInv, NEW c \in Clerks, NEW next, Finish(c, next), outdated' = {},
         desk[c].res \in Reservations
  PROVE  /\ outdated = {}
         /\ desk[c].saw = View(desk[c].res)
         /\ desk[c].saw.status = status[desk[c].res]
         /\ DOMAIN desk[c].saw.left =
              { q \in Payments : /\ paymentFor[q] = desk[c].res
                                 /\ paymentStatus[q] \in Refundable }
         /\ \A p \in DOMAIN desk[c].saw.left :
              desk[c].saw.left[p] = Price - refunded[p]
<1>1. outdated = {} /\ View(desk[c].res) = desk[c].saw
  BY DEF Finish
<1> QED  BY <1>1, ViewFacts DEF DeskInv

\* What a booking's status lets a clerk do.
LEMMA Cancellable ==
  ASSUME NEW st, canTransition(st, "CANCELLED")
  PROVE  st \in {"PENDING", "PAYMENT_PENDING", "CONFIRMED"}
BY DEF canTransition, ALLOWED_TRANSITIONS

LEMMA OnlyConfirmedNoShows ==
  ASSUME NEW st, canTransition(st, "NO_SHOW")
  PROVE  st = "CONFIRMED"
BY DEF canTransition, ALLOWED_TRANSITIONS

LEMMA DeskMoves ==
  ASSUME DeskInv, RowsExactlyWhilePending, NEW c \in Clerks, DeskStep(c), outdated' = {}
  PROVE  Untouched \/ \E r \in Reservations : DeskMove(r)
<1> DEFINE Goal == Untouched \/ \E r \in Reservations : DeskMove(r)
<1> USE DEF vars, reservationVars, coinVars, cronVars, bookingVars, DeskMove
<1>0. /\ status \in [Reservations -> AnyStatus]
      /\ rowsExpireAt \in [Reservations -> Nat]
  BY DEF DeskInv, TypeInv, Shape, Typed
<1>1. CASE UNCHANGED <<vars, refunded, outdated, noShows, waived>> \/ RefundPayment(c) \/ Credit(c)
  BY <1>1 DEF Untouched, RefundPayment, Credit
<1>2. CASE Accept(c)
  <2>1. desk[c].res \in Reservations /\ desk[c].saw.status = "PAYMENT_PENDING"
    BY <1>2, AtTask DEF Accept, Doing, Sound
  <2>2. PICK r \in Reservations : r = desk[c].res
    BY <2>1
  <2>3. status[r] = "PAYMENT_PENDING"
    BY <1>2, <2>1, <2>2, UpToDate DEF Accept
  <2>4. rowsExpireAt[r] # 0
    BY <2>3 DEF RowsExactlyWhilePending
  <2>5. Accepted(r)
    BY <1>2, <2>2, <2>3, <2>4 DEF Accept, Accepted, releaseHolds
  <2> QED  BY <2>5
<1>3. CASE Cancel(c)
  <2>1. /\ desk[c].res \in Reservations
        /\ desk[c].saw.status \in {"PENDING", "PAYMENT_PENDING", "CONFIRMED"}
    <3>1. desk[c].res \in Reservations /\ canTransition(desk[c].saw.status, "CANCELLED")
      BY <1>3, AtTask DEF Cancel, Doing, Sound
    <3> QED  BY <3>1, Cancellable
  <2>2. PICK r \in Reservations : r = desk[c].res
    BY <2>1
  <2>3. desk[c].saw.status = status[r]
    BY <1>3, <2>2, UpToDate DEF Cancel
  <2>4. /\ status' = [status EXCEPT ![r] = "CANCELLED"]
        /\ UNCHANGED <<noShows, lapsedHoldUsed>>
        /\ IF status[r] = "PAYMENT_PENDING" THEN releaseHolds(r) ELSE UNCHANGED rowsExpireAt
        /\ IF status[r] = "CONFIRMED" THEN restoreSoldRooms(r) ELSE UNCHANGED soldRooms
    BY <1>3, <2>2, <2>3 DEF Cancel
  <2>5. CASE status[r] = "CONFIRMED"
    BY <2>4, <2>5 DEF TakenBack
  <2>6. CASE status[r] = "PAYMENT_PENDING"
    BY <2>4, <2>6 DEF Released, releaseHolds
  <2>7. CASE status[r] = "PENDING"
    <3>1. rowsExpireAt[r] = 0
      BY <2>7 DEF RowsExactlyWhilePending
    <3>2. rowsExpireAt' = [rowsExpireAt EXCEPT ![r] = 0]
      BY <1>0, <2>4, <2>7, <3>1
    <3> QED  BY <2>4, <2>7, <3>2 DEF Released
  <2> QED  BY <2>1, <2>3, <2>5, <2>6, <2>7
<1>4. CASE MarkNoShow(c)
  <2>1. desk[c].res \in Reservations /\ desk[c].saw.status = "CONFIRMED"
    BY <1>4, AtTask, OnlyConfirmedNoShows DEF MarkNoShow, Doing, Sound
  <2>2. PICK r \in Reservations : r = desk[c].res
    BY <2>1
  <2>3. status[r] = "CONFIRMED"
    BY <1>4, <2>1, <2>2, UpToDate DEF MarkNoShow
  <2>4. NotShown(r)
    BY <1>4, <2>2, <2>3 DEF MarkNoShow, NotShown
  <2> QED  BY <2>4
<1>5. CASE Complete(c)
  <2>1. PICK r \in Reservations : r = desk[c].res
    BY <1>5, AtTask DEF Complete
  <2>2. Completed(r)
    BY <1>5, <2>1 DEF Complete, Completed
  <2> QED  BY <2>2
<1>6. CASE Delete(c)
  <2>1. PICK r \in Reservations : r = desk[c].res
    BY <1>6, AtTask DEF Delete
  <2>2. status[r] \in {"CANCELLED", "EXPIRED", "NO_SHOW"}
    BY <1>6, <2>1 DEF Delete
  <2>3. Deleted(r)
    BY <1>6, <2>1, <2>2 DEF Delete, Deleted, releaseHolds
  <2> QED  BY <2>3
<1> QED  BY DeskChanges, <1>1, <1>2, <1>3, <1>4, <1>5, <1>6

-----------------------------------------------------------------------------
\* The stays whose rooms are counted as sold for a night.
Occupants(n) ==
  { r \in Reservations : n \in Stay[r] /\ (status[r] \in SoldStatuses \/ r \in noShows) }

\* The books, and what keeps them: rows that are there exactly while a booking
\* waits, and no-shows that stay off the market.
Balanced ==
  /\ RowsExactlyWhilePending
  /\ \A r \in noShows : status[r] \in {"NO_SHOW", "DELETED"}
  /\ \A n \in Nights : soldRooms[n] = Cardinality(RoomsOf(Occupants(n)))

\* A stay that comes in, and one that goes.
LEMMA OneMore ==
  ASSUME NEW n \in Nights, NEW r \in Reservations, r \notin Occupants(n),
         soldRooms[n] = Cardinality(RoomsOf(Occupants(n))),
         Occupants(n)' = Occupants(n) \cup {r},
         soldRooms'[n] = soldRooms[n] + Quantity[r]
  PROVE  soldRooms'[n] = Cardinality(RoomsOf(Occupants(n)'))
<1> DEFINE H == Occupants(n)
           G == Occupants(n)'
<1>1. H \in SUBSET Reservations
  BY DEF Occupants
<1>2. G = H \cup {r} /\ r \notin H /\ soldRooms[n] = Cardinality(RoomsOf(H))
  OBVIOUS
<1> HIDE DEF H, G
<1>3. Cardinality(RoomsOf(H \cup {r})) = Cardinality(RoomsOf(H)) + Quantity[r]
  BY <1>1, <1>2, RoomsOfMore
<1> QED  BY <1>2, <1>3 DEF G

LEMMA OneLess ==
  ASSUME NEW n \in Nights, NEW r \in Reservations, r \in Occupants(n),
         soldRooms[n] = Cardinality(RoomsOf(Occupants(n))),
         Occupants(n)' = Occupants(n) \ {r},
         soldRooms'[n] = GREATEST(soldRooms[n] - Quantity[r], 0)
  PROVE  soldRooms'[n] = Cardinality(RoomsOf(Occupants(n)'))
<1> DEFINE H == Occupants(n)
           G == Occupants(n)'
<1>1. H \in SUBSET Reservations /\ G \in SUBSET Reservations
  BY DEF Occupants
<1>2. G = H \ {r} /\ r \in H /\ soldRooms[n] = Cardinality(RoomsOf(H))
  OBVIOUS
<1>3. G \cup {r} = H /\ r \notin G
  BY <1>2
<1> HIDE DEF H, G
<1>4. Cardinality(RoomsOf(G \cup {r})) = Cardinality(RoomsOf(G)) + Quantity[r]
  BY <1>1, <1>3, RoomsOfMore
<1>5. Cardinality(RoomsOf(G)) \in Nat
  BY <1>1, RoomsOfFewer
<1>6. Quantity[r] \in Nat
  BY StaysAssumption
<1>7. soldRooms[n] = Cardinality(RoomsOf(G)) + Quantity[r]
  BY <1>2, <1>3, <1>4
<1> DEFINE k == Cardinality(RoomsOf(G))
           q == Quantity[r]
<1>8. k \in Nat /\ q \in Nat /\ soldRooms[n] = k + q
  BY <1>5, <1>6, <1>7
<1>9. soldRooms'[n] = IF soldRooms[n] - q >= 0 THEN soldRooms[n] - q ELSE 0
  BY DEF GREATEST
<1>10. soldRooms'[n] = k
  <2> HIDE DEF k, q
  <2> QED  BY <1>8, <1>9
<1> QED  BY <1>10 DEF k, G

LEMMA BalancedMove ==
  ASSUME TypeInv, DeskTyped, Balanced, NEW r \in Reservations, DeskMove(r)
  PROVE  Balanced'
<1>0. /\ status \in [Reservations -> AnyStatus]
      /\ rowsExpireAt \in [Reservations -> Nat]
      /\ noShows \subseteq Reservations
      /\ \A n \in Nights : soldRooms[n] \in Nat
  BY DEF TypeInv, Shape, Typed, DeskTyped
<1>1. RowsExactlyWhilePending'
  BY <1>0 DEF Balanced, RowsExactlyWhilePending, DeskMove, Accepted, Released, TakenBack,
      NotShown, Completed, Deleted
<1>2. \A x \in noShows' : status'[x] \in {"NO_SHOW", "DELETED"}
  BY <1>0 DEF Balanced, DeskMove, Accepted, Released, TakenBack, NotShown, Completed,
      Deleted
<1>3. ASSUME NEW n \in Nights
      PROVE  soldRooms'[n] = Cardinality(RoomsOf(Occupants(n)'))
  <2>1. soldRooms[n] = Cardinality(RoomsOf(Occupants(n)))
    BY DEF Balanced
  <2>2. ASSUME Occupants(n)' = Occupants(n), soldRooms'[n] = soldRooms[n]
        PROVE  soldRooms'[n] = Cardinality(RoomsOf(Occupants(n)'))
    BY <2>1, <2>2
  <2>3. CASE Accepted(r)
    <3>1. r \notin noShows
      BY <2>3 DEF Balanced, Accepted
    <3>2. CASE n \in Stay[r]
      <4>1. r \notin Occupants(n)
        BY <2>3, <3>1 DEF Accepted, Occupants, SoldStatuses
      <4>2. Occupants(n)' = Occupants(n) \cup {r}
        BY <1>0, <2>3, <3>2 DEF Accepted, Occupants, SoldStatuses
      <4>3. soldRooms'[n] = soldRooms[n] + Quantity[r]
        BY <2>3, <3>2 DEF Accepted, sellRooms
      <4> QED  BY <2>1, <4>1, <4>2, <4>3, OneMore
    <3>3. CASE n \notin Stay[r]
      <4>1. Occupants(n)' = Occupants(n)
        BY <1>0, <2>3, <3>3 DEF Accepted, Occupants
      <4>2. soldRooms'[n] = soldRooms[n]
        BY <2>3, <3>3 DEF Accepted, sellRooms
      <4> QED  BY <2>2, <4>1, <4>2
    <3> QED  BY <3>2, <3>3
  <2>4. CASE TakenBack(r)
    <3>1. r \notin noShows
      BY <2>4 DEF Balanced, TakenBack
    <3>2. CASE n \in Stay[r]
      <4>1. r \in Occupants(n)
        BY <2>4, <3>2 DEF TakenBack, Occupants, SoldStatuses
      <4>2. Occupants(n)' = Occupants(n) \ {r}
        BY <1>0, <2>4, <3>1 DEF TakenBack, Occupants, SoldStatuses
      <4>3. soldRooms'[n] = GREATEST(soldRooms[n] - Quantity[r], 0)
        BY <2>4, <3>2 DEF TakenBack, restoreSoldRooms
      <4> QED  BY <2>1, <4>1, <4>2, <4>3, OneLess
    <3>3. CASE n \notin Stay[r]
      <4>1. Occupants(n)' = Occupants(n)
        BY <1>0, <2>4, <3>3 DEF TakenBack, Occupants
      <4>2. soldRooms'[n] = soldRooms[n]
        BY <2>4, <3>3 DEF TakenBack, restoreSoldRooms
      <4> QED  BY <2>2, <4>1, <4>2
    <3> QED  BY <3>2, <3>3
  <2>5. CASE Released(r) \/ NotShown(r) \/ Completed(r) \/ Deleted(r)
    <3>1. soldRooms'[n] = soldRooms[n]
      BY <2>5 DEF Released, NotShown, Completed, Deleted
    <3>2. Occupants(n)' = Occupants(n)
      BY <1>0, <2>5 DEF Released, NotShown, Completed, Deleted, Occupants, SoldStatuses
    <3> QED  BY <2>2, <3>1, <3>2
  <2> QED  BY <2>3, <2>4, <2>5 DEF DeskMove
<1> QED  BY <1>1, <1>2, <1>3 DEF Balanced

LEMMA BalancedNext ==
  ASSUME TypeInv, CreatingInv, DeskTyped, Balanced, [Next]_vars, UNCHANGED noShows
  PROVE  Balanced'
<1>0. /\ status \in [Reservations -> AnyStatus]
      /\ noShows \subseteq Reservations
  BY DEF TypeInv, Shape, Typed, DeskTyped
<1>1. [Ledger!LedgerNext]_(Ledger!ledgerVars)
  BY LedgerSteps
<1> DEFINE held == { x \in Reservations : rowsExpireAt[x] # 0 }
<1>2. CASE UNCHANGED Ledger!ledgerVars
  <2>1. held' = held /\ UNCHANGED <<status, soldRooms>>
    BY <1>2 DEF Ledger!ledgerVars
  <2>2. \A n \in Nights : Occupants(n)' = Occupants(n)
    BY <2>1 DEF Occupants
  <2> QED  BY <2>1, <2>2 DEF Balanced, RowsExactlyWhilePending
<1>3. ASSUME NEW r \in Reservations,
             \/ Ledger!Place(r) \/ Ledger!Expire(r) \/ Ledger!Sell(r) \/ Ledger!Complete(r)
      PROVE  Balanced'
  <2> USE DEF Ledger!Place, Ledger!Expire, Ledger!Sell, Ledger!Complete, Ledger!NONE, NONE
  <2>1. \A x \in held' : x \in held \/ x = r
    BY <1>3
  <2>2. \A x \in Reservations \ {r} : (x \in held' <=> x \in held) /\ status'[x] = status[x]
    BY <1>0, <1>3
  <2>3. r \in held' <=> status'[r] = "PAYMENT_PENDING"
    BY <1>0, <1>3 DEF Balanced, RowsExactlyWhilePending
  <2>4. RowsExactlyWhilePending'
    BY <2>2, <2>3 DEF Balanced, RowsExactlyWhilePending
  <2>5. r \notin noShows
    BY <1>3 DEF Balanced
  <2>6. \A x \in noShows' : status'[x] \in {"NO_SHOW", "DELETED"}
    BY <1>0, <2>2, <2>5 DEF Balanced
  <2>7. ASSUME NEW n \in Nights
        PROVE  soldRooms'[n] = Cardinality(RoomsOf(Occupants(n)'))
    <3>1. soldRooms[n] = Cardinality(RoomsOf(Occupants(n)))
      BY DEF Balanced
    <3>2. CASE Ledger!Sell(r) /\ n \in Stay[r]
      <4>1. r \notin Occupants(n)
        BY <2>5, <3>2 DEF Occupants, SoldStatuses
      <4>2. Occupants(n)' = Occupants(n) \cup {r}
        BY <1>0, <3>2 DEF Occupants, SoldStatuses
      <4>3. soldRooms'[n] = soldRooms[n] + Quantity[r]
        BY <3>2
      <4> QED  BY <3>1, <4>1, <4>2, <4>3, OneMore
    <3>3. CASE ~(Ledger!Sell(r) /\ n \in Stay[r])
      <4>1. soldRooms'[n] = soldRooms[n]
        BY <1>3, <3>3
      <4>2. Occupants(n)' = Occupants(n)
        BY <1>0, <1>3, <3>3 DEF Occupants, SoldStatuses
      <4> QED  BY <3>1, <4>1, <4>2
    <3> QED  BY <3>2, <3>3
  <2> QED  BY <2>4, <2>6, <2>7 DEF Balanced
<1> QED  BY <1>1, <1>2, <1>3 DEF Ledger!LedgerNext

\* The inductive invariant.
BalanceInv == DeskInv /\ (outdated = {} => Balanced)

LEMMA BalanceStep == BalanceInv /\ [DeskNext]_hotelVars => BalanceInv'
<1> SUFFICES ASSUME DeskInv, outdated = {} => Balanced, [DeskNext]_hotelVars
             PROVE  DeskInv' /\ (outdated' = {} => Balanced')
  BY DEF BalanceInv
<1>1. CASE [Next]_vars /\ UNCHANGED deskVars
  <2>1. DeskInv'
    BY <1>1, DeskInvOfNext
  <2>2. ASSUME outdated' = {}
        PROVE  Balanced'
    <3>1. Balanced /\ UNCHANGED noShows
      BY <1>1, <2>2 DEF deskVars
    <3> QED  BY <1>1, <3>1, BalancedNext DEF DeskInv
  <2> QED  BY <2>1, <2>2
<1>2. ASSUME NEW c \in Clerks, DeskStep(c)
      PROVE  DeskInv' /\ (outdated' = {} => Balanced')
  <2>1. DeskInv'
    BY <1>2, DeskInvOfDesk
  <2>2. ASSUME outdated' = {}
        PROVE  Balanced'
    <3>1. Balanced
      BY <1>2, <2>2, DeskFrame
    <3>2. CASE Untouched
      <4>1. \A n \in Nights : Occupants(n)' = Occupants(n)
        BY <3>2 DEF Untouched, Occupants
      <4> QED  BY <3>1, <3>2, <4>1 DEF Balanced, RowsExactlyWhilePending, Untouched
    <3>3. ASSUME NEW r \in Reservations, DeskMove(r)
          PROVE  Balanced'
      BY <3>1, <3>3, BalancedMove DEF DeskInv
    <3> QED  BY <1>2, <2>2, <3>1, <3>2, <3>3, DeskMoves DEF Balanced
  <2> QED  BY <2>1, <2>2
<1> QED  BY HotelStep, <1>1, <1>2

\* As long as no desk transaction commits on an outdated view, hold rows exist
\* exactly while a booking waits for payment, and soldRooms counts who occupies
\* the rooms; what every step of the desk relies on holds in any case.
THEOREM BalanceCorrect == DeskSpec => []BalanceInv
<1>1. DeskInit => BalanceInv
  <2> SUFFICES ASSUME DeskInit
               PROVE  Balanced
    BY DeskStart DEF BalanceInv
  <2>1. /\ status = [r \in Reservations |-> NONE]
        /\ rowsExpireAt = [r \in Reservations |-> 0]
        /\ soldRooms = [n \in Nights |-> 0]
        /\ noShows = {}
    BY DEF DeskInit, Init, BookingsInit
  <2>2. \A n \in Nights : Occupants(n) = {}
    BY <2>1 DEF Occupants, SoldStatuses, NONE
  <2> QED  BY <2>1, <2>2, RoomsOfNone DEF Balanced, RowsExactlyWhilePending, NONE
<1> QED  BY <1>1, BalanceStep, PTL DEF DeskSpec

\* soldRooms is exactly the rooms of the stays sold and of the no-shows, as long as
\* no desk transaction committed on an outdated view: accepting, cancelling and
\* removing, in every order with the guests' payments and the jobs, give and take
\* back the rooms of a stay once.
THEOREM BooksAreBalanced == DeskSpec => []BooksBalance
<1>1. BalanceInv => BooksBalance
  BY DEF BalanceInv, Balanced, BooksBalance, Occupants
<1> QED  BY <1>1, BalanceCorrect, PTL

\* On such views, statuses move along the lifecycle's edges, and only what is over
\* is deleted.
THEOREM DeskLegal == DeskSpec => DeskMovesLegally
<1> DEFINE Legal(r) ==
      \/ canTransition(status[r], status'[r])
      \/ status[r] = NONE
      \/ /\ status'[r] = "DELETED"
         /\ status[r] \in {"CANCELLED", "EXPIRED", "NO_SHOW"}
<1>1. ASSUME BalanceInv, [DeskNext]_hotelVars, outdated' = {},
             NEW r \in Reservations, status'[r] # status[r]
      PROVE  Legal(r)
  <2>0. DeskInv /\ TypeInv /\ CreatingInv /\ status \in [Reservations -> AnyStatus]
    BY <1>1 DEF BalanceInv, DeskInv, TypeInv, Shape, Typed
  <2>1. CASE [Next]_vars /\ UNCHANGED deskVars
    <3>1. \/ status[r] = NONE /\ status'[r] = "PAYMENT_PENDING"
          \/ status[r] = "PAYMENT_PENDING" /\ status'[r] = "EXPIRED"
          \/ status[r] \in {"PAYMENT_PENDING", "EXPIRED"} /\ status'[r] = "CONFIRMED"
          \/ status[r] = "CONFIRMED" /\ status'[r] = "COMPLETED"
      BY <1>1, <2>0, <2>1, StatusStep
    <3> QED  BY <3>1 DEF canTransition, ALLOWED_TRANSITIONS
  <2>2. ASSUME NEW c \in Clerks, DeskStep(c)
        PROVE  Legal(r)
    <3>1. RowsExactlyWhilePending
      BY <1>1, <2>0, <2>2, DeskFrame DEF BalanceInv, Balanced
    <3>2. Untouched \/ \E x \in Reservations : DeskMove(x)
      BY <1>1, <2>0, <2>2, <3>1, DeskMoves
    <3>3. \/ status[r] = "PAYMENT_PENDING" /\ status'[r] = "CONFIRMED"
          \/ status[r] \in {"PENDING", "PAYMENT_PENDING"} /\ status'[r] = "CANCELLED"
          \/ status[r] = "CONFIRMED" /\ status'[r] \in {"CANCELLED", "NO_SHOW", "COMPLETED"}
          \/ status[r] \in {"CANCELLED", "EXPIRED", "NO_SHOW"} /\ status'[r] = "DELETED"
      BY <1>1, <2>0, <3>2 DEF Untouched, DeskMove, Accepted, Released, TakenBack, NotShown,
          Completed, Deleted
    <3> QED  BY <3>3 DEF canTransition, ALLOWED_TRANSITIONS
  <2> QED  BY <1>1, <2>1, <2>2, HotelStep
<1>2. BalanceInv /\ [DeskNext]_hotelVars
        => [outdated' = {} => \A r \in Reservations : status'[r] # status[r] => Legal(r)]_hotelVars
  BY <1>1
<1> QED  BY <1>2, BalanceCorrect, PTL DEF DeskSpec, DeskMovesLegally

-----------------------------------------------------------------------------
\* A night that was not oversold is not oversold by giving rooms back either.
LEMMA FreedMore ==
  ASSUME Shape, NEW n \in Nights, computeFreeRooms(n, now) >= 0,
         soldRooms'[n] \in Nat, soldRooms'[n] <= soldRooms[n],
         Holding(n, now)' \subseteq Holding(n, now)
  PROVE  computeFreeRooms(n, now)' >= 0
<1> DEFINE H == Holding(n, now)
           G == Holding(n, now)'
<1>1. H \in SUBSET Reservations /\ G \in SUBSET H
  BY DEF Holding
<1>2. /\ Cardinality(RoomsOf(G)) \in Nat
      /\ Cardinality(RoomsOf(H)) \in Nat
      /\ Cardinality(RoomsOf(G)) <= Cardinality(RoomsOf(H))
  <2> HIDE DEF H, G
  <2> QED  BY <1>1, RoomsOfFewer
<1>3. /\ computeFreeRooms(n, now) = Sellable[n] - soldRooms[n] - Cardinality(RoomsOf(H))
      /\ computeFreeRooms(n, now)' = Sellable[n] - soldRooms'[n] - Cardinality(RoomsOf(G))
  BY DEF computeFreeRooms, activeHoldQuantity
<1>4. Sellable[n] \in Nat /\ soldRooms[n] \in Nat
  BY BookingsAssumption DEF Shape, Typed
<1> HIDE DEF H, G
<1> QED  BY <1>2, <1>3, <1>4

LEMMA DeskOversellingMove ==
  ASSUME TypeInv, OversellingNeedsLapsedHold, now' = now,
         NEW r \in Reservations, DeskMove(r)
  PROVE  OversellingNeedsLapsedHold'
<1> SUFFICES ASSUME lapsedHoldUsed' = {}, NEW n \in Nights
             PROVE  computeFreeRooms(n, now)' >= 0
  BY DEF OversellingNeedsLapsedHold, NoOverselling, computeFreeRooms,
         activeHoldQuantity, Holding, RoomsOf
<1>0. /\ Shape
      /\ now \in Nat
      /\ status \in [Reservations -> AnyStatus]
      /\ rowsExpireAt \in [Reservations -> Nat]
      /\ soldRooms[n] \in Nat
      /\ Quantity[r] \in Nat
  BY StaysAssumption DEF TypeInv, Shape, Typed
<1>1. lapsedHoldUsed = {}
  BY DEF DeskMove, Accepted, Released, TakenBack, NotShown, Completed, Deleted
<1>2. computeFreeRooms(n, now) >= 0
  BY <1>1 DEF OversellingNeedsLapsedHold, NoOverselling
<1>3. Holding(n, now)' \subseteq Holding(n, now) \ {r}
  BY <1>0 DEF Holding, HOLDING_STATUSES, DeskMove, Accepted, Released, TakenBack, NotShown,
      Completed, Deleted
<1>4. CASE Accepted(r) /\ n \in Stay[r]
  <2>1. ~HoldLapsed(r) /\ rowsExpireAt[r] # 0 /\ status[r] = "PAYMENT_PENDING"
    BY <1>4 DEF Accepted
  <2>2. r \in Holding(n, now)
    BY <1>0, <1>4, <2>1 DEF HoldLapsed, Holding, HOLDING_STATUSES
  <2>3. soldRooms'[n] = soldRooms[n] + Quantity[r]
    BY <1>4 DEF Accepted, sellRooms
  <2> QED  BY <1>0, <1>2, <1>3, <2>2, <2>3, HeldToSell
<1>5. CASE ~(Accepted(r) /\ n \in Stay[r])
  <2>1. soldRooms'[n] = soldRooms[n] \/ soldRooms'[n] = GREATEST(soldRooms[n] - Quantity[r], 0)
    BY <1>5 DEF DeskMove, Accepted, Released, TakenBack, NotShown, Completed, Deleted,
        sellRooms, restoreSoldRooms
  <2>2. soldRooms'[n] \in Nat /\ soldRooms'[n] <= soldRooms[n]
    BY <1>0, <2>1 DEF GREATEST
  <2> QED  BY <1>0, <1>2, <1>3, <2>2, FreedMore
<1> QED  BY <1>4, <1>5

\* Overselling takes an outdated view at the desk, or a hold used after it lapsed:
\* to accept a booking whose hold is still counted sells no room twice.
THEOREM DeskLocksPreventOverselling == DeskSpec => []DeskOversellingExplained
<1> DEFINE Inv == BalanceInv /\ DeskOversellingExplained
<1>a. DeskOversellingExplained <=> (outdated = {} => OversellingNeedsLapsedHold)
  BY DEF DeskOversellingExplained, OversellingNeedsLapsedHold
<1>b. DeskOversellingExplained' <=> (outdated' = {} => OversellingNeedsLapsedHold')
  BY DEF DeskOversellingExplained, OversellingNeedsLapsedHold
<1>1. DeskInit => DeskOversellingExplained
  BY OversellingStart DEF DeskInit, DeskOversellingExplained, OversellingNeedsLapsedHold
<1>2. Inv /\ [DeskNext]_hotelVars => DeskOversellingExplained'
  <2> SUFFICES ASSUME BalanceInv, DeskOversellingExplained, [DeskNext]_hotelVars,
                      outdated' = {}
               PROVE  OversellingNeedsLapsedHold'
    BY <1>b
  <2>0. TypeInv /\ CreatingInv /\ ClocksRead /\ DeskInv
    BY DEF BalanceInv, DeskInv
  <2>1. CASE [Next]_vars /\ UNCHANGED deskVars
    <3>1. OversellingNeedsLapsedHold
      BY <1>a, <2>1 DEF deskVars
    <3> QED  BY <2>0, <2>1, <3>1, OversellingStep
  <2>2. ASSUME NEW c \in Clerks, DeskStep(c)
        PROVE  OversellingNeedsLapsedHold'
    <3>1. outdated = {} /\ now' = now
      BY <2>0, <2>2, DeskFrame
    <3>2. OversellingNeedsLapsedHold /\ RowsExactlyWhilePending
      BY <1>a, <3>1 DEF BalanceInv, Balanced
    <3>3. CASE Untouched
      BY <3>1, <3>2, <3>3 DEF Untouched, OversellingNeedsLapsedHold, NoOverselling,
          computeFreeRooms, activeHoldQuantity, Holding
    <3>4. ASSUME NEW r \in Reservations, DeskMove(r)
          PROVE  OversellingNeedsLapsedHold'
      BY <2>0, <3>1, <3>2, <3>4, DeskOversellingMove
    <3> QED  BY <2>0, <2>2, <3>2, <3>3, <3>4, DeskMoves
  <2> QED  BY <2>1, <2>2, HotelStep
<1> QED  BY <1>1, <1>2, BalanceCorrect, PTL DEF DeskSpec

-----------------------------------------------------------------------------
(* Money at the desk.                                                      *)

\* What a clerk's transaction on an up-to-date view does to the payments.
LEMMA RefundsStep ==
  ASSUME DeskInv, RefundsWithinPayment, NEW c \in Clerks, DeskStep(c), outdated' = {}
  PROVE  \A p \in Payments : refunded'[p] <= Price
<1>0. outdated = {} /\ \A p \in Payments : refunded[p] \in Nat /\ refunded[p] <= Price
  BY DeskFrame DEF RefundsWithinPayment, DeskInv, DeskTyped
<1>1. CASE RefundPayment(c)
  <2>1. desk[c].res \in Reservations
    BY <1>1, AtTask DEF RefundPayment
  <2>2. PICK p \in Payments, amount \in Nat :
          /\ p \in DOMAIN desk[c].saw.left
          /\ amount <= desk[c].saw.left[p]
          /\ refunded' = [refunded EXCEPT ![p] = refunded[p] + amount]
    BY <1>1, RefundFacts
  <2>3. desk[c].saw.left[p] = Price - refunded[p]
    BY <1>1, <2>1, <2>2, UpToDate DEF RefundPayment
  <2>4. refunded[p] + amount <= Price
    BY <1>0, <2>2, <2>3, DeskAssumption
  <2>5. refunded \in [Payments -> Nat]
    BY DEF DeskInv, DeskTyped
  <2> QED  BY <1>0, <2>2, <2>4, <2>5
<1>2. CASE ~RefundPayment(c)
  <2>1. UNCHANGED refunded
    BY <1>2, DeskChanges DEF Accept, Cancel, MarkNoShow, Complete, Credit, Delete
  <2> QED  BY <1>0, <2>1
<1> QED  BY <1>1, <1>2

\* No more goes back than came in, while every desk transaction commits on a view
\* that is still true.
THEOREM RefundsStayWithin == DeskSpec => []RefundsWithinPayment
<1>1. DeskInit => RefundsWithinPayment
  BY DeskAssumption DEF DeskInit, RefundsWithinPayment
<1>2. DeskInv /\ RefundsWithinPayment /\ [DeskNext]_hotelVars => RefundsWithinPayment'
  <2> SUFFICES ASSUME DeskInv, RefundsWithinPayment, [DeskNext]_hotelVars, outdated' = {}
               PROVE  \A p \in Payments : refunded'[p] <= Price
    BY DEF RefundsWithinPayment
  <2>1. CASE UNCHANGED deskVars
    BY <2>1 DEF deskVars, RefundsWithinPayment
  <2> QED  BY <2>1, HotelStep, RefundsStep
<1> QED  BY <1>1, <1>2, DeskCorrect, PTL DEF DeskSpec

\* Statuses whose captured money is not owed back.
Earned == SoldStatuses \cup {"NO_SHOW"}

LEMMA LostStaysNext ==
  ASSUME DeskInv, LostStaysAreRefunded, [Next]_vars, UNCHANGED deskVars
  PROVE  LostStaysAreRefunded'
<1> SUFFICES ASSUME outdated' = {}, NEW p \in Payments,
                    paymentStatus'[p] \in Refundable,
                    status'[paymentFor'[p]] \notin Earned
             PROVE  p \in refundRequired' \cup waived'
  BY DEF LostStaysAreRefunded, Earned
<1>0. /\ PaymentMove(p)
      /\ refundRequired \subseteq refundRequired'
  BY PaymentStep DEF DeskInv
<1>1. waived' = waived /\ outdated = {}
  BY DEF deskVars
<1>2. paymentStatus[p] # NONE /\ paymentFor'[p] = paymentFor[p]
  BY <1>0 DEF PaymentMove, Refundable, NONE
<1>3. paymentFor[p] \in Reservations
  BY <1>2 DEF DeskInv, TypeInv, KnownPayments
<1>4. CASE paymentStatus'[p] = paymentStatus[p]
  <2>1. status[paymentFor[p]] \notin Earned
    <3>1. status'[paymentFor[p]] \notin Earned
      BY <1>2
    <3> QED  BY <1>3, <3>1, StatusStep DEF DeskInv, Earned, SoldStatuses, NONE
  <2> QED  BY <1>0, <1>1, <1>4, <2>1 DEF LostStaysAreRefunded, Earned
<1>5. CASE paymentStatus'[p] # paymentStatus[p]
  BY <1>0, <1>2, <1>5 DEF PaymentMove, Refundable, Earned, SoldStatuses, NONE
<1> QED  BY <1>4, <1>5

LEMMA LostStaysDesk ==
  ASSUME BalanceInv, LostStaysAreRefunded, NEW c \in Clerks, DeskStep(c)
  PROVE  LostStaysAreRefunded'
<1> USE DEF vars, reservationVars, coinVars, cronVars, bookingVars, paymentVars
<1> SUFFICES ASSUME outdated' = {}, NEW p \in Payments,
                    paymentStatus'[p] \in Refundable,
                    status'[paymentFor'[p]] \notin Earned
             PROVE  p \in refundRequired' \cup waived'
  BY DEF LostStaysAreRefunded, Earned
<1>0. /\ DeskInv
      /\ outdated = {} /\ paymentFor' = paymentFor
      /\ paymentStatus'[p] # NONE => paymentStatus[p] # NONE
      /\ status \in [Reservations -> AnyStatus]
      /\ paymentStatus \in [Payments -> AnyPaidStatus]
  BY DeskFrame DEF BalanceInv, DeskInv, TypeInv, Shape, Typed
<1>1. paymentFor[p] \in Reservations
  BY <1>0 DEF Refundable, NONE, DeskInv, TypeInv, KnownPayments
<1>2. paymentStatus[p] \in Refundable /\ status[paymentFor[p]] \notin Earned
        => p \in refundRequired \cup waived
  BY <1>0 DEF LostStaysAreRefunded, Earned
<1>3. status'[paymentFor[p]] \notin Earned
  BY <1>0
<1>4. ASSUME UNCHANGED <<paymentStatus, refundRequired, waived>>,
             NEW r \in Reservations,
             status' = status \/ \E st \in Earned : status' = [status EXCEPT ![r] = st]
      PROVE  p \in refundRequired' \cup waived'
  <2>1. paymentStatus[p] \in Refundable
    BY <1>4
  <2>2. status[paymentFor[p]] \notin Earned
    BY <1>0, <1>1, <1>3, <1>4
  <2> QED  BY <1>2, <1>4, <2>1, <2>2
<1>5. CASE UNCHANGED <<vars, refunded, outdated, noShows, waived>> \/ Credit(c)
  BY <1>1, <1>4, <1>5 DEF Credit
<1>6. CASE Accept(c) \/ MarkNoShow(c) \/ Complete(c)
  <2>1. PICK r \in Reservations : r = desk[c].res
    BY <1>0, <1>6, AtTask DEF Accept, MarkNoShow, Complete
  <2>2. \E st \in Earned : status' = [status EXCEPT ![r] = st]
    BY <1>6, <2>1 DEF Accept, MarkNoShow, Complete, Earned, SoldStatuses
  <2> QED  BY <1>4, <1>6, <2>2 DEF Accept, MarkNoShow, Complete
<1>7. CASE Cancel(c)
  <2>1. PICK r \in Reservations : r = desk[c].res
    BY <1>0, <1>7, AtTask DEF Cancel
  <2>2. /\ status' = [status EXCEPT ![r] = "CANCELLED"]
        /\ UNCHANGED paymentStatus
        /\ \/ refundRequired' = refundRequired \cup DOMAIN desk[c].saw.left /\ waived' = waived
           \/ waived' = waived \cup DOMAIN desk[c].saw.left /\ refundRequired' = refundRequired
    BY <1>7, <2>1 DEF Cancel, MarkForRefund
  <2>3. DOMAIN desk[c].saw.left =
          { q \in Payments : paymentFor[q] = r /\ paymentStatus[q] \in Refundable }
    BY <1>0, <1>7, <2>1, UpToDate DEF Cancel
  <2>4. CASE paymentFor[p] = r
    BY <2>2, <2>3, <2>4
  <2>5. CASE paymentFor[p] # r
    <3>1. status[paymentFor[p]] \notin Earned
      BY <1>0, <1>1, <1>3, <2>2, <2>5
    <3> QED  BY <1>2, <2>2, <3>1
  <2> QED  BY <2>4, <2>5
<1>8. CASE RefundPayment(c)
  <2>1. UNCHANGED <<status, waived>>
    BY <1>8 DEF RefundPayment
  <2>2. PICK q \in Payments :
          \/ /\ paymentStatus' = [paymentStatus EXCEPT ![q] = "REFUNDED"]
             /\ refundRequired' = refundRequired \ {q}
          \/ /\ paymentStatus' = [paymentStatus EXCEPT ![q] = "PARTIALLY_REFUNDED"]
             /\ refundRequired' = refundRequired \cup {q}
    BY <1>0, <1>8, RefundFacts
  <2>3. CASE p = q
    <3>1. paymentStatus'[p] = "REFUNDED" \/ p \in refundRequired'
      BY <1>0, <2>2, <2>3
    <3> QED  BY <3>1 DEF Refundable
  <2>4. CASE p # q
    <3>1. paymentStatus'[p] = paymentStatus[p] /\ (p \in refundRequired => p \in refundRequired')
      BY <1>0, <2>2, <2>4
    <3> QED  BY <1>2, <1>3, <2>1, <3>1
  <2> QED  BY <2>3, <2>4
<1>9. CASE Delete(c)
  <2>1. PICK r \in Reservations : r = desk[c].res
    BY <1>0, <1>9, AtTask DEF Delete
  <2>2. /\ status' = [status EXCEPT ![r] = "DELETED"]
        /\ UNCHANGED <<paymentStatus, refundRequired, waived>>
        /\ paymentFor[p] # r
    BY <1>9, <2>1 DEF Delete
  <2>3. status[paymentFor[p]] \notin Earned
    BY <1>0, <1>1, <1>3, <2>2
  <2> QED  BY <1>2, <2>2, <2>3
<1> QED  BY DeskChanges, <1>5, <1>6, <1>7, <1>8, <1>9

\* On such views, what was captured for a booking that is no longer sold is marked
\* for refund, or a clerk chose not to refund it.
THEOREM LostMoneyGoesBack == DeskSpec => []LostStaysAreRefunded
<1>1. DeskInit => LostStaysAreRefunded
  BY DEF DeskInit, Init, LostStaysAreRefunded, Refundable, NONE
<1>2. BalanceInv /\ LostStaysAreRefunded /\ [DeskNext]_hotelVars => LostStaysAreRefunded'
  BY HotelStep, LostStaysNext, LostStaysDesk DEF BalanceInv
<1> QED  BY <1>1, <1>2, BalanceCorrect, PTL DEF DeskSpec

-----------------------------------------------------------------------------
(* The money of guests who have paid.                                      *)

\* On such views, a success is turned away only from a booking that is over, and it
\* stays over.
TurnedAwayWhenOver ==
  outdated = {} => \A e \in Events : Turned(e) => status[paymentFor[e[1]]] \notin StillOpen

LEMMA TurnedAwayStep ==
  ASSUME BalanceInv, TurnedAwayWhenOver, [DeskNext]_hotelVars
  PROVE  TurnedAwayWhenOver'
<1> SUFFICES ASSUME outdated' = {}, NEW e \in Events, Turned(e)'
             PROVE  status'[paymentFor'[e[1]]] \notin StillOpen
  BY DEF TurnedAwayWhenOver
<1>0. /\ DeskInv /\ TypeInv /\ KnownPayments /\ CreatingInv /\ AnswersArrive /\ PaidForPlaced
      /\ status \in [Reservations -> AnyStatus]
      /\ e[1] \in Payments
  BY DEF BalanceInv, DeskInv, TypeInv, Shape, Typed, Events
<1>1. ASSUME Turned(e), outdated = {}
      PROVE  /\ paymentStatus[e[1]] # NONE
             /\ paymentFor[e[1]] \in Reservations
             /\ status[paymentFor[e[1]]] \notin StillOpen \cup {NONE}
  <2>1. paymentStatus[e[1]] # NONE
    BY <1>0, <1>1 DEF Turned, AnswersArrive, KnownPayments
  <2> QED  BY <1>0, <1>1, <2>1 DEF Turned, TurnedAwayWhenOver, StillOpen, PaidForPlaced,
              KnownPayments
<1>2. CASE [Next]_vars /\ UNCHANGED deskVars
  <2>1. CASE Turned(e)
    <3>1. /\ paymentStatus[e[1]] # NONE
          /\ paymentFor[e[1]] \in Reservations
          /\ status[paymentFor[e[1]]] \notin StillOpen \cup {NONE}
      BY <1>1, <1>2, <2>1 DEF deskVars
    <3>2. paymentFor'[e[1]] = paymentFor[e[1]]
      BY <1>0, <1>2, <3>1, PaymentStep DEF PaymentMove
    <3>3. status'[paymentFor[e[1]]] = status[paymentFor[e[1]]]
      BY <1>0, <1>2, <3>1, StatusStep DEF StillOpen
    <3> QED  BY <3>1, <3>2, <3>3
  <2>2. CASE ~Turned(e)
    <3>1. UNCHANGED <<status, paymentFor>> /\ status[paymentFor[e[1]]] \notin StillOpen
      BY <1>0, <1>2, <2>2, AnswerStep
    <3> QED  BY <3>1
  <2> QED  BY <2>1, <2>2
<1>3. ASSUME NEW c \in Clerks, DeskStep(c)
      PROVE  status'[paymentFor'[e[1]]] \notin StillOpen
  <2>1. outdated = {} /\ UNCHANGED <<paymentFor, webhook>>
    BY <1>0, <1>3, DeskFrame
  <2>2. Turned(e)
    BY <2>1 DEF Turned
  <2>3. /\ paymentFor[e[1]] \in Reservations
        /\ status[paymentFor[e[1]]] \notin StillOpen
    BY <1>1, <2>1, <2>2
  <2>4. Untouched \/ \E r \in Reservations : DeskMove(r)
    BY <1>0, <1>3, <2>1, DeskMoves DEF BalanceInv, Balanced
  <2>5. status'[paymentFor[e[1]]] \notin StillOpen
    BY <1>0, <2>3, <2>4 DEF Untouched, DeskMove, Accepted, Released, TakenBack, NotShown,
        Completed, Deleted, StillOpen
  <2> QED  BY <2>1, <2>5
<1> QED  BY HotelStep, <1>2, <1>3

\* What was taken stays on file: captured, or at least in part given back.
OnRecord(p) == paymentStatus[p] = "CAPTURED" \/ refunded[p] > 0

MoneyOnRecord ==
  /\ \A p \in Payments :
       paymentStatus[p] \in {"PARTIALLY_REFUNDED", "REFUNDED"} => refunded[p] > 0
  /\ \A e \in Events :
       e[2] = "SUCCESS" /\ webhook[e].answer \in {200, 202} => OnRecord(e[1])

LEMMA MoneyOnRecordStep ==
  ASSUME DeskInv, MoneyOnRecord, [DeskNext]_hotelVars
  PROVE  MoneyOnRecord'
<1>0. /\ TypeInv
      /\ refunded \in [Payments -> Nat]
      /\ paymentStatus \in [Payments -> AnyPaidStatus]
      /\ \A e \in Events : e[1] \in Payments
  BY DEF DeskInv, DeskTyped, TypeInv, Shape, Typed, Events
<1>1. CASE [Next]_vars /\ UNCHANGED deskVars
  <2>1. refunded' = refunded
    BY <1>1 DEF deskVars
  <2>2. /\ \A p \in Payments : paymentStatus[p] = "CAPTURED" => paymentStatus'[p] = "CAPTURED"
        /\ \A e \in Events : AnsweredOnCapture(e)
    BY <1>0, <1>1, CapturedStep, AcceptanceStep
  <2>3. \A p \in Payments :
          paymentStatus'[p] \in {paymentStatus[p], "PENDING", "FAILED", "CAPTURED"}
    BY <1>0, <1>1, PaymentStep DEF PaymentMove
  <2> QED  BY <1>0, <2>1, <2>2, <2>3 DEF MoneyOnRecord, OnRecord, AnsweredOnCapture
<1>2. ASSUME NEW c \in Clerks, DeskStep(c)
      PROVE  MoneyOnRecord'
  <2>1. webhook' = webhook
    BY <1>2, DeskFrame
  <2>2. CASE RefundPayment(c)
    <3>1. PICK p \in Payments, amount \in Nat :
            /\ amount > 0
            /\ refunded' = [refunded EXCEPT ![p] = refunded[p] + amount]
            /\ \/ paymentStatus' = [paymentStatus EXCEPT ![p] = "REFUNDED"]
               \/ paymentStatus' = [paymentStatus EXCEPT ![p] = "PARTIALLY_REFUNDED"]
      BY <2>2, RefundFacts
    <3>2. refunded'[p] > 0
      BY <1>0, <3>1
    <3>3. \A q \in Payments \ {p} :
            refunded'[q] = refunded[q] /\ paymentStatus'[q] = paymentStatus[q]
      BY <1>0, <3>1
    <3> QED  BY <1>0, <2>1, <3>2, <3>3 DEF MoneyOnRecord, OnRecord
  <2>3. CASE ~RefundPayment(c)
    <3>1. UNCHANGED <<refunded, paymentStatus>>
      BY <1>2, <2>3, DeskChanges DEF Accept, Cancel, MarkNoShow, Complete, Credit, Delete,
         vars, paymentVars
    <3> QED  BY <2>1, <3>1 DEF MoneyOnRecord, OnRecord
  <2> QED  BY <2>2, <2>3
<1> QED  BY <1>1, <1>2, HotelStep

\* The money of an answered success is on file, captured or given back, whatever was
\* reported, cancelled or refunded since, unless it was turned away from a booking
\* that was over, and on up-to-date views still is.
THEOREM AnsweredMoneyIsOnFile == DeskSpec => []PaidIsOnFileOrOver
<1>1. DeskInit => TurnedAwayWhenOver /\ MoneyOnRecord
  <2> SUFFICES ASSUME DeskInit
               PROVE  TurnedAwayWhenOver /\ MoneyOnRecord
    OBVIOUS
  <2>1. /\ \A e \in Events : webhook[e].answer = 0
        /\ \A p \in Payments : paymentStatus[p] = NONE
    BY DEF DeskInit, Init, NoEvent, Events
  <2> QED  BY <2>1 DEF TurnedAwayWhenOver, MoneyOnRecord, Turned, NONE
<1>2. BalanceInv /\ TurnedAwayWhenOver /\ [DeskNext]_hotelVars => TurnedAwayWhenOver'
  BY TurnedAwayStep
<1>3. BalanceInv /\ MoneyOnRecord /\ [DeskNext]_hotelVars => MoneyOnRecord'
  BY MoneyOnRecordStep DEF BalanceInv
<1>4. BalanceInv /\ TurnedAwayWhenOver /\ MoneyOnRecord => PaidIsOnFileOrOver
  <2> SUFFICES ASSUME BalanceInv, TurnedAwayWhenOver, MoneyOnRecord, outdated = {},
                      NEW e \in Events, e[2] = "SUCCESS", webhook[e].answer # 0
               PROVE  \/ paymentStatus[e[1]] \in Refundable \cup {"REFUNDED"}
                      \/ refunded[e[1]] > 0
                      \/ /\ webhook[e].answer = 422
                         /\ status[paymentFor[e[1]]] \notin StillOpen
    BY DEF PaidIsOnFileOrOver, StillOpen
  <2>1. webhook[e].answer \in {200, 202, 422}
    BY DEF BalanceInv, DeskInv, TypeInv, Shape, Typed, Answers
  <2> QED  BY <2>1 DEF MoneyOnRecord, OnRecord, TurnedAwayWhenOver, Turned, Refundable
<1> QED  BY <1>1, <1>2, <1>3, <1>4, BalanceCorrect, PTL DEF DeskSpec

-----------------------------------------------------------------------------
(* The refinement of ManagedLedger, as long as no transaction at the desk   *)
(* committed on an outdated view, and what ManagedLedger promises, proved   *)
(* of the ledger these columns are.                                        *)

\* A step of the ledger is one of the managed ledger.
LEMMA ManagedLedgerSteps ==
  ASSUME [Ledger!LedgerNext]_(Ledger!ledgerVars)
  PROVE  [Managed!ManagedNext]_(Managed!ledgerVars)
BY DEF Ledger!LedgerNext, Ledger!ledgerVars, Ledger!Place, Ledger!Expire, Ledger!Sell,
   Ledger!Complete, Managed!ManagedNext, Managed!LedgerNext, Managed!ledgerVars,
   Managed!Place, Managed!Expire, Managed!Sell, Managed!Complete, Ledger!NONE,
   Managed!NONE

\* What is taken back was counted: GREATEST(soldRooms - quantity, 0) is the difference.
LEMMA TakenBackWasSold ==
  ASSUME TypeInv, DeskTyped, Balanced, NEW r \in Reservations, status[r] = "CONFIRMED",
         NEW n \in Nights, n \in Stay[r]
  PROVE  GREATEST(soldRooms[n] - Quantity[r], 0) = soldRooms[n] - Quantity[r]
<1> DEFINE H == Occupants(n)
           G == H \ {r}
<1>1. H \in SUBSET Reservations /\ G \in SUBSET Reservations /\ r \in H
  BY DEF Occupants, SoldStatuses
<1>2. G \cup {r} = H /\ r \notin G
  BY <1>1
<1>3. soldRooms[n] = Cardinality(RoomsOf(H))
  BY DEF Balanced
<1> HIDE DEF H, G
<1>4. Cardinality(RoomsOf(G \cup {r})) = Cardinality(RoomsOf(G)) + Quantity[r]
  BY <1>1, <1>2, RoomsOfMore
<1>5. Cardinality(RoomsOf(G)) \in Nat
  BY <1>1, RoomsOfFewer
<1>6. Quantity[r] \in Nat
  BY StaysAssumption
<1> DEFINE k == Cardinality(RoomsOf(G))
           q == Quantity[r]
           s == soldRooms[n]
<1>7. k \in Nat /\ q \in Nat /\ s = k + q
  BY <1>2, <1>3, <1>4, <1>5, <1>6
<1> HIDE DEF k, q, s
<1>8. GREATEST(s - q, 0) = s - q
  BY <1>7 DEF GREATEST
<1> QED  BY <1>8 DEF s, q

\* What a clerk does to a stay on a view that is still true is a move of the ledger.
LEMMA ManagedMove ==
  ASSUME TypeInv, DeskTyped, Balanced, NEW r \in Reservations, DeskMove(r)
  PROVE  Managed!ManagedNext
<1> DEFINE held == { x \in Reservations : rowsExpireAt[x] # 0 }
<1>0. /\ status \in [Reservations -> AnyStatus]
      /\ rowsExpireAt \in [Reservations -> Nat]
  BY DEF TypeInv, Shape, Typed
<1>1. held = { x \in Reservations : status[x] = "PAYMENT_PENDING" }
  BY DEF Balanced, RowsExactlyWhilePending
<1>2. CASE Accepted(r)
  <2>1. Managed!Sell(r)
    BY <1>0, <1>2 DEF Accepted, sellRooms, Managed!Sell
  <2> QED  BY <2>1 DEF Managed!ManagedNext, Managed!LedgerNext
<1>3. CASE Released(r)
  <2>1. Managed!Withdraw(r)
    BY <1>0, <1>3 DEF Released, Managed!Withdraw
  <2> QED  BY <2>1 DEF Managed!ManagedNext
<1>4. CASE TakenBack(r)
  <2>1. status[r] = "CONFIRMED" /\ restoreSoldRooms(r)
    BY <1>4 DEF TakenBack
  <2>2. \A n \in Nights : n \in Stay[r]
          => GREATEST(soldRooms[n] - Quantity[r], 0) = soldRooms[n] - Quantity[r]
    BY <2>1, TakenBackWasSold
  <2>3. soldRooms' = [n \in Nights |->
                        IF n \in Stay[r] THEN soldRooms[n] - Quantity[r]
                                         ELSE soldRooms[n]]
    BY <2>1, <2>2 DEF restoreSoldRooms
  <2>4. Managed!TakeBack(r)
    BY <1>4, <2>3 DEF TakenBack, Managed!TakeBack
  <2> QED  BY <2>4 DEF Managed!ManagedNext
<1>5. CASE NotShown(r)
  <2>1. Managed!NoShow(r)
    BY <1>5 DEF NotShown, Managed!NoShow
  <2> QED  BY <2>1 DEF Managed!ManagedNext
<1>6. CASE Completed(r)
  <2>1. Managed!Complete(r)
    BY <1>6 DEF Completed, Managed!Complete
  <2> QED  BY <2>1 DEF Managed!ManagedNext, Managed!LedgerNext
<1>7. CASE Deleted(r)
  <2>1. r \notin held
    BY <1>1, <1>7 DEF Deleted
  <2>2. held' = held
    BY <1>0, <1>7, <2>1 DEF Deleted
  <2>3. Managed!Erase(r)
    BY <1>7, <2>2 DEF Deleted, Managed!Erase
  <2> QED  BY <2>3 DEF Managed!ManagedNext
<1> QED  BY <1>2, <1>3, <1>4, <1>5, <1>6, <1>7 DEF DeskMove

\* A step that leaves no view outdated is one of the managed ledger, or none.
LEMMA ManagedSteps ==
  ASSUME BalanceInv, [DeskNext]_hotelVars, outdated' = {}
  PROVE  [Managed!ManagedNext]_(Managed!ledgerVars)
<1>1. DeskInv /\ TypeInv /\ CreatingInv /\ DeskTyped
  BY DEF BalanceInv, DeskInv
<1>2. CASE [Next]_vars /\ UNCHANGED deskVars
  <2>1. [Ledger!LedgerNext]_(Ledger!ledgerVars)
    BY <1>1, <1>2, LedgerSteps
  <2> QED  BY <2>1, ManagedLedgerSteps
<1>3. ASSUME NEW c \in Clerks, DeskStep(c)
      PROVE  [Managed!ManagedNext]_(Managed!ledgerVars)
  <2>1. Balanced
    BY <1>1, <1>3, DeskFrame DEF BalanceInv
  <2>2. Untouched \/ \E r \in Reservations : DeskMove(r)
    BY <1>1, <1>3, <2>1, DeskMoves DEF Balanced
  <2>3. CASE Untouched
    BY <2>3 DEF Untouched, Managed!ledgerVars
  <2>4. ASSUME NEW r \in Reservations, DeskMove(r)
        PROVE  Managed!ManagedNext
    BY <1>1, <2>1, <2>4, ManagedMove
  <2> QED  BY <2>2, <2>3, <2>4
<1> QED  BY <1>2, <1>3, HotelStep

\* With an administrator at work, as long as no transaction at the desk committed on
\* an outdated view, the bookings, their holds and the rooms sold are a managed
\* ledger: whatever guests, jobs, notifications and clerks do in whatever order.
THEOREM ManagedLedgerImplemented == DeskSpec => DeskKeepsTheLedger
<1>1. DeskInit => Managed!LedgerInit
  BY DEF DeskInit, Init, BookingsInit, Managed!LedgerInit, Managed!NONE, NONE
<1>2. BalanceInv /\ [DeskNext]_hotelVars
        => [outdated' = {} => [Managed!ManagedNext]_(Managed!ledgerVars)]_hotelVars
  BY ManagedSteps
<1> QED  BY <1>1, <1>2, BalanceCorrect, PTL DEF DeskSpec, DeskKeepsTheLedger

\* The stays on file that occupy a night, with the bookings' own definitions.
OnFile(n) ==
  { r \in Reservations : n \in Stay[r] /\ status[r] \in SoldStatuses \cup {"NO_SHOW"} }

\* The managed ledger's columns have their types, its holds are those of the stays
\* that wait, and the rooms of every stay on file are counted.
ManagedInv ==
  /\ status \in [Reservations -> AnyStatus]
  /\ soldRooms \in [Nights -> Nat]
  /\ RowsExactlyWhilePending
  /\ \A n \in Nights : soldRooms[n] >= Cardinality(RoomsOf(OnFile(n)))

LEMMA ManagedWords ==
  ManagedInv => Managed!HeldExactlyWhilePending /\ Managed!StaysHaveRooms
BY DEF ManagedInv, RowsExactlyWhilePending, Managed!HeldExactlyWhilePending,
       Managed!StaysHaveRooms, Managed!OccupiedBy, Managed!SoldStatuses, Managed!RoomsOf,
       Managed!Cardinality, Cardinality, RoomsOf, OnFile, SoldStatuses

\* A stay that is sold, one that is taken back, and none that comes in.
LEMMA RoomsForOneMore ==
  ASSUME NEW n \in Nights, NEW r \in Reservations, r \notin OnFile(n),
         soldRooms[n] \in Nat, soldRooms[n] >= Cardinality(RoomsOf(OnFile(n))),
         OnFile(n)' = OnFile(n) \cup {r}, soldRooms'[n] = soldRooms[n] + Quantity[r]
  PROVE  soldRooms'[n] \in Nat /\ soldRooms'[n] >= Cardinality(RoomsOf(OnFile(n)'))
<1> DEFINE H == OnFile(n)
           k == Cardinality(RoomsOf(H))
           q == Quantity[r]
           s == soldRooms[n]
<1>1. H \in SUBSET Reservations /\ r \notin H
  BY DEF OnFile
<1>2. OnFile(n)' = H \cup {r} /\ s >= k /\ s \in Nat /\ soldRooms'[n] = s + q
  OBVIOUS
<1> HIDE DEF H
<1>3. Cardinality(RoomsOf(H \cup {r})) = k + q
  BY <1>1, RoomsOfMore
<1>4. k \in Nat /\ q \in Nat
  BY <1>1, RoomsOfFewer, StaysAssumption
<1> HIDE DEF k, q, s
<1>5. s + q \in Nat /\ s + q >= k + q
  BY <1>2, <1>4
<1> QED  BY <1>2, <1>3, <1>5

LEMMA RoomsForOneLess ==
  ASSUME NEW n \in Nights, NEW r \in Reservations, r \in OnFile(n),
         soldRooms[n] \in Nat, soldRooms[n] >= Cardinality(RoomsOf(OnFile(n))),
         OnFile(n)' = OnFile(n) \ {r}, soldRooms'[n] = soldRooms[n] - Quantity[r]
  PROVE  soldRooms'[n] \in Nat /\ soldRooms'[n] >= Cardinality(RoomsOf(OnFile(n)'))
<1> DEFINE G == OnFile(n) \ {r}
           k == Cardinality(RoomsOf(G))
           q == Quantity[r]
           s == soldRooms[n]
<1>1. G \in SUBSET Reservations /\ r \notin G /\ OnFile(n) = G \cup {r}
  BY DEF OnFile
<1>2. OnFile(n)' = G /\ s \in Nat /\ soldRooms'[n] = s - q
  OBVIOUS
<1>3. s >= Cardinality(RoomsOf(G \cup {r}))
  BY <1>1
<1> HIDE DEF G
<1>4. Cardinality(RoomsOf(G \cup {r})) = k + q
  BY <1>1, RoomsOfMore
<1>5. k \in Nat /\ q \in Nat
  BY <1>1, RoomsOfFewer, StaysAssumption
<1> HIDE DEF s
<1>6. s >= k + q
  BY <1>3, <1>4
<1> HIDE DEF k, q
<1>7. s - q \in Nat /\ s - q >= k
  BY <1>2, <1>5, <1>6
<1> QED  BY <1>2, <1>7 DEF k

LEMMA RoomsForNoMore ==
  ASSUME NEW n \in Nights, soldRooms[n] \in Nat,
         soldRooms[n] >= Cardinality(RoomsOf(OnFile(n))),
         OnFile(n)' \subseteq OnFile(n), soldRooms'[n] = soldRooms[n]
  PROVE  soldRooms'[n] \in Nat /\ soldRooms'[n] >= Cardinality(RoomsOf(OnFile(n)'))
<1> DEFINE H == OnFile(n)
           G == OnFile(n)'
           k == Cardinality(RoomsOf(H))
           j == Cardinality(RoomsOf(G))
           s == soldRooms[n]
<1>1. H \in SUBSET Reservations /\ G \in SUBSET H
  BY DEF OnFile
<1>2. s \in Nat /\ s >= k /\ soldRooms'[n] = s
  OBVIOUS
<1> HIDE DEF H, G
<1>3. k \in Nat /\ j \in Nat /\ j <= k
  BY <1>1, RoomsOfFewer
<1> HIDE DEF k, j, s
<1>4. s >= j
  BY <1>2, <1>3
<1> QED  BY <1>2, <1>4 DEF j, G

\* What a move of the managed ledger does to the rooms of one night.
LEMMA ManagedRooms ==
  ASSUME ManagedInv, [Managed!ManagedNext]_(Managed!ledgerVars), NEW n \in Nights
  PROVE  soldRooms'[n] \in Nat /\ soldRooms'[n] >= Cardinality(RoomsOf(OnFile(n)'))
<1>1. soldRooms[n] \in Nat /\ soldRooms[n] >= Cardinality(RoomsOf(OnFile(n)))
  BY DEF ManagedInv
<1>2. status \in [Reservations -> AnyStatus]
  BY DEF ManagedInv
<1> DEFINE Goal == /\ soldRooms'[n] \in Nat
                   /\ soldRooms'[n] >= Cardinality(RoomsOf(OnFile(n)'))
<1>3. ASSUME OnFile(n)' \subseteq OnFile(n), soldRooms'[n] = soldRooms[n]
      PROVE  Goal
  BY <1>1, <1>3, RoomsForNoMore
<1>4. ASSUME NEW r \in Reservations,
             \/ Managed!Place(r) \/ Managed!Expire(r) \/ Managed!Complete(r)
             \/ Managed!Withdraw(r) \/ Managed!NoShow(r) \/ Managed!Erase(r)
      PROVE  OnFile(n)' \subseteq OnFile(n) /\ soldRooms'[n] = soldRooms[n]
  BY <1>2, <1>4 DEF OnFile, SoldStatuses, Managed!Place, Managed!Expire, Managed!Complete,
     Managed!Withdraw, Managed!NoShow, Managed!Erase, Managed!NONE
<1>5. ASSUME NEW r \in Reservations, Managed!Sell(r)
      PROVE  Goal
  <2>1. CASE n \in Stay[r]
    <3>1. r \notin OnFile(n) /\ OnFile(n)' = OnFile(n) \cup {r}
      BY <1>2, <1>5, <2>1 DEF Managed!Sell, OnFile, SoldStatuses
    <3>2. soldRooms'[n] = soldRooms[n] + Quantity[r]
      BY <1>5, <2>1 DEF Managed!Sell
    <3> QED  BY <1>1, <3>1, <3>2, RoomsForOneMore
  <2>2. CASE n \notin Stay[r]
    BY <1>2, <1>3, <1>5, <2>2 DEF Managed!Sell, OnFile
  <2> QED  BY <2>1, <2>2
<1>6. ASSUME NEW r \in Reservations, Managed!TakeBack(r)
      PROVE  Goal
  <2>1. CASE n \in Stay[r]
    <3>1. r \in OnFile(n) /\ OnFile(n)' = OnFile(n) \ {r}
      BY <1>2, <1>6, <2>1 DEF Managed!TakeBack, OnFile, SoldStatuses
    <3>2. soldRooms'[n] = soldRooms[n] - Quantity[r]
      BY <1>6, <2>1 DEF Managed!TakeBack
    <3> QED  BY <1>1, <3>1, <3>2, RoomsForOneLess
  <2>2. CASE n \notin Stay[r]
    BY <1>2, <1>3, <1>6, <2>2 DEF Managed!TakeBack, OnFile
  <2> QED  BY <2>1, <2>2
<1>7. CASE UNCHANGED Managed!ledgerVars
  BY <1>3, <1>7 DEF Managed!ledgerVars, OnFile
<1> QED  BY <1>3, <1>4, <1>5, <1>6, <1>7 DEF Managed!ManagedNext, Managed!LedgerNext

LEMMA ManagedStep ==
  ManagedInv /\ [Managed!ManagedNext]_(Managed!ledgerVars) => ManagedInv'
<1> SUFFICES ASSUME ManagedInv, [Managed!ManagedNext]_(Managed!ledgerVars)
             PROVE  ManagedInv'
  OBVIOUS
<1> USE DEF Managed!ManagedNext, Managed!LedgerNext, Managed!ledgerVars, Managed!Place,
            Managed!Expire, Managed!Sell, Managed!Complete, Managed!Withdraw,
            Managed!TakeBack, Managed!NoShow, Managed!Erase
<1>1. status' \in [Reservations -> AnyStatus]
  BY DEF ManagedInv, AnyStatus, ReservationStatus
<1>2. RowsExactlyWhilePending'
  BY DEF ManagedInv, RowsExactlyWhilePending, Managed!NONE
<1>3. soldRooms' = [n \in Nights |-> soldRooms'[n]]
  BY DEF ManagedInv
<1> QED  BY <1>1, <1>2, <1>3, ManagedRooms DEF ManagedInv

LEMMA ManagedStart == Managed!LedgerInit => ManagedInv
<1> SUFFICES ASSUME Managed!LedgerInit
             PROVE  ManagedInv
  OBVIOUS
<1>1. \A n \in Nights : OnFile(n) = {}
  BY DEF Managed!LedgerInit, OnFile, SoldStatuses, Managed!NONE
<1>2. \A n \in Nights : soldRooms[n] >= Cardinality(RoomsOf(OnFile(n)))
  BY <1>1, RoomsOfNone DEF Managed!LedgerInit
<1> QED  BY <1>2 DEF Managed!LedgerInit, ManagedInv, RowsExactlyWhilePending, AnyStatus,
         Managed!NONE, NONE

\* In the managed ledger a hold is there exactly while its stay waits, and the rooms
\* of every stay on file, no-shows included, are counted as sold.
THEOREM ManagedLedgerCorrect ==
  Managed!ManagedSpec => [](Managed!HeldExactlyWhilePending /\ Managed!StaysHaveRooms)
BY ManagedStart, ManagedStep, ManagedWords, PTL DEF Managed!ManagedSpec

\* A reservation of the managed ledger moves along the edges of the lifecycle, and is
\* erased only when it is over.
THEOREM ManagedMovesLegally == Managed!ManagedSpec => Managed!ManagedTransitions
<1> DEFINE Legal ==
      \A r \in Reservations :
        status'[r] # status[r]
          => \/ Managed!canTransition(status[r], status'[r])
             \/ status[r] = Managed!NONE /\ status'[r] = "PAYMENT_PENDING"
             \/ /\ status[r] \in {"CANCELLED", "EXPIRED", "NO_SHOW"}
                /\ status'[r] = "DELETED"
<1>1. ManagedInv /\ [Managed!ManagedNext]_(Managed!ledgerVars) => [Legal]_status
  BY DEF ManagedInv, Managed!ManagedNext, Managed!LedgerNext, Managed!ledgerVars,
         Managed!Place, Managed!Expire, Managed!Sell, Managed!Complete, Managed!Withdraw,
         Managed!TakeBack, Managed!NoShow, Managed!Erase, Managed!canTransition,
         Managed!ALLOWED_TRANSITIONS
<1> QED  BY <1>1, ManagedStart, ManagedStep, PTL DEF Managed!ManagedSpec, Managed!ManagedTransitions

-----------------------------------------------------------------------------
(* What an administrator leaves as it is, on views outdated or not.        *)

\* The payments a clerk's step writes are refunds.
LEMMA DeskPayments ==
  ASSUME DeskInv, NEW c \in Clerks, DeskStep(c)
  PROVE  \/ UNCHANGED paymentStatus
         \/ /\ RefundPayment(c)
            /\ \A p \in Payments :
                 \/ paymentStatus'[p] = paymentStatus[p]
                 \/ paymentStatus'[p] \in {"REFUNDED", "PARTIALLY_REFUNDED"}
<1> USE DEF vars, paymentVars
<1>1. CASE RefundPayment(c)
  <2>1. paymentStatus \in [Payments -> AnyPaidStatus]
    BY DEF DeskInv, TypeInv, Shape, Typed
  <2>2. PICK p \in Payments :
          \/ paymentStatus' = [paymentStatus EXCEPT ![p] = "REFUNDED"]
          \/ paymentStatus' = [paymentStatus EXCEPT ![p] = "PARTIALLY_REFUNDED"]
    BY <1>1, RefundFacts
  <2> QED  BY <1>1, <2>1, <2>2
<1>2. CASE UNCHANGED <<vars, refunded, outdated, noShows, waived>>
  BY <1>2
<1>3. CASE Accept(c) \/ Cancel(c) \/ MarkNoShow(c) \/ Complete(c) \/ Credit(c) \/ Delete(c)
  BY <1>3 DEF Accept, Cancel, MarkNoShow, Complete, Credit, Delete
<1> QED  BY DeskChanges, <1>1, <1>2, <1>3

\* No two payments of a booking are ever PENDING together with an administrator at
\* work either: no operation at the desk opens an attempt again, or lets a guest
\* open a second one.
THEOREM DeskKeepsAttemptsApart == DeskSpec => []OneLiveAttempt
<1>1. DeskInit => OneLiveAttempt
  BY DEF DeskInit, Init, OneLiveAttempt, NONE
<1>2. DeskInv /\ OneLiveAttempt /\ [DeskNext]_hotelVars => OneLiveAttempt'
  <2> SUFFICES ASSUME DeskInv, OneLiveAttempt, [DeskNext]_hotelVars
               PROVE  OneLiveAttempt'
    OBVIOUS
  <2>1. CASE [Next]_vars /\ UNCHANGED deskVars
    BY <2>1, OneLiveStep DEF DeskInv
  <2>2. ASSUME NEW c \in Clerks, DeskStep(c)
        PROVE  OneLiveAttempt'
    <3>1. \A p \in Payments : paymentStatus'[p] = "PENDING" => paymentStatus[p] = "PENDING"
      BY <2>2, DeskPayments
    <3>2. UNCHANGED paymentFor
      BY <2>2, DeskFrame
    <3> QED  BY <3>1, <3>2 DEF OneLiveAttempt
  <2> QED  BY <2>1, <2>2, HotelStep
<1> QED  BY <1>1, <1>2, DeskCorrect, PTL DEF DeskSpec

\* Captured money is taken back by an administrator's refund and by nothing else:
\* neither cancelling, removing or marking a booking, nor a job, nor a late, repeated
\* or contradicting notification about it does.
THEOREM OnlyRefundsTakeMoneyBack ==
  DeskSpec =>
    [][\A p \in Payments :
         paymentStatus[p] = "CAPTURED" /\ paymentStatus'[p] # "CAPTURED"
           => /\ \E c \in Clerks : RefundPayment(c)
              /\ paymentStatus'[p] \in {"REFUNDED", "PARTIALLY_REFUNDED"}]_hotelVars
<1> DEFINE Refunds == \A p \in Payments :
             paymentStatus[p] = "CAPTURED" /\ paymentStatus'[p] # "CAPTURED"
               => /\ \E c \in Clerks : RefundPayment(c)
                  /\ paymentStatus'[p] \in {"REFUNDED", "PARTIALLY_REFUNDED"}
<1>1. ASSUME DeskInv, [DeskNext]_hotelVars
      PROVE  Refunds
  <2>1. CASE [Next]_vars /\ UNCHANGED deskVars
    BY <1>1, <2>1, CapturedStep DEF DeskInv
  <2>2. ASSUME NEW c \in Clerks, DeskStep(c)
        PROVE  Refunds
    BY <1>1, <2>2, DeskPayments
  <2> QED  BY <1>1, <2>1, <2>2, HotelStep
<1>2. DeskInv /\ [DeskNext]_hotelVars => [Refunds]_hotelVars
  BY <1>1
<1> QED  BY <1>2, DeskCorrect, PTL DEF DeskSpec
=============================================================================
