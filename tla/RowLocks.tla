------------------------------ MODULE RowLocks ------------------------------
(***************************************************************************)
(* The row locks of the transactions that work on bookings, and the order  *)
(* in which they are taken: PostgreSQL's locks, held until the transaction *)
(* ends.  The other modules take a transaction that has its locks as one   *)
(* step; this one opens it up, to ask who may wait for whom.               *)
(*                                                                         *)
(* What a transaction locks is a set, left[t], emptied in the order of its *)
(* statements.  Rows that one request alone can name (the event, the key,  *)
(* the quote, a new reservation) are left out, and so are the shared locks *)
(* of foreign keys on rows that nobody locks FOR UPDATE.                   *)
(***************************************************************************)
EXTENDS Integers, BookingLifecycle

CONSTANTS
  Transactions,
  Reservations,
  Users,
  NightCount,   \* room_inventory rows are numbered in (roomTypeId, date) order
  NightsOf,     \* NightsOf[r]: the rows of the stay of r
  UserOf,       \* UserOf[r]: reservations.userId
  Redeemed,     \* the reservations that coins are redeemed for
  None          \* no reservation

ASSUME RowLocksAssumption ==
  /\ NightCount \in Nat
  /\ NightsOf \in [Reservations -> SUBSET (1 .. NightCount)]
  /\ UserOf \in [Reservations -> Users]
  /\ Redeemed \subseteq Reservations
  /\ None \notin Reservations

VARIABLES
  status,   \* reservations.status, as committed
  kind,     \* what the transaction is, "idle" if there is none
  res,      \* the reservation it is about
  held,     \* the locks it has
  left,     \* the locks it has still to take
  to,       \* the status it will write, NONE if it leaves it
  saw       \* the status it read under FOR UPDATE

vars == <<status, kind, res, held, left, to, saw>>

-----------------------------------------------------------------------------
(* What is locked, how strongly, in which order.                           *)

BookingRow(r) == [on |-> "booking", id |-> r]
Nights(r)     == { [on |-> "night", id |-> n] : n \in NightsOf[r] }
HoldRows(r)   == { [on |-> "hold", id |-> r, night |-> n] : n \in NightsOf[r] }
GuestRow(r)   == [on |-> "guest", id |-> r]
Coins(r)      == { [on |-> "coins", id |-> UserOf[x]] : x \in Redeemed \cap {r} }
CoinsEarned(r) == [on |-> "coins", id |-> UserOf[r]]
PaymentRow(r) == [on |-> "payments", id |-> r]

\* Decided under SELECT ... FOR UPDATE of the reservation, the first statement.
RowFirst == {"expire", "notify", "session", "complete", "remove"}

\* Decided on a view read before, or on no reservation at all.
Viewing == {"create", "extend", "extendRows", "fail", "credit", "edit", "update",
            "accept", "cancel", "refund", "noShow", "deleteRange"}

Kinds == RowFirst \cup Viewing

\* What takes its locks in an order of its own, or in the order of a scan alone:
\* operations of the administrator, and tryExtendHold's second statement.
OutOfOrder == {"update", "accept", "cancel", "refund", "deleteRange", "extendRows"}

\* Mutant: the expiry job reads the reservation without FOR UPDATE.
StrengthUnlocked(k, l) ==
  IF l.on = "booking" /\ k = "expire" THEN "share"
  ELSE IF l.on = "booking" /\ k \notin RowFirst
       THEN IF k = "refund" THEN "share" ELSE "update"
       ELSE "full"

\* FOR UPDATE and DELETE are "full"; an UPDATE of the reservation is "update";
\* a foreign key that refers to it is "share".
Strength(k, l) ==
  IF l.on = "booking" /\ k \notin RowFirst
  THEN IF k = "refund" THEN "share" ELSE "update"
  ELSE "full"

Conflict(a, b) == "full" \in {a, b} \/ (a = "update" /\ b = "update")

\* The order of a transaction's statements, by the tables they lock.
ClassOrder(k) ==
  CASE k \in {"accept", "cancel"} ->
         [guest |-> 1, night |-> 2, hold |-> 3, booking |-> 4, coins |-> 5, payments |-> 6]
    [] k = "credit" ->
         [guest |-> 1, night |-> 2, hold |-> 3, coins |-> 4, booking |-> 5, payments |-> 6]
    [] k \in {"refund", "update"} ->
         [guest |-> 1, night |-> 2, hold |-> 3, coins |-> 4, payments |-> 5, booking |-> 6]
    [] OTHER ->
         [booking |-> 1, guest |-> 2, night |-> 3, hold |-> 4, coins |-> 5, payments |-> 6]

\* Mutant: the locking SELECTs have no ORDER BY.
Unordered(k) == FALSE

\* Nights are locked in their order by SELECT ... ORDER BY ... FOR UPDATE and
\* by the editor's upserts, in the order of the scan by a bare UPDATE or DELETE;
\* hold rows are always locked in the order of a scan.
InDateOrder(k) == k \notin {"cancel", "deleteRange"}

Precedes(k, a, b) ==
  \/ ClassOrder(k)[a.on] < ClassOrder(k)[b.on]
  \/ a.on = "night" /\ b.on = "night" /\ InDateOrder(k) /\ a.id < b.id

Wanted(t) == { l \in left[t] : \A m \in left[t] : ~Precedes(kind[t], m, l) }

Against(t, l, u) ==
  /\ l \in held[u]
  /\ Conflict(Strength(kind[t], l), Strength(kind[u], l))

Free(t, l) == \A u \in Transactions \ {t} : ~Against(t, l, u)

WaitsFor(t, u) == t # u /\ \E l \in Wanted(t) : Against(t, l, u)

-----------------------------------------------------------------------------
(* What a transaction does once it knows the reservation's status: the     *)
(* locks it goes on to take and the status it writes.                      *)

Plan(locks, s) == [locks |-> locks, to |-> s]

Nothing == {Plan({}, NONE)}

ExpirePlans(r, s) ==
  Nothing \cup (IF s = "PAYMENT_PENDING"
                THEN {Plan(HoldRows(r) \cup Coins(r), "EXPIRED")} ELSE {})

\* A success converts the hold or sells the items; with no room left, or for a
\* booking that needs no payment, it is captured for refund; a failure marks
\* the payment.
NotifyPlans(r, s) ==
  Nothing
  \cup (IF s # "DELETED" THEN {Plan({PaymentRow(r)}, NONE)} ELSE {})
  \cup (IF s \in {"PAYMENT_PENDING", "EXPIRED"}
        THEN {Plan(Nights(r) \cup {PaymentRow(r)}, NONE),
              Plan(Nights(r) \cup HoldRows(r) \cup {PaymentRow(r)}, "CONFIRMED")}
        ELSE {})

SessionPlans(r, s) ==
  Nothing \cup (IF s # "DELETED" THEN {Plan({PaymentRow(r)}, NONE)} ELSE {})

CompletePlans(r, s) ==
  IF s = "CONFIRMED" THEN {Plan({}, "COMPLETED")} ELSE Nothing

\* The reservation's row goes, and its guest and hold rows with it (ON DELETE
\* CASCADE).
RemovePlans(r, s) ==
  IF s = "DELETED" THEN Nothing ELSE {Plan({GuestRow(r)} \cup HoldRows(r), "DELETED")}

PlansUnderLock(k, r, s) ==
  CASE k = "expire"   -> ExpirePlans(r, s)
    [] k = "notify"   -> NotifyPlans(r, s)
    [] k = "session"  -> SessionPlans(r, s)
    [] k = "complete" -> CompletePlans(r, s)
    [] k = "remove"   -> RemovePlans(r, s)

CancelPlans(r, s) ==
  { Plan(first \cup {BookingRow(r)} \cup Coins(r) \cup last, "CANCELLED") :
      first \in {IF s = "CONFIRMED" THEN Nights(r) ELSE HoldRows(r)},
      last \in {{}, {PaymentRow(r)}} }

PlansOnView(k, r, s) ==
  CASE k = "create" /\ s = NONE ->
         {Plan(Nights(r) \cup Coins(r), "PAYMENT_PENDING")}
    [] k = "extend" /\ s = "PAYMENT_PENDING" -> {Plan({BookingRow(r)}, NONE)}
    [] k = "extendRows" -> {Plan(HoldRows(r), NONE)}
    [] k = "fail" -> {Plan({PaymentRow(r)}, NONE)}
    [] k = "credit" /\ s = "COMPLETED" ->
         {Plan({CoinsEarned(r), BookingRow(r)}, NONE), Plan({BookingRow(r)}, NONE)}
    [] k = "update" -> {Plan(rows, NONE) : rows \in SUBSET {GuestRow(r), BookingRow(r)}}
    [] k = "accept" /\ s = "PAYMENT_PENDING" ->
         {Plan(Nights(r) \cup HoldRows(r) \cup {BookingRow(r)}, "CONFIRMED")}
    [] k = "cancel" /\ s \in {"PAYMENT_PENDING", "CONFIRMED"} -> CancelPlans(r, s)
    [] k = "refund" -> {Plan({PaymentRow(r), BookingRow(r)}, NONE)}
    [] k = "noShow" /\ s = "CONFIRMED" -> {Plan({BookingRow(r)}, "NO_SHOW")}
    [] k \in {"edit", "deleteRange"} -> {Plan(Nights(r), NONE)}
    [] OTHER -> {}

-----------------------------------------------------------------------------
Init ==
  /\ status = [r \in Reservations |-> NONE]
  /\ kind = [t \in Transactions |-> "idle"]
  /\ res = [t \in Transactions |-> None]
  /\ held = [t \in Transactions |-> {}]
  /\ left = [t \in Transactions |-> {}]
  /\ to = [t \in Transactions |-> NONE]
  /\ saw = [t \in Transactions |-> NONE]

\* A reservation is created by one request.
BeingCreated(r) == \E u \in Transactions : kind[u] = "create" /\ res[u] = r

Begin(t, k, r) ==
  /\ kind[t] = "idle"
  /\ k = "create" => ~BeingCreated(r)
  /\ k \notin {"create", "edit", "deleteRange"} => status[r] \notin {NONE, "DELETED"}
  /\ k = "remove" => status[r] \in {"CANCELLED", "EXPIRED", "NO_SHOW"}
  /\ kind' = [kind EXCEPT ![t] = k]
  /\ res' = [res EXCEPT ![t] = r]
  /\ \E plan \in IF k \in RowFirst THEN {Plan({BookingRow(r)}, NONE)}
                                   ELSE PlansOnView(k, r, status[r]) :
       /\ left' = [left EXCEPT ![t] = plan.locks]
       /\ to' = [to EXCEPT ![t] = plan.to]
  /\ UNCHANGED <<status, held, saw>>

\* A statement gets its lock.
Lock(t, l) ==
  /\ l \in Wanted(t)
  /\ Free(t, l)
  /\ held' = [held EXCEPT ![t] = @ \cup {l}]
  /\ UNCHANGED <<status, kind, res>>

\* The reservation is locked, read, and decided upon.
DecideUnderLock(t, l) ==
  /\ kind[t] \in RowFirst /\ l = BookingRow(res[t])
  /\ Lock(t, l)
  /\ saw' = [saw EXCEPT ![t] = status[res[t]]]
  /\ \E plan \in PlansUnderLock(kind[t], res[t], status[res[t]]) :
       /\ left' = [left EXCEPT ![t] = plan.locks]
       /\ to' = [to EXCEPT ![t] = plan.to]

\* An UPDATE of a reservation or a guest that is gone fails.
LockNext(t, l) ==
  /\ ~(kind[t] \in RowFirst /\ l = BookingRow(res[t]))
  /\ l.on \in {"booking", "guest"} => status[res[t]] # "DELETED"
  /\ Lock(t, l)
  /\ left' = [left EXCEPT ![t] = @ \ {l}]
  /\ UNCHANGED <<to, saw>>

End(t) ==
  /\ kind' = [kind EXCEPT ![t] = "idle"]
  /\ res' = [res EXCEPT ![t] = None]
  /\ held' = [held EXCEPT ![t] = {}]
  /\ left' = [left EXCEPT ![t] = {}]
  /\ to' = [to EXCEPT ![t] = NONE]
  /\ saw' = [saw EXCEPT ![t] = NONE]

Commit(t) ==
  /\ kind[t] # "idle" /\ left[t] = {}
  /\ status' = [status EXCEPT ![res[t]] = IF to[t] = NONE THEN @ ELSE to[t]]
  /\ End(t)

\* Whatever is thrown, a lost connection, a timeout, a deadlock's victim.
RollBack(t) ==
  /\ kind[t] # "idle"
  /\ End(t)
  /\ UNCHANGED status

Next ==
  \E t \in Transactions :
    \/ \E k \in Kinds, r \in Reservations : Begin(t, k, r)
    \/ \E l \in left[t] : DecideUnderLock(t, l) \/ LockNext(t, l)
    \/ Commit(t)
    \/ RollBack(t)

Spec == Init /\ [][Next]_vars

-----------------------------------------------------------------------------
Locks ==
  [on : {"booking", "guest", "payments"}, id : Reservations]
  \cup [on : {"hold"}, id : Reservations, night : 1 .. NightCount]
  \cup [on : {"night"}, id : 1 .. NightCount]
  \cup [on : {"coins"}, id : Users]

TypeOK ==
  /\ status \in [Reservations -> ReservationStatus \cup {NONE, "DELETED"}]
  /\ kind \in [Transactions -> Kinds \cup {"idle"}]
  /\ res \in [Transactions -> Reservations \cup {None}]
  /\ held \in [Transactions -> SUBSET Locks]
  /\ left \in [Transactions -> SUBSET Locks]
  /\ to \in [Transactions -> ReservationStatus \cup {NONE, "DELETED"}]
  /\ saw \in [Transactions -> ReservationStatus \cup {NONE, "DELETED"}]

Deadlocked(T) == T # {} /\ \A t \in T : \E u \in T : WaitsFor(t, u)

\* The order in which locks are taken "keeps them queuing instead of
\* deadlocking" (booking-inventory.service.ts, lockAndLoadAvailability and
\* convertHoldsToSold), and what a guest, the payment service, a cron job or the
\* inventory editor's upsert does keeps to it, the credit of coins included,
\* which takes the user before the reservation, and a removal, which takes the
\* guest after it: transactions that all wait for one another include one of the
\* administrator's update, accept, cancel, refundPayment or deleteRange, or the
\* update of a booking's hold rows by which a guest's tryExtendHold ends.
DeadlocksNeedOneOutOfOrder ==
  \A T \in SUBSET { t \in Transactions : kind[t] \notin OutOfOrder } : ~Deadlocked(T)

\* "The serialisation point" (reservation-lock.ts, lockReservationById): what a
\* transaction read of the reservation under FOR UPDATE is still so when it
\* commits, whatever the administrator does in between.
DecisionsHold ==
  \A t \in Transactions :
    kind[t] \in RowFirst /\ BookingRow(res[t]) \in held[t]
      => status[res[t]] = saw[t]
=============================================================================
