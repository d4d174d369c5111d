--------------------------- MODULE RowLocksProofs ---------------------------
(***************************************************************************)
(* Theorems about RowLocks, for any number of transactions, reservations,  *)
(* users and nights.                                                       *)
(***************************************************************************)
EXTENDS RowLocks, WellFoundedInduction, TLAPS

\* The locks a kind of transaction may take at all.
MayLock(k, r) ==
  CASE k \in {"create", "edit", "deleteRange"} ->
         Nights(r) \cup (IF k = "create" THEN Coins(r) ELSE {})
    [] k = "expire" -> {BookingRow(r)} \cup HoldRows(r) \cup Coins(r)
    [] k = "notify" -> Nights(r) \cup HoldRows(r) \cup {BookingRow(r), PaymentRow(r)}
    [] k = "session" -> {BookingRow(r), PaymentRow(r)}
    [] k \in {"complete", "extend", "noShow"} -> {BookingRow(r)}
    [] k = "remove" -> {BookingRow(r), GuestRow(r)} \cup HoldRows(r)
    [] k = "extendRows" -> HoldRows(r)
    [] k = "fail" -> {PaymentRow(r)}
    [] k = "credit" -> {CoinsEarned(r), BookingRow(r)}
    [] k = "update" -> {GuestRow(r), BookingRow(r)}
    [] k = "accept" -> Nights(r) \cup HoldRows(r) \cup {BookingRow(r)}
    [] k = "cancel" -> Nights(r) \cup HoldRows(r) \cup Coins(r)
                       \cup {BookingRow(r), PaymentRow(r)}
    [] k = "refund" -> {PaymentRow(r), BookingRow(r)}
    [] OTHER -> {}

\* One lock after another; several hold rows of a booking come in any order.
Follows(k, a, b) ==
  Precedes(k, a, b) \/ (a.on = "hold" /\ b.on = "hold" /\ a # b)

Statuses == ReservationStatus \cup {NONE, "DELETED"}

Typed == TypeOK

Busy ==
  \A t \in Transactions :
    IF kind[t] = "idle" THEN held[t] = {} /\ left[t] = {} /\ to[t] = NONE
                        ELSE res[t] \in Reservations

InBounds ==
  \A t \in Transactions : kind[t] # "idle" =>
    held[t] \subseteq MayLock(kind[t], res[t]) /\ left[t] \subseteq MayLock(kind[t], res[t])

\* A transaction of RowFirst has nothing before it has the reservation.
RowIsFirst ==
  \A t \in Transactions : kind[t] \in RowFirst =>
    \/ held[t] = {} /\ left[t] = {BookingRow(res[t])} /\ to[t] = NONE
    \/ BookingRow(res[t]) \in held[t] /\ BookingRow(res[t]) \notin left[t]

\* What a transaction has, it took before what it has still to take.
TakenInOrder ==
  \A t \in Transactions : kind[t] \notin OutOfOrder =>
    \A h \in held[t], l \in left[t] : Follows(kind[t], h, l)

Exclusive ==
  \A t, u \in Transactions : t # u =>
    \A l \in held[t] : ~Against(t, l, u)

LocksInv == Typed /\ Busy /\ InBounds /\ RowIsFirst /\ TakenInOrder /\ Exclusive

\* Who writes a status has the reservation locked by the time it commits.
Targets ==
  \A t \in Transactions : to[t] # NONE =>
    /\ kind[t] # "refund"
    /\ kind[t] # "create" => BookingRow(res[t]) \in held[t] \cup left[t]
    /\ to[t] = "PAYMENT_PENDING" => kind[t] = "create"
    /\ to[t] = "EXPIRED" => kind[t] = "expire" /\ saw[t] = "PAYMENT_PENDING"

\* A reservation is created once, and what is completed is not held again.
Existence ==
  \A t \in Transactions :
    /\ kind[t] = "create" =>
         /\ status[res[t]] = NONE
         /\ \A u \in Transactions : kind[u] = "create" /\ res[u] = res[t] => u = t
    /\ kind[t] \notin {"idle", "create", "edit", "deleteRange"} =>
         status[res[t]] # NONE
    /\ kind[t] = "credit" => status[res[t]] \notin {"PAYMENT_PENDING", "EXPIRED"}

\* Only a booking that can still be confirmed has nights or coins locked under
\* its own lock.
StillOpen ==
  \A t \in Transactions : kind[t] \in RowFirst /\ BookingRow(res[t]) \in held[t] =>
    \A l \in left[t] : l.on \in {"night", "coins"} =>
      saw[t] \in {"PAYMENT_PENDING", "EXPIRED"}

StatusInv == Targets /\ Existence /\ DecisionsHold /\ StillOpen

RowLocksInv == LocksInv /\ StatusInv

-----------------------------------------------------------------------------
(* The locks and their order.                                              *)

LEMMA MayLockTyped ==
  ASSUME NEW k, NEW r \in Reservations
  PROVE  MayLock(k, r) \subseteq Locks
<1>1. Nights(r) \subseteq Locks
  BY RowLocksAssumption DEF Nights, Locks
<1>2. Coins(r) \subseteq Locks /\ CoinsEarned(r) \in Locks
  BY RowLocksAssumption DEF Coins, CoinsEarned, Locks
<1>3. {BookingRow(r), GuestRow(r), PaymentRow(r)} \cup HoldRows(r) \subseteq Locks
  BY RowLocksAssumption DEF BookingRow, GuestRow, HoldRows, PaymentRow, Locks
<1> QED  BY <1>1, <1>2, <1>3 DEF MayLock

\* What the locks of a transaction look like.
LEMMA MayLockShape ==
  ASSUME NEW k \in Kinds, NEW r \in Reservations, NEW l \in MayLock(k, r)
  PROVE  /\ l.on \in {"booking", "guest", "night", "hold", "coins", "payments"}
         /\ l.on = "booking" <=> l = BookingRow(r)
         /\ l.on = "guest" <=> l = GuestRow(r)
         /\ l.on = "hold" <=> l \in HoldRows(r)
         /\ l.on = "payments" <=> l = PaymentRow(r)
         /\ l.on = "coins" <=> l = CoinsEarned(r)
         /\ l.on = "night" <=> l \in Nights(r)
<1> USE DEF Nights, BookingRow, GuestRow, HoldRows, PaymentRow, Coins, CoinsEarned
<1>1. l \in Nights(r) \cup HoldRows(r) \cup Coins(r)
             \cup {BookingRow(r), GuestRow(r), PaymentRow(r), CoinsEarned(r)}
  BY DEF MayLock
<1> QED  BY <1>1

\* In order, two locks of a transaction come one before the other.
LEMMA OneAfterTheOther ==
  ASSUME NEW k \in Kinds \ OutOfOrder, NEW r \in Reservations,
         NEW a \in MayLock(k, r), NEW b \in MayLock(k, r)
  PROVE  /\ ~Follows(k, a, a)
         /\ a # b => Follows(k, a, b) \/ Precedes(k, b, a)
<1>1. InDateOrder(k) /\ ~(k \in {"accept", "cancel", "refund", "update"})
  BY DEF InDateOrder, OutOfOrder
<1>2. a.on \in {"booking", "guest", "night", "hold", "coins", "payments"}
      /\ b.on \in {"booking", "guest", "night", "hold", "coins", "payments"}
  BY MayLockShape DEF OutOfOrder
<1>3. ASSUME a.on = "night"
      PROVE  a.id \in Int /\ a = [on |-> "night", id |-> a.id]
  BY <1>3, MayLockShape, RowLocksAssumption DEF Nights, OutOfOrder
<1>4. ASSUME b.on = "night"
      PROVE  b.id \in Int /\ b = [on |-> "night", id |-> b.id]
  BY <1>4, MayLockShape, RowLocksAssumption DEF Nights, OutOfOrder
<1>5. CASE a.on = b.on
  <2>1. CASE a.on = "night"
    BY <2>1, <1>1, <1>3, <1>4, <1>5 DEF Follows, Precedes, ClassOrder
  <2>2. CASE a.on = "hold"
    BY <2>2, <1>1, <1>5 DEF Follows, Precedes, ClassOrder
  <2>3. CASE a.on \notin {"night", "hold"}
    <3>1. a = b
      BY <2>3, <1>2, <1>5, MayLockShape DEF OutOfOrder
    <3> QED  BY <3>1, <2>3, <1>1, <1>2 DEF Follows, Precedes, ClassOrder
  <2> QED  BY <2>1, <2>2, <2>3
<1>6. CASE a.on # b.on
  <2>1. \/ ClassOrder(k)[a.on] < ClassOrder(k)[b.on]
        \/ ClassOrder(k)[b.on] < ClassOrder(k)[a.on]
    BY <1>1, <1>2, <1>6 DEF ClassOrder
  <2>2. ~(ClassOrder(k)[a.on] < ClassOrder(k)[a.on])
    BY <1>1, <1>2 DEF ClassOrder
  <2>3. ~(a.on = "night" /\ a.id < a.id)
    BY <1>3
  <2> QED  BY <2>1, <2>2, <2>3 DEF Follows, Precedes
<1> QED  BY <1>5, <1>6

\* What can come after a lock, outside OutOfOrder.
LEMMA WhatFollows ==
  ASSUME NEW k \in Kinds \ OutOfOrder, NEW r \in Reservations,
         NEW a \in MayLock(k, r), NEW b \in MayLock(k, r), Follows(k, a, b)
  PROVE  /\ a.on # "payments"
         /\ a.on = "coins" => b.on = "payments" \/ (k = "credit" /\ b.on = "booking")
         /\ a.on = "night" => \/ b.on \in {"hold", "coins", "payments"}
                              \/ b.on = "night" /\ a.id < b.id
         /\ a.on = "booking" /\ k # "credit" =>
              b.on \in {"guest", "night", "hold", "coins", "payments"}
         /\ a.on = "booking" => b.on # "booking"
         /\ a.on = "booking" /\ k = "credit" => FALSE
<1>1. ~(k \in {"accept", "cancel", "refund", "update"})
  BY DEF OutOfOrder
<1>2. /\ a.on \in {"booking", "guest", "night", "hold", "coins", "payments"}
      /\ b.on \in {"booking", "guest", "night", "hold", "coins", "payments"}
  BY MayLockShape DEF OutOfOrder
<1>3. k = "credit" => a.on \in {"coins", "booking"} /\ b.on \in {"coins", "booking"}
  BY DEF MayLock, CoinsEarned, BookingRow
<1> QED  BY <1>1, <1>2, <1>3 DEF Follows, Precedes, ClassOrder

\* Guest and hold rows are locked in order by those alone that lock the
\* reservation first.
LEMMA UnderTheReservation ==
  ASSUME NEW k \in Kinds \ OutOfOrder, NEW r \in Reservations, NEW l \in MayLock(k, r),
         l.on \in {"guest", "hold"}
  PROVE  k \in RowFirst /\ l # BookingRow(r) /\ l.id = r
<1>1. k \notin {"create", "edit", "extend", "noShow", "fail", "credit"}
  BY DEF MayLock, Nights, Coins, CoinsEarned, BookingRow, PaymentRow
<1>2. k \in RowFirst
  BY <1>1 DEF Kinds, Viewing, OutOfOrder
<1>3. l = GuestRow(r) \/ l \in HoldRows(r)
  BY MayLockShape DEF OutOfOrder
<1> QED  BY <1>2, <1>3 DEF GuestRow, HoldRows, BookingRow

-----------------------------------------------------------------------------
(* What a plan asks for.                                                   *)

LEMMA PlansUnderLockFit ==
  ASSUME NEW k \in RowFirst, NEW r \in Reservations, NEW s \in Statuses,
         NEW plan \in PlansUnderLock(k, r, s)
  PROVE  /\ plan.locks \subseteq MayLock(k, r) \ {BookingRow(r)}
         /\ plan.to \in Statuses \ {"PAYMENT_PENDING"}
         /\ plan.to = "EXPIRED" => k = "expire" /\ s = "PAYMENT_PENDING"
         /\ \A l \in plan.locks :
              l.on \in {"night", "coins"} => s \in {"PAYMENT_PENDING", "EXPIRED"}
<1> USE DEF Plan, Nothing, MayLock, Statuses, ReservationStatus, NONE
<1>1. CASE k = "expire"
  BY <1>1 DEF PlansUnderLock, ExpirePlans, HoldRows, Coins, BookingRow
<1>2. CASE k = "notify"
  BY <1>2 DEF PlansUnderLock, NotifyPlans, HoldRows, Nights, PaymentRow, BookingRow
<1>3. CASE k = "session"
  BY <1>3 DEF PlansUnderLock, SessionPlans, PaymentRow, BookingRow
<1>4. CASE k = "complete"
  BY <1>4 DEF PlansUnderLock, CompletePlans
<1>5. CASE k = "remove"
  BY <1>5 DEF PlansUnderLock, RemovePlans, GuestRow, HoldRows, BookingRow
<1> QED  BY <1>1, <1>2, <1>3, <1>4, <1>5 DEF RowFirst

LEMMA PlansOnViewFit ==
  ASSUME NEW k \in Viewing, NEW r \in Reservations, NEW s \in Statuses,
         NEW plan \in PlansOnView(k, r, s)
  PROVE  /\ plan.locks \subseteq MayLock(k, r)
         /\ plan.to \in Statuses \ {"EXPIRED"}
         /\ plan.to # NONE => /\ k # "refund"
                              /\ k # "create" => BookingRow(r) \in plan.locks
         /\ plan.to = "PAYMENT_PENDING" => k = "create"
         /\ k = "create" => s = NONE
         /\ k = "credit" => s = "COMPLETED"
<1> USE DEF Plan, MayLock, Statuses, ReservationStatus, NONE
<1>1. CASE k = "cancel"
  BY <1>1 DEF PlansOnView, CancelPlans
<1>2. CASE k # "cancel"
  BY <1>2 DEF PlansOnView, Viewing
<1> QED  BY <1>1, <1>2

-----------------------------------------------------------------------------
(* Types, and which locks are taken when.                                  *)

LEMMA TypedStep ==
  ASSUME LocksInv, [Next]_vars
  PROVE  Typed'
<1> USE DEF LocksInv, Typed, TypeOK
<1>1. CASE UNCHANGED vars
  BY <1>1 DEF vars
<1>2. ASSUME NEW t \in Transactions, NEW k \in Kinds, NEW r \in Reservations,
             Begin(t, k, r)
      PROVE  TypeOK'
  <2>2. PICK plan \in IF k \in RowFirst THEN {Plan({BookingRow(r)}, NONE)}
                                        ELSE PlansOnView(k, r, status[r]) :
          /\ left' = [left EXCEPT ![t] = plan.locks]
          /\ to' = [to EXCEPT ![t] = plan.to]
    BY <1>2 DEF Begin
  <2>3. plan.locks \subseteq Locks /\ plan.to \in Statuses
    <3>1. CASE k \in RowFirst
      BY <3>1, <2>2 DEF Plan, Statuses, BookingRow, Locks
    <3>2. CASE k \notin RowFirst
      <4>1. k \in Viewing /\ status[r] \in Statuses
        BY <3>2 DEF Kinds, Statuses
      <4> QED  BY <3>2, <4>1, <2>2, PlansOnViewFit, MayLockTyped
    <3> QED  BY <3>1, <3>2
  <2> QED  BY <1>2, <2>2, <2>3 DEF Begin, Statuses
<1>3. ASSUME NEW t \in Transactions, NEW l \in left[t],
             DecideUnderLock(t, l) \/ LockNext(t, l)
      PROVE  TypeOK'
  <2>1. l \in Locks
    OBVIOUS
  <2>2. CASE DecideUnderLock(t, l)
    <3>1. PICK plan \in PlansUnderLock(kind[t], res[t], status[res[t]]) :
            /\ left' = [left EXCEPT ![t] = plan.locks]
            /\ to' = [to EXCEPT ![t] = plan.to]
      BY <2>2 DEF DecideUnderLock
    <3>2. kind[t] \in RowFirst /\ res[t] \in Reservations
      BY <2>2 DEF DecideUnderLock, Busy, RowFirst
    <3>3. status[res[t]] \in Statuses
      BY <3>2 DEF Statuses
    <3>4. plan.locks \subseteq Locks /\ plan.to \in Statuses
      BY <3>1, <3>2, <3>3, PlansUnderLockFit, MayLockTyped
    <3> QED  BY <2>1, <2>2, <3>1, <3>3, <3>4 DEF DecideUnderLock, Lock, Statuses
  <2>3. CASE LockNext(t, l)
    BY <2>1, <2>3 DEF LockNext, Lock
  <2> QED  BY <1>3, <2>2, <2>3
<1>4. ASSUME NEW t \in Transactions, Commit(t) \/ RollBack(t)
      PROVE  TypeOK'
  BY <1>4 DEF Commit, RollBack, End, NONE
<1> QED  BY <1>1, <1>2, <1>3, <1>4 DEF Next

\* Whoever is not the one that moves keeps what it has.
Others(t) ==
  \A u \in Transactions \ {t} :
    /\ kind'[u] = kind[u] /\ res'[u] = res[u] /\ held'[u] = held[u]
    /\ left'[u] = left[u] /\ to'[u] = to[u] /\ saw'[u] = saw[u]

LEMMA OthersKeep ==
  ASSUME LocksInv, NEW t \in Transactions,
         \/ \E k \in Kinds, r \in Reservations : Begin(t, k, r)
         \/ \E l \in left[t] : DecideUnderLock(t, l) \/ LockNext(t, l)
         \/ Commit(t) \/ RollBack(t)
  PROVE  Others(t)
<1> USE DEF LocksInv, Typed, TypeOK
<1>1. ASSUME NEW k \in Kinds, NEW r \in Reservations, Begin(t, k, r)
      PROVE  Others(t)
  BY <1>1 DEF Begin, Others
<1>2. ASSUME NEW l \in left[t], DecideUnderLock(t, l)
      PROVE  Others(t)
  BY <1>2 DEF DecideUnderLock, Lock, Others
<1>3. ASSUME NEW l \in left[t], LockNext(t, l)
      PROVE  Others(t)
  BY <1>3 DEF LockNext, Lock, Others
<1>4. CASE Commit(t) \/ RollBack(t)
  BY <1>4 DEF Commit, RollBack, End, Others
<1> QED  BY <1>1, <1>2, <1>3, <1>4

\* The four facts about one transaction.
Alone(t) ==
  /\ IF kind[t] = "idle" THEN held[t] = {} /\ left[t] = {} /\ to[t] = NONE
                         ELSE res[t] \in Reservations
  /\ kind[t] # "idle" => /\ held[t] \subseteq MayLock(kind[t], res[t])
                         /\ left[t] \subseteq MayLock(kind[t], res[t])
  /\ kind[t] \in RowFirst =>
       \/ held[t] = {} /\ left[t] = {BookingRow(res[t])} /\ to[t] = NONE
       \/ BookingRow(res[t]) \in held[t] /\ BookingRow(res[t]) \notin left[t]
  /\ kind[t] \notin OutOfOrder => \A h \in held[t], l \in left[t] : Follows(kind[t], h, l)

\* What a transaction that gets a lock has had is in order before it, and what
\* it leaves is in order behind it.
LEMMA NextIsNext ==
  ASSUME LocksInv, NEW t \in Transactions, NEW l \in Wanted(t), kind[t] \notin OutOfOrder
  PROVE  /\ l \notin held[t]
         /\ \A m \in left[t] \ {l} : Follows(kind[t], l, m)
<1>1. kind[t] \in Kinds \ OutOfOrder /\ res[t] \in Reservations
      /\ left[t] \subseteq MayLock(kind[t], res[t]) /\ l \in left[t]
  BY DEF LocksInv, Typed, TypeOK, Busy, InBounds, Wanted
<1>2. l \notin held[t]
  BY <1>1, OneAfterTheOther DEF LocksInv, TakenInOrder
<1>3. \A m \in left[t] \ {l} : Follows(kind[t], l, m)
  BY <1>1, OneAfterTheOther DEF Wanted
<1> QED  BY <1>2, <1>3

LEMMA AloneStep ==
  ASSUME LocksInv, Typed', NEW t \in Transactions,
         \/ \E k \in Kinds, r \in Reservations : Begin(t, k, r)
         \/ \E l \in left[t] : DecideUnderLock(t, l) \/ LockNext(t, l)
         \/ Commit(t) \/ RollBack(t)
  PROVE  Alone(t)'
<1> USE DEF LocksInv, Typed, TypeOK
<1>1. ASSUME NEW k \in Kinds, NEW r \in Reservations, Begin(t, k, r)
      PROVE  Alone(t)'
  <2>1. k \in Kinds /\ k # "idle"
    BY DEF Kinds, RowFirst, Viewing
  <2>2. PICK plan \in IF k \in RowFirst THEN {Plan({BookingRow(r)}, NONE)}
                                        ELSE PlansOnView(k, r, status[r]) :
          /\ left' = [left EXCEPT ![t] = plan.locks]
          /\ to' = [to EXCEPT ![t] = plan.to]
    BY <1>1 DEF Begin
  <2>3. /\ kind'[t] = k /\ res'[t] = r /\ held'[t] = {}
        /\ left'[t] = plan.locks /\ to'[t] = plan.to
    BY <1>1, <2>2 DEF Begin, Busy
  <2>4. CASE k \in RowFirst
    <3>1. left'[t] = {BookingRow(r)} /\ to'[t] = NONE
      BY <2>2, <2>3, <2>4 DEF Plan
    <3>2. BookingRow(r) \in MayLock(k, r)
      BY <2>4 DEF MayLock, RowFirst
    <3> QED  BY <2>1, <2>3, <3>1, <3>2 DEF Alone
  <2>5. CASE k \notin RowFirst
    <3>1. k \in Viewing /\ status[r] \in Statuses
      BY <2>1, <2>5 DEF Kinds, Statuses
    <3>2. plan.locks \subseteq MayLock(k, r)
      BY <2>2, <2>5, <3>1, PlansOnViewFit
    <3> QED  BY <2>1, <2>3, <2>5, <3>2 DEF Alone
  <2> QED  BY <2>4, <2>5
<1>2. ASSUME NEW l \in left[t], DecideUnderLock(t, l)
      PROVE  Alone(t)'
  <2>1. PICK plan \in PlansUnderLock(kind[t], res[t], status[res[t]]) :
          /\ left' = [left EXCEPT ![t] = plan.locks]
          /\ to' = [to EXCEPT ![t] = plan.to]
    BY <1>2 DEF DecideUnderLock
  <2>2. /\ kind[t] \in RowFirst /\ kind[t] # "idle" /\ kind[t] \notin OutOfOrder
        /\ res[t] \in Reservations /\ l = BookingRow(res[t])
    BY <1>2 DEF DecideUnderLock, Busy, RowFirst, OutOfOrder
  <2>3. held[t] = {}
    BY <2>2 DEF RowIsFirst
  <2>4. /\ kind'[t] = kind[t] /\ res'[t] = res[t] /\ held'[t] = {l}
        /\ left'[t] = plan.locks
    BY <1>2, <2>1, <2>3 DEF DecideUnderLock, Lock
  <2>5. status[res[t]] \in Statuses
    BY <2>2 DEF Statuses
  <2>6. plan.locks \subseteq MayLock(kind[t], res[t]) \ {BookingRow(res[t])}
    BY <2>1, <2>2, <2>5, PlansUnderLockFit
  <2>7. l \in MayLock(kind[t], res[t])
    BY <2>2 DEF InBounds
  <2>8. \A m \in plan.locks : Follows(kind[t], l, m)
    <3> SUFFICES ASSUME NEW m \in plan.locks
                 PROVE  Follows(kind[t], l, m)
      OBVIOUS
    <3>1. kind[t] \in Kinds /\ m \in MayLock(kind[t], res[t]) /\ m # BookingRow(res[t])
      BY <2>2, <2>6 DEF Kinds
    <3>2. m.on \in {"guest", "night", "hold", "coins", "payments"}
      BY <3>1, <2>2, MayLockShape
    <3>3. /\ l.on = "booking"
          /\ kind[t] \notin {"accept", "cancel", "refund", "update", "credit"}
      BY <2>2 DEF BookingRow, RowFirst
    <3> QED  BY <3>2, <3>3 DEF Follows, Precedes, ClassOrder
  <2> QED  BY <2>2, <2>4, <2>6, <2>7, <2>8 DEF Alone
<1>3. ASSUME NEW l \in left[t], LockNext(t, l)
      PROVE  Alone(t)'
  <2>1. kind[t] # "idle"
    BY DEF Busy
  <2>2. /\ kind'[t] = kind[t] /\ res'[t] = res[t] /\ to'[t] = to[t]
        /\ held'[t] = held[t] \cup {l} /\ left'[t] = left[t] \ {l}
    BY <1>3 DEF LockNext, Lock
  <2>3. kind[t] \notin OutOfOrder =>
          \A h \in held'[t], m \in left'[t] : Follows(kind[t], h, m)
    BY <1>3, <2>2, NextIsNext DEF LockNext, Lock, TakenInOrder
  <2>4. kind[t] \in RowFirst =>
          BookingRow(res[t]) \in held'[t] /\ BookingRow(res[t]) \notin left'[t]
    BY <1>3, <2>2 DEF LockNext, RowIsFirst
  <2>5. /\ held'[t] \subseteq MayLock(kind[t], res[t])
        /\ left'[t] \subseteq MayLock(kind[t], res[t])
    BY <2>1, <2>2 DEF InBounds
  <2> QED  BY <2>1, <2>2, <2>3, <2>4, <2>5 DEF Alone, Busy
<1>4. CASE Commit(t) \/ RollBack(t)
  BY <1>4 DEF Commit, RollBack, End, Alone, RowFirst
<1> QED  BY <1>1, <1>2, <1>3, <1>4

\* A lock is granted when nobody holds one against it.
LEMMA ExclusiveStep ==
  ASSUME LocksInv, Typed', NEW t \in Transactions, Others(t),
         \/ \E k \in Kinds, r \in Reservations : Begin(t, k, r)
         \/ \E l \in left[t] : DecideUnderLock(t, l) \/ LockNext(t, l)
         \/ Commit(t) \/ RollBack(t)
  PROVE  Exclusive'
<1> USE DEF LocksInv, Typed, TypeOK
<1>1. \/ held'[t] = {}
      \/ /\ kind'[t] = kind[t]
         /\ \E l \in left[t] : held'[t] = held[t] \cup {l} /\ Free(t, l)
  <2>1. ASSUME NEW k \in Kinds, NEW r \in Reservations, Begin(t, k, r)
        PROVE  held'[t] = {}
    BY <2>1 DEF Begin, Busy
  <2>2. ASSUME NEW l \in left[t], DecideUnderLock(t, l) \/ LockNext(t, l)
        PROVE  /\ kind'[t] = kind[t] /\ Free(t, l)
               /\ held'[t] = held[t] \cup {l}
    BY <2>2 DEF DecideUnderLock, LockNext, Lock
  <2>3. CASE Commit(t) \/ RollBack(t)
    BY <2>3 DEF Commit, RollBack, End
  <2> QED  BY <2>1, <2>2, <2>3
<1>2. \A a, b, l : Conflict(Strength(a, l), Strength(b, l))
                     <=> Conflict(Strength(b, l), Strength(a, l))
  BY DEF Conflict
<1>3. SUFFICES ASSUME NEW x \in Transactions, NEW y \in Transactions, x # y,
                      NEW l, l \in held'[x], l \in held'[y],
                      Conflict(Strength(kind'[x], l), Strength(kind'[y], l))
               PROVE  FALSE
  BY DEF Exclusive, Against
<1>4. CASE x # t /\ y # t
  BY <1>3, <1>4 DEF Others, Exclusive, Against
<1>5. CASE x = t
  <2>1. PICK m \in left[t] : /\ kind'[t] = kind[t] /\ Free(t, m)
                             /\ held'[t] = held[t] \cup {m}
    BY <1>1, <1>3, <1>5
  <2> QED  BY <1>3, <1>5, <2>1 DEF Others, Exclusive, Against, Free
<1>6. CASE y = t
  <2>1. PICK m \in left[t] : /\ kind'[t] = kind[t] /\ Free(t, m)
                             /\ held'[t] = held[t] \cup {m}
    BY <1>1, <1>3, <1>6
  <2> QED  BY <1>2, <1>3, <1>6, <2>1 DEF Others, Exclusive, Against, Free
<1> QED  BY <1>4, <1>5, <1>6

LEMMA LocksInvStep ==
  ASSUME LocksInv, [Next]_vars
  PROVE  LocksInv'
<1>1. Typed'
  BY TypedStep
<1>2. CASE UNCHANGED vars
  BY <1>2 DEF vars, LocksInv, Typed, TypeOK, Busy, InBounds, RowIsFirst, TakenInOrder,
              Exclusive, Against
<1>3. CASE Next
  <2>1. PICK t \in Transactions :
          \/ \E k \in Kinds, r \in Reservations : Begin(t, k, r)
          \/ \E l \in left[t] : DecideUnderLock(t, l) \/ LockNext(t, l)
          \/ Commit(t) \/ RollBack(t)
    BY <1>3 DEF Next
  <2>2. Others(t)
    BY <2>1, OthersKeep
  <2>3. Alone(t)'
    BY <1>1, <2>1, AloneStep
  <2>4. \A u \in Transactions : Alone(u)'
    BY <2>2, <2>3 DEF Others, Alone, LocksInv, Busy, InBounds, RowIsFirst, TakenInOrder
  <2>5. Exclusive'
    BY <1>1, <2>1, <2>2, ExclusiveStep
  <2> QED
    BY <1>1, <2>4, <2>5 DEF Alone, LocksInv, Busy, InBounds, RowIsFirst, TakenInOrder
<1> QED  BY <1>2, <1>3

-----------------------------------------------------------------------------
(* Statuses.                                                               *)

\* A step that leaves all statuses alone and gives t a consistent lot.
StatusAlone(t) ==
  /\ to[t] # NONE =>
       /\ kind[t] # "refund"
       /\ kind[t] # "create" => BookingRow(res[t]) \in held[t] \cup left[t]
       /\ to[t] = "PAYMENT_PENDING" => kind[t] = "create"
       /\ to[t] = "EXPIRED" => kind[t] = "expire" /\ saw[t] = "PAYMENT_PENDING"
  /\ kind[t] = "create" =>
       /\ status[res[t]] = NONE
       /\ \A u \in Transactions : kind[u] = "create" /\ res[u] = res[t] => u = t
  /\ kind[t] \notin {"idle", "create", "edit", "deleteRange"} => status[res[t]] # NONE
  /\ kind[t] = "credit" => status[res[t]] \notin {"PAYMENT_PENDING", "EXPIRED"}
  /\ kind[t] \in RowFirst /\ BookingRow(res[t]) \in held[t] =>
       /\ status[res[t]] = saw[t]
       /\ \A l \in left[t] : l.on \in {"night", "coins"} =>
            saw[t] \in {"PAYMENT_PENDING", "EXPIRED"}

LEMMA StatusAloneEnough ==
  /\ StatusInv <=> \A t \in Transactions : StatusAlone(t)
  /\ StatusInv' <=> \A t \in Transactions : StatusAlone(t)'
BY DEF StatusInv, StatusAlone, Targets, Existence, DecisionsHold, StillOpen

LEMMA StatusBegin ==
  ASSUME RowLocksInv, LocksInv', NEW t \in Transactions,
         NEW k \in Kinds, NEW r \in Reservations, Begin(t, k, r), Others(t)
  PROVE  StatusInv'
<1> USE DEF RowLocksInv, LocksInv, Typed, TypeOK
<1>1. k \in Kinds /\ k # "idle"
  BY DEF Kinds, RowFirst, Viewing
<1>2. PICK plan \in IF k \in RowFirst THEN {Plan({BookingRow(r)}, NONE)}
                                      ELSE PlansOnView(k, r, status[r]) :
        /\ left' = [left EXCEPT ![t] = plan.locks]
        /\ to' = [to EXCEPT ![t] = plan.to]
  BY DEF Begin
<1>3. /\ kind'[t] = k /\ res'[t] = r /\ held'[t] = {} /\ status' = status
      /\ left'[t] = plan.locks /\ to'[t] = plan.to
  BY <1>2 DEF Begin, Busy
<1>4. CASE k \in RowFirst
  <2>1. to'[t] = NONE /\ k \notin {"create", "credit", "edit", "deleteRange"}
    BY <1>2, <1>3, <1>4 DEF Plan, RowFirst
  <2>2. status[r] # NONE
    BY <1>4, <2>1 DEF Begin
  <2>3. StatusAlone(t)'
    BY <1>3, <2>1, <2>2 DEF StatusAlone
  <2>4. \A u \in Transactions \ {t} : StatusAlone(u)'
    BY <1>3, <2>1, StatusAloneEnough DEF Others, StatusAlone
  <2> QED  BY <2>3, <2>4, StatusAloneEnough
<1>5. CASE k \notin RowFirst
  <2>1. k \in Viewing /\ status[r] \in Statuses
    BY <1>1, <1>5 DEF Kinds, Statuses
  <2>2. plan \in PlansOnView(k, r, status[r])
    BY <1>2, <1>5
  <2>3. /\ plan.to # NONE => /\ k # "refund"
                             /\ k # "create" => BookingRow(r) \in plan.locks
        /\ plan.to \in Statuses \ {"EXPIRED"}
        /\ plan.to = "PAYMENT_PENDING" => k = "create"
        /\ k = "create" => status[r] = NONE
        /\ k = "credit" => status[r] = "COMPLETED"
    BY <2>1, <2>2, PlansOnViewFit
  <2>4. /\ k = "create" => ~BeingCreated(r)
        /\ k \notin {"create", "edit", "deleteRange"} => status[r] # NONE
    BY DEF Begin
  <2>5. k = "create" => \A u \in Transactions : kind'[u] = "create" /\ res'[u] = r => u = t
    BY <2>4 DEF BeingCreated, Others
  <2>6. StatusAlone(t)'
    BY <1>3, <1>5, <2>3, <2>4, <2>5 DEF StatusAlone
  <2>7. ASSUME NEW u \in Transactions \ {t}
        PROVE  StatusAlone(u)'
    <3>1. StatusAlone(u)
      BY StatusAloneEnough
    <3>2. kind[u] = "create" => ~(k = "create" /\ r = res[u])
      BY <2>4 DEF BeingCreated
    <3> QED  BY <1>3, <3>1, <3>2 DEF Others, StatusAlone
  <2> QED  BY <2>6, <2>7, StatusAloneEnough
<1> QED  BY <1>4, <1>5

LEMMA StatusDecide ==
  ASSUME RowLocksInv, LocksInv', NEW t \in Transactions, NEW l \in left[t],
         DecideUnderLock(t, l), Others(t)
  PROVE  StatusInv'
<1> USE DEF RowLocksInv, LocksInv, Typed, TypeOK
<1>1. PICK plan \in PlansUnderLock(kind[t], res[t], status[res[t]]) :
        /\ left' = [left EXCEPT ![t] = plan.locks]
        /\ to' = [to EXCEPT ![t] = plan.to]
  BY DEF DecideUnderLock
<1>2. /\ kind[t] \in RowFirst /\ res[t] \in Reservations /\ l = BookingRow(res[t])
  BY DEF DecideUnderLock, Busy, RowFirst
<1>3. /\ kind'[t] = kind[t] /\ res'[t] = res[t] /\ held'[t] = held[t] \cup {l}
      /\ left'[t] = plan.locks /\ to'[t] = plan.to /\ saw'[t] = status[res[t]]
      /\ status' = status
  BY <1>1 DEF DecideUnderLock, Lock
<1>4. status[res[t]] \in Statuses
  BY <1>2 DEF Statuses
<1>5. /\ plan.to \in Statuses \ {"PAYMENT_PENDING"}
      /\ plan.to = "EXPIRED" => kind[t] = "expire" /\ status[res[t]] = "PAYMENT_PENDING"
      /\ \A m \in plan.locks :
           m.on \in {"night", "coins"} => status[res[t]] \in {"PAYMENT_PENDING", "EXPIRED"}
  BY <1>1, <1>2, <1>4, PlansUnderLockFit
<1>6. StatusAlone(t)
  BY StatusAloneEnough
<1>7. StatusAlone(t)'
  BY <1>2, <1>3, <1>5, <1>6 DEF StatusAlone, RowFirst
<1>8. \A u \in Transactions \ {t} : StatusAlone(u)'
  BY <1>3, StatusAloneEnough DEF Others, StatusAlone
<1> QED  BY <1>7, <1>8, StatusAloneEnough

LEMMA StatusLock ==
  ASSUME RowLocksInv, LocksInv', NEW t \in Transactions, NEW l \in left[t],
         LockNext(t, l), Others(t)
  PROVE  StatusInv'
<1> USE DEF RowLocksInv, LocksInv, Typed, TypeOK
<1>1. /\ kind'[t] = kind[t] /\ res'[t] = res[t] /\ held'[t] = held[t] \cup {l}
      /\ left'[t] = left[t] \ {l} /\ to'[t] = to[t] /\ saw'[t] = saw[t]
      /\ status' = status
  BY DEF LockNext, Lock
<1>2. StatusAlone(t)
  BY StatusAloneEnough
<1>3. kind[t] \in RowFirst => l # BookingRow(res[t])
  BY DEF LockNext
<1>4. StatusAlone(t)'
  BY <1>1, <1>2, <1>3 DEF Others, StatusAlone
<1>5. \A u \in Transactions \ {t} : StatusAlone(u)'
  BY <1>1, StatusAloneEnough DEF Others, StatusAlone
<1> QED  BY <1>4, <1>5, StatusAloneEnough

\* A status is written by whoever has the reservation's row, or creates it.
LEMMA StatusEnd ==
  ASSUME RowLocksInv, LocksInv', NEW t \in Transactions,
         Commit(t) \/ RollBack(t), Others(t)
  PROVE  StatusInv'
<1> USE DEF RowLocksInv, LocksInv, Typed, TypeOK
<1>1. kind'[t] = "idle" /\ to'[t] = NONE /\ held'[t] = {}
  BY DEF Commit, RollBack, End
<1>2. StatusAlone(t)'
  BY <1>1 DEF StatusAlone, RowFirst
<1>3. StatusAlone(t)
  BY StatusAloneEnough
<1>4. ASSUME NEW u \in Transactions \ {t}
      PROVE  StatusAlone(u)'
  <2>1. StatusAlone(u)
    BY StatusAloneEnough
  <2>2. CASE status' = status
    BY <1>1, <2>1, <2>2 DEF Others, StatusAlone
  <2>3. CASE status' # status
    <3>1. /\ Commit(t) /\ to[t] # NONE /\ left[t] = {} /\ kind[t] # "idle"
          /\ res[t] \in Reservations
          /\ status' = [status EXCEPT ![res[t]] = to[t]]
      BY <2>3 DEF Commit, RollBack, Busy
    <3>2. CASE kind[u] = "idle" \/ res[u] # res[t]
      <4>1. kind[u] # "idle" => res[u] \in Reservations
        BY DEF Busy
      <4>2. kind[u] # "idle" => status'[res[u]] = status[res[u]]
        BY <3>1, <3>2, <4>1
      <4> QED  BY <1>1, <2>1, <4>2 DEF Others, StatusAlone, RowFirst
    <3>3. CASE kind[u] # "idle" /\ res[u] = res[t]
      <4>1. kind[t] = "create" => /\ status[res[t]] = NONE
                                  /\ kind[u] \in {"edit", "deleteRange"}
        BY <1>3, <2>1, <3>3 DEF StatusAlone
      <4>2. CASE kind[t] = "create"
        BY <1>1, <2>1, <3>3, <4>1, <4>2 DEF Others, StatusAlone, RowFirst
      <4>3. CASE kind[t] # "create"
        <5>1. BookingRow(res[t]) \in held[t] /\ kind[t] # "refund"
          BY <1>3, <3>1, <4>3 DEF StatusAlone
        <5>2. kind[t] \notin {"edit", "deleteRange"}
          BY <5>1, <3>1 DEF InBounds, MayLock, Nights, BookingRow
        <5>3. status[res[t]] # NONE
          BY <1>3, <3>1, <4>3, <5>2 DEF StatusAlone
        <5>4. kind[u] # "create"
          BY <2>1, <3>3, <5>3 DEF StatusAlone
        <5>5. ~(kind[u] \in RowFirst /\ BookingRow(res[u]) \in held[u])
          <6> SUFFICES ASSUME kind[u] \in RowFirst, BookingRow(res[u]) \in held[u]
                       PROVE  FALSE
            OBVIOUS
          <6>1. Strength(kind[u], BookingRow(res[u])) = "full"
            BY DEF Strength, BookingRow
          <6> QED  BY <6>1, <3>3, <5>1 DEF Exclusive, Against, Conflict
        <5>6. to[t] \notin {NONE, "PAYMENT_PENDING"}
          BY <1>3, <3>1, <4>3 DEF StatusAlone
        <5>7. kind[u] = "credit" => to[t] # "EXPIRED"
          <6> SUFFICES ASSUME kind[u] = "credit", to[t] = "EXPIRED"
                       PROVE  FALSE
            OBVIOUS
          <6>1. kind[t] \in RowFirst /\ saw[t] = "PAYMENT_PENDING"
            BY <1>3, <3>1 DEF StatusAlone, RowFirst, NONE
          <6>2. status[res[t]] = "PAYMENT_PENDING"
            BY <1>3, <5>1, <6>1 DEF StatusAlone
          <6> QED  BY <2>1, <3>3, <6>2 DEF StatusAlone
        <5>8. status'[res[u]] = to[t]
          BY <3>1, <3>3
        <5> QED
          BY <1>1, <2>1, <5>4, <5>5, <5>6, <5>7, <5>8 DEF Others, StatusAlone
      <4> QED  BY <4>2, <4>3
    <3> QED  BY <3>2, <3>3
  <2> QED  BY <2>2, <2>3
<1> QED  BY <1>2, <1>4, StatusAloneEnough

LEMMA RowLocksInvStep ==
  ASSUME RowLocksInv, [Next]_vars
  PROVE  RowLocksInv'
<1>1. LocksInv'
  BY LocksInvStep DEF RowLocksInv
<1>2. CASE UNCHANGED vars
  BY <1>1, <1>2 DEF vars, RowLocksInv, StatusInv, Targets, Existence, DecisionsHold,
                    StillOpen
<1>3. ASSUME NEW t \in Transactions, NEW k \in Kinds, NEW r \in Reservations,
             Begin(t, k, r)
      PROVE  RowLocksInv'
  BY <1>1, <1>3, OthersKeep, StatusBegin DEF RowLocksInv
<1>4. ASSUME NEW t \in Transactions, NEW l \in left[t], DecideUnderLock(t, l)
      PROVE  RowLocksInv'
  BY <1>1, <1>4, OthersKeep, StatusDecide DEF RowLocksInv
<1>5. ASSUME NEW t \in Transactions, NEW l \in left[t], LockNext(t, l)
      PROVE  RowLocksInv'
  BY <1>1, <1>5, OthersKeep, StatusLock DEF RowLocksInv
<1>6. ASSUME NEW t \in Transactions, Commit(t) \/ RollBack(t)
      PROVE  RowLocksInv'
  BY <1>1, <1>6, OthersKeep, StatusEnd DEF RowLocksInv
<1> QED  BY <1>2, <1>3, <1>4, <1>5, <1>6 DEF Next

LEMMA RowLocksInit == Init => RowLocksInv
BY DEF Init, RowLocksInv, LocksInv, Typed, TypeOK, Busy, InBounds, RowIsFirst, TakenInOrder,
       Exclusive, Against, StatusInv, Targets, Existence, DecisionsHold, StillOpen,
       RowFirst, OutOfOrder, NONE

LEMMA RowLocksInvariant == Spec => []RowLocksInv
BY RowLocksInit, RowLocksInvStep, PTL DEF Spec

-----------------------------------------------------------------------------
(* Deadlocks.                                                              *)

\* t waits for u, which has the lock l that t wants next.
Waits(t, l, u) == t # u /\ l \in Wanted(t) /\ Against(t, l, u)

\* In order: what is known of a wait for one who waits itself.
LEMMA WaitForWaiter ==
  ASSUME LocksInv, NEW t \in Transactions, NEW l, NEW u \in Transactions, NEW m,
         kind[u] \notin OutOfOrder, Waits(t, l, u), m \in Wanted(u)
  PROVE  /\ kind[u] \in Kinds \ OutOfOrder /\ res[u] \in Reservations
         /\ l \in MayLock(kind[u], res[u]) /\ m \in MayLock(kind[u], res[u])
         /\ Follows(kind[u], l, m)
         /\ kind[t] \in Kinds /\ res[t] \in Reservations /\ l \in MayLock(kind[t], res[t])
BY DEF LocksInv, Typed, TypeOK, Busy, InBounds, TakenInOrder, Waits, Wanted, Against

LEMMA Smallest ==
  ASSUME NEW S \in SUBSET Nat, S # {}
  PROVE  \E n \in S : \A i \in S : ~(i < n)
<1> DEFINE R == OpToRel(<, Nat)
<1>1. IsWellFoundedOn(R, Nat)
  BY NatLessThanWellFounded
<1>2. \A i, n \in Nat : i < n => <<i, n>> \in R
  BY DEF OpToRel
<1> HIDE DEF R
<1>3. PICK n \in S : \A i \in S : ~(<<i, n>> \in R)
  BY <1>1, WFMin
<1> QED  BY <1>2, <1>3

THEOREM NoDeadlockInOrder == Spec => []DeadlocksNeedOneOutOfOrder
<1>1. ASSUME RowLocksInv,
             NEW T \in SUBSET { t \in Transactions : kind[t] \notin OutOfOrder },
             Deadlocked(T)
      PROVE  FALSE
  <2> USE <1>1 DEF RowLocksInv
  <2> DEFINE WaitsIn(t, l) == \E u \in T : Waits(t, l, u)
  <2>1. \A t \in T : t \in Transactions /\ kind[t] \notin OutOfOrder
    OBVIOUS
  <2>2. T # {} /\ \A t \in T : \E l : WaitsIn(t, l)
    BY <1>1 DEF Deadlocked, WaitsFor, Waits
  <2>3. ASSUME NEW t \in T, NEW l, NEW u \in T, Waits(t, l, u)
        PROVE  \E m : /\ WaitsIn(u, m)
                      /\ kind[u] \in Kinds \ OutOfOrder /\ res[u] \in Reservations
                      /\ l \in MayLock(kind[u], res[u]) /\ m \in MayLock(kind[u], res[u])
                      /\ Follows(kind[u], l, m)
                      /\ kind[t] \in Kinds /\ res[t] \in Reservations
                      /\ l \in MayLock(kind[t], res[t])
    <3>1. PICK m : WaitsIn(u, m)
      BY <2>2
    <3>2. m \in Wanted(u)
      BY <3>1 DEF Waits
    <3> QED  BY <2>1, <2>3, <3>1, <3>2, WaitForWaiter
  <2> HIDE DEF WaitsIn
  \* The payment comes last.
  <2>4. ASSUME NEW t \in T, NEW l, WaitsIn(t, l)
        PROVE  l.on # "payments"
    <3>1. PICK u \in T : Waits(t, l, u)
      BY <2>4 DEF WaitsIn
    <3> QED  BY <2>3, <3>1, WhatFollows
  \* Nobody waits for a guest or a hold row: who wants one has the reservation,
  \* and so has who has one.
  <2>5. ASSUME NEW t \in T, NEW l, WaitsIn(t, l)
         PROVE  l.on \notin {"guest", "hold"}
    <3> SUFFICES ASSUME l.on \in {"guest", "hold"}
                 PROVE  FALSE
      OBVIOUS
    <3>1. PICK u \in T : Waits(t, l, u)
      BY <2>5 DEF WaitsIn
    <3>2. /\ kind[u] \in Kinds \ OutOfOrder /\ res[u] \in Reservations
          /\ kind[t] \in Kinds \ OutOfOrder /\ res[t] \in Reservations
          /\ l \in MayLock(kind[u], res[u]) /\ l \in MayLock(kind[t], res[t])
      BY <2>1, <2>3, <3>1
    <3>3. kind[u] \in RowFirst /\ l.id = res[u]
      BY <3>2, UnderTheReservation
    <3>4. kind[t] \in RowFirst /\ l.id = res[t] /\ l # BookingRow(res[t])
      BY <3>2, UnderTheReservation
    <3>5. t # u /\ l \in left[t] /\ l \in held[u]
      BY <3>1 DEF Waits, Wanted, Against
    <3>6. BookingRow(res[t]) \in held[t]
      BY <2>1, <3>4, <3>5 DEF LocksInv, RowIsFirst
    <3>7. BookingRow(res[t]) \in held[u]
      BY <2>1, <3>3, <3>4, <3>5 DEF LocksInv, RowIsFirst
    <3>8. Conflict(Strength(kind[t], BookingRow(res[t])),
                   Strength(kind[u], BookingRow(res[t])))
      BY <3>3 DEF Strength, Conflict
    <3> QED  BY <2>1, <3>5, <3>6, <3>7, <3>8 DEF LocksInv, Exclusive, Against
  \* Nor does a credit wait for its booking's row: whoever has that row decided
  \* under it, and would go on to rows that only a booking which is not COMPLETED
  \* yet needs.
  <2>6. ASSUME NEW t \in T, kind[t] = "credit", WaitsIn(t, BookingRow(res[t]))
        PROVE  FALSE
    <3> DEFINE l == BookingRow(res[t])
    <3>1. PICK u \in T : Waits(t, l, u)
      BY <2>6 DEF WaitsIn
    <3>2. PICK m : /\ WaitsIn(u, m)
                   /\ kind[u] \in Kinds \ OutOfOrder /\ res[u] \in Reservations
                   /\ l \in MayLock(kind[u], res[u]) /\ m \in MayLock(kind[u], res[u])
                   /\ Follows(kind[u], l, m)
      BY <2>3, <3>1
    <3>3. l.on = "booking" /\ l = BookingRow(res[u]) /\ res[u] = res[t] /\ l \in held[u]
      BY <3>1, <3>2, MayLockShape DEF BookingRow, Waits, Against
    <3>4. kind[u] # "credit" /\ m.on \in {"night", "coins"}
      BY <2>4, <2>5, <3>2, <3>3, WhatFollows
    <3>5. kind[u] \in RowFirst
      <4>1. kind[u] \notin {"complete", "extend", "noShow"}
        BY <3>2, <3>4 DEF MayLock, BookingRow
      <4>2. kind[u] \notin {"create", "edit", "fail"}
        BY <3>2, <3>3 DEF MayLock, BookingRow, Nights, Coins, PaymentRow
      <4> QED  BY <3>2, <3>4, <4>1, <4>2 DEF Kinds, Viewing, OutOfOrder
    <3>6. m \in left[u]
      BY <3>2 DEF WaitsIn, Waits, Wanted
    <3>7. saw[u] \in {"PAYMENT_PENDING", "EXPIRED"} /\ status[res[u]] = saw[u]
      BY <2>1, <3>3, <3>4, <3>5, <3>6 DEF StatusInv, StillOpen, DecisionsHold
    <3> QED  BY <2>1, <2>6, <3>3, <3>7 DEF StatusInv, Existence
  \* Whoever has coins waits for a payment, or credits them and waits for the
  \* reservation.
  <2>7. ASSUME NEW u \in T, NEW m, WaitsIn(u, m), kind[u] = "credit", m.on = "booking",
               m \in MayLock(kind[u], res[u]), kind[u] \in Kinds, res[u] \in Reservations
        PROVE  FALSE
    BY <2>6, <2>7, MayLockShape
  <2>8. ASSUME NEW t \in T, NEW l, WaitsIn(t, l)
        PROVE  l.on # "coins"
    <3>1. PICK u \in T : Waits(t, l, u)
      BY <2>8 DEF WaitsIn
    <3>2. PICK m : /\ WaitsIn(u, m)
                   /\ kind[u] \in Kinds \ OutOfOrder /\ res[u] \in Reservations
                   /\ l \in MayLock(kind[u], res[u]) /\ m \in MayLock(kind[u], res[u])
                   /\ Follows(kind[u], l, m)
      BY <2>3, <3>1
    <3>3. m.on # "payments"
      BY <2>4, <3>2
    <3>4. ~(kind[u] = "credit" /\ m.on = "booking")
      BY <2>7, <3>2
    <3> QED  BY <3>2, <3>3, <3>4, WhatFollows
  \* Of those who wait for a night, one waits for the last.
  <2>9. ASSUME NEW t \in T, NEW l, WaitsIn(t, l)
        PROVE  l.on # "night"
    <3> DEFINE P(n) == \E x, k : /\ x \in T /\ WaitsIn(x, k) /\ k.on = "night"
                                 /\ k.id \in 1 .. NightCount /\ n = NightCount - k.id
    <3> DEFINE S == { n \in Nat : P(n) }
    <3>1. ASSUME NEW x \in T, NEW k, WaitsIn(x, k), k.on = "night"
          PROVE  /\ k.id \in 1 .. NightCount
                 /\ \E y, j : /\ y \in T /\ WaitsIn(y, j) /\ j.on = "night"
                              /\ j.id \in 1 .. NightCount /\ k.id < j.id
      <4>1. PICK u \in T : Waits(x, k, u)
        BY <3>1 DEF WaitsIn
      <4>2. PICK m : /\ WaitsIn(u, m)
                     /\ kind[u] \in Kinds \ OutOfOrder /\ res[u] \in Reservations
                     /\ k \in MayLock(kind[u], res[u]) /\ m \in MayLock(kind[u], res[u])
                     /\ Follows(kind[u], k, m)
        BY <2>3, <4>1
      <4>3. m.on = "night" /\ k.id < m.id
        BY <2>4, <2>8, <2>5, <3>1, <4>2, WhatFollows
      <4>4. k \in Nights(res[u]) /\ m \in Nights(res[u])
        BY <3>1, <4>2, <4>3, MayLockShape
      <4>5. k.id \in 1 .. NightCount /\ m.id \in 1 .. NightCount
        BY <4>2, <4>4, RowLocksAssumption DEF Nights
      <4> QED  BY <4>2, <4>3, <4>5
    <3>2. SUFFICES ASSUME l.on = "night"
                   PROVE  FALSE
      OBVIOUS
    <3>3. l.id \in 1 .. NightCount
      BY <2>9, <3>1, <3>2
    <3>4. NightCount - l.id \in S
      BY <2>9, <3>2, <3>3, RowLocksAssumption
    <3>5. PICK n \in S : \A i \in S : ~(i < n)
      BY <3>4, Smallest
    <3>6. PICK x, k : /\ x \in T /\ WaitsIn(x, k) /\ k.on = "night"
                      /\ k.id \in 1 .. NightCount /\ n = NightCount - k.id
      BY <3>5
    <3>7. PICK y, j : /\ y \in T /\ WaitsIn(y, j) /\ j.on = "night"
                      /\ j.id \in 1 .. NightCount /\ k.id < j.id
      BY <3>1, <3>6
    <3>8. NightCount - j.id \in S /\ NightCount - j.id < n
      BY <3>6, <3>7, RowLocksAssumption
    <3> QED  BY <3>5, <3>8
  \* The reservation comes first for everybody else.
  <2>10. ASSUME NEW t \in T, NEW l, WaitsIn(t, l)
         PROVE  l.on # "booking"
    <3>1. PICK u \in T : Waits(t, l, u)
      BY <2>10 DEF WaitsIn
    <3>2. PICK m : /\ WaitsIn(u, m)
                   /\ kind[u] \in Kinds \ OutOfOrder /\ res[u] \in Reservations
                   /\ l \in MayLock(kind[u], res[u]) /\ m \in MayLock(kind[u], res[u])
                   /\ Follows(kind[u], l, m)
      BY <2>3, <3>1
    <3>3. m.on \notin {"payments", "coins", "guest", "hold", "night"}
      BY <2>4, <2>8, <2>9, <2>5, <3>2
    <3> QED  BY <3>2, <3>3, WhatFollows
  <2>11. PICK t, l : t \in T /\ WaitsIn(t, l)
    BY <2>2
  <2>12. PICK u \in T : Waits(t, l, u)
    BY <2>11 DEF WaitsIn
  <2>13. l.on \in {"booking", "guest", "night", "hold", "coins", "payments"}
    <3>1. /\ kind[u] \in Kinds \ OutOfOrder /\ res[u] \in Reservations
          /\ l \in MayLock(kind[u], res[u])
      BY <2>3, <2>11, <2>12
    <3> QED  BY <3>1, MayLockShape
  <2> QED  BY <2>4, <2>8, <2>9, <2>10, <2>11, <2>13, <2>5
<1>2. RowLocksInv => DeadlocksNeedOneOutOfOrder
  BY <1>1 DEF DeadlocksNeedOneOutOfOrder
<1> QED  BY <1>2, RowLocksInvariant, PTL

\* What was read under FOR UPDATE stays true until the transaction ends.
THEOREM DecisionsUnderLockHold == Spec => []DecisionsHold
<1>1. RowLocksInv => DecisionsHold
  BY DEF RowLocksInv, StatusInv
<1> QED  BY <1>1, RowLocksInvariant, PTL
=============================================================================
