------------------------------- MODULE Wallet -------------------------------
(***************************************************************************)
(* One user's coins: users.alterCashBalance and the rows of                *)
(* alter_cash_transactions, kept by alter-cash.service.ts for the bookings,*)
(* the jobs and the administrator.                                         *)
(*                                                                         *)
(* A transaction that touches the balance is two steps.  The first has got *)
(* the reservation's row lock, if it takes one, and reads the balance; the *)
(* second writes what it computed, adds its row and commits.  The          *)
(* administrator's other transactions do not look at the booking again:    *)
(* they write the status whatever it has become since it was viewed.       *)
(***************************************************************************)
EXTENDS Integers, Sequences, FiniteSets, BookingLifecycle

CONSTANTS
  Reservations,
  CoinsRedeemed,  \* reservations.coinsRedeemed
  CoinsEarnable,  \* reservations.coinsEarnable
  Opening,        \* the balance the user comes with
  Adjustments,    \* the amounts of adjustBalance
  MaxAdjusted,    \* bound: how many adjustments
  MaxViewed,      \* bound: how many bookings administrators work on at a time
  None            \* no reservation

ASSUME WalletAssumption ==
  /\ CoinsRedeemed \in [Reservations -> Nat]
  /\ CoinsEarnable \in [Reservations -> Nat]
  /\ Opening \in Nat
  /\ Adjustments \subseteq Int \ {0}
  /\ MaxAdjusted \in Nat
  /\ MaxViewed \in Nat
  /\ None \notin Reservations

VARIABLES
  status,      \* reservations.status
  balance,     \* users.alterCashBalance
  ledger,      \* alter_cash_transactions, oldest first
  running,     \* the transactions that have read the balance
  due,         \* stays just completed whose coins are to be credited
  viewed,      \* what administrators saw of the bookings they are about to change
  overlapped,  \* history: a balance was written that had changed since read
  outdated,    \* history: bookings changed in another status than was seen
  revived      \* history: bookings confirmed after they had expired

history == <<overlapped, outdated, revived>>
vars == <<status, balance, ledger, running, due, viewed, history>>

Init ==
  /\ status = [r \in Reservations |-> NONE]
  /\ balance = Opening
  /\ ledger = <<>>
  /\ running = {}
  /\ due = {}
  /\ viewed = {}
  /\ overlapped = FALSE
  /\ outdated = {}
  /\ revived = {}

Rows(type, r) == { i \in DOMAIN ledger : ledger[i].type = type /\ ledger[i].res = r }

-----------------------------------------------------------------------------
(* Transactions.                                                           *)

\* The expiry and the cancellation hold the reservation's row lock throughout.
Locked(r) == \E t \in running : t.res = r /\ t.op \in {"expire", "cancel"}

\* seen is the status the caller took the booking to have.
Begin(op, r, seen, amount) ==
  /\ \A t \in running : t.op # op \/ t.res # r
  /\ running' = running \cup {[op |-> op, res |-> r, seen |-> seen,
                               amount |-> amount, saw |-> balance]}

End(t) == running' = running \ {t}

\* Mutant: the row of a redemption shows a credit.
EntryUnsigned(type, t, amount) ==
  [type |-> type, res |-> t.res, amount |-> t.amount, balanceAfter |-> t.saw + amount]

Entry(type, t, amount) ==
  [type |-> type, res |-> t.res, amount |-> amount, balanceAfter |-> t.saw + amount]

\* The UPDATE writes the value computed from what was read, and the row follows.
Post(type, t, amount) ==
  /\ balance' = t.saw + amount
  /\ ledger' = Append(ledger, Entry(type, t, amount))
  /\ overlapped' = (overlapped \/ balance # t.saw)

PostNothing == UNCHANGED <<balance, ledger, overlapped>>

\* Anything that throws rolls the transaction back.
RollBack(t) ==
  /\ End(t)
  /\ UNCHANGED <<status, balance, ledger, due, viewed, history>>

-----------------------------------------------------------------------------
(* Booking with coins: the end of createInTransaction, redeemForBooking.   *)

\* "Insufficient coin balance".
Sufficient(amount) == amount <= balance

BeginCreate(r) ==
  /\ status[r] = NONE
  /\ Sufficient(CoinsRedeemed[r])
  /\ Begin("create", r, NONE, CoinsRedeemed[r])
  /\ UNCHANGED <<status, balance, ledger, due, viewed, history>>

CommitCreate(t) ==
  /\ t.op = "create"
  /\ status' = [status EXCEPT ![t.res] = "PAYMENT_PENDING"]
  /\ IF t.amount > 0 THEN Post("REDEEM", t, -t.amount) ELSE PostNothing
  /\ End(t)
  /\ UNCHANGED <<due, viewed, outdated, revived>>

-----------------------------------------------------------------------------
(* Giving coins back: refundRedemption, under the row lock of the          *)
(* reservation.                                                            *)

\* Mutant: an earlier refund is not looked for.
OwedAgain(r) == CoinsRedeemed[r] > 0

\* Mutant: only bookings that wait for payment get their coins back.
OwedWhilePending(r) ==
  status[r] = "PAYMENT_PENDING" /\ CoinsRedeemed[r] > 0 /\ Rows("REDEEM_REFUND", r) = {}

Owed(r) == CoinsRedeemed[r] > 0 /\ Rows("REDEEM_REFUND", r) = {}

BeginRefund(op, r, seen) ==
  /\ ~Locked(r)
  /\ Begin(op, r, seen, IF Owed(r) THEN CoinsRedeemed[r] ELSE 0)
  /\ UNCHANGED <<status, balance, ledger, due, history>>

PostRefund(t) ==
  IF t.amount > 0 THEN Post("REDEEM_REFUND", t, t.amount) ELSE PostNothing

\* expireReservation; the hold may have lapsed whenever the booking is pending.
BeginExpire(r) ==
  /\ status[r] = "PAYMENT_PENDING"
  /\ BeginRefund("expire", r, status[r])
  /\ UNCHANGED viewed

CommitExpire(t) ==
  /\ t.op = "expire"
  /\ status' = [status EXCEPT ![t.res] = "EXPIRED"]
  /\ PostRefund(t)
  /\ End(t)
  /\ UNCHANGED <<due, viewed, outdated, revived>>

-----------------------------------------------------------------------------
(* The administrators.  Each reads a booking and checks its status, and    *)
(* then writes it in a transaction that does not look at the status again. *)

May(op, r) ==
  \/ op = "cancel" /\ canTransition(status[r], "CANCELLED")
  \/ op = "accept" /\ status[r] = "PAYMENT_PENDING"
  \/ op = "noShow" /\ canTransition(status[r], "NO_SHOW")

View(op, r) ==
  /\ Cardinality(viewed) < MaxViewed
  /\ May(op, r)
  /\ viewed' = viewed \cup {[op |-> op, res |-> r, seen |-> status[r]]}
  /\ UNCHANGED <<status, balance, ledger, running, due, history>>

Overwrites(r, seen) == { x \in {r} : status[x] # seen }

BeginCancel(v) ==
  /\ v.op = "cancel"
  /\ BeginRefund("cancel", v.res, v.seen)
  /\ viewed' = viewed \ {v}

CommitCancel(t) ==
  /\ t.op = "cancel"
  /\ status' = [status EXCEPT ![t.res] = "CANCELLED"]
  /\ PostRefund(t)
  /\ outdated' = outdated \cup Overwrites(t.res, t.seen)
  /\ End(t)
  /\ UNCHANGED <<due, viewed, revived>>

\* What is written of a booking that takes no coins and gives none back.
Overwrite(v, to) ==
  /\ ~Locked(v.res)
  /\ status' = [status EXCEPT ![v.res] = to]
  /\ outdated' = outdated \cup Overwrites(v.res, v.seen)
  /\ viewed' = viewed \ {v}
  /\ UNCHANGED <<balance, ledger, running, due, overlapped, revived>>

\* accept: the hold rows, if there are any left, become sold rooms.
Accept(v) == v.op = "accept" /\ Overwrite(v, "CONFIRMED")

MarkNoShow(v) == v.op = "noShow" /\ Overwrite(v, "NO_SHOW")

-----------------------------------------------------------------------------
(* Payment and completion, as far as the coins go.                         *)

\* A payment in time, or one that comes after the booking expired.
Confirm(r) ==
  /\ ~Locked(r)
  /\ canTransition(status[r], "CONFIRMED")
  /\ status' = [status EXCEPT ![r] = "CONFIRMED"]
  /\ revived' = revived \cup { x \in {r} : status[x] = "EXPIRED" }
  /\ UNCHANGED <<balance, ledger, running, due, viewed, overlapped, outdated>>

CompleteStay(r) ==
  /\ ~Locked(r)
  /\ status[r] = "CONFIRMED"
  /\ status' = [status EXCEPT ![r] = "COMPLETED"]
  /\ due' = due \cup {r}
  /\ UNCHANGED <<balance, ledger, running, viewed, history>>

\* creditEarnOnComplete, a transaction of its own that reads without a lock.
BeginCredit(r) ==
  /\ r \in due
  /\ due' = due \ {r}
  /\ IF status[r] = "COMPLETED" /\ CoinsEarnable[r] > 0 /\ Rows("EARN", r) = {}
     THEN Begin("credit", r, status[r], CoinsEarnable[r])
     ELSE UNCHANGED running
  /\ UNCHANGED <<status, balance, ledger, viewed, history>>

\* It writes the reservation too, and waits for its lock.
CommitCredit(t) ==
  /\ t.op = "credit"
  /\ ~Locked(t.res)
  /\ Post("EARN", t, t.amount)
  /\ End(t)
  /\ UNCHANGED <<status, due, viewed, outdated, revived>>

\* The process dies before the credit.
LoseCredit(r) ==
  /\ r \in due
  /\ due' = due \ {r}
  /\ UNCHANGED <<status, balance, ledger, running, viewed, history>>

-----------------------------------------------------------------------------
(* adjustBalance.                                                          *)

BeginAdjust(amount) ==
  /\ Cardinality(Rows("ADJUST", None)) < MaxAdjusted
  /\ balance + amount >= 0
  /\ Begin("adjust", None, NONE, amount)
  /\ UNCHANGED <<status, balance, ledger, due, viewed, history>>

CommitAdjust(t) ==
  /\ t.op = "adjust"
  /\ Post("ADJUST", t, t.amount)
  /\ End(t)
  /\ UNCHANGED <<status, due, viewed, outdated, revived>>

-----------------------------------------------------------------------------
Booking(r) ==
  \/ BeginCreate(r)
  \/ BeginExpire(r)
  \/ Confirm(r)
  \/ CompleteStay(r)
  \/ BeginCredit(r)
  \/ LoseCredit(r)

Administration(v) ==
  \/ BeginCancel(v)
  \/ Accept(v)
  \/ MarkNoShow(v)

Transaction(t) ==
  \/ CommitCreate(t)
  \/ CommitExpire(t)
  \/ CommitCancel(t)
  \/ CommitCredit(t)
  \/ CommitAdjust(t)
  \/ RollBack(t)

Next ==
  \/ \E r \in Reservations : Booking(r)
  \/ \E r \in Reservations, op \in {"cancel", "accept", "noShow"} : View(op, r)
  \/ \E v \in viewed : Administration(v)
  \/ \E amount \in Adjustments : BeginAdjust(amount)
  \/ \E t \in running : Transaction(t)

Spec == Init /\ [][Next]_vars

-----------------------------------------------------------------------------
(* Properties.                                                             *)

\* Type invariant; the balance is never negative.
TypeOK ==
  /\ status \in [Reservations -> ReservationStatus \cup {NONE}]
  /\ balance \in Nat
  /\ \A i \in DOMAIN ledger :
       /\ ledger[i].type \in {"REDEEM", "REDEEM_REFUND", "EARN", "ADJUST"}
       /\ ledger[i].res \in Reservations \cup {None}
       /\ ledger[i].amount \in Int
       /\ ledger[i].balanceAfter \in Nat
  /\ \A t \in running :
       /\ t.op \in {"create", "expire", "cancel", "credit", "adjust"}
       /\ t.res \in Reservations \cup {None}
       /\ t.amount \in Int /\ t.saw \in Nat
  /\ due \subseteq Reservations
  /\ overlapped \in BOOLEAN

\* The user's statement adds up: each row's balanceAfter is the one before it
\* plus its amount and the last is the balance, as long as no balance was written
\* that had changed since it was read.
StatementAddsUp ==
  ~overlapped =>
    LET after(i) == IF i = 0 THEN Opening ELSE ledger[i].balanceAfter IN
    /\ \A i \in DOMAIN ledger : after(i) = after(i - 1) + ledger[i].amount
    /\ balance = after(Len(ledger))

\* Coins are redeemed, given back and earned at most once for a booking, though
\* expiry, cancellation, late payment and completion race over it.
OncePerBooking ==
  \A r \in Reservations, type \in {"REDEEM", "REDEEM_REFUND", "EARN"} :
    Cardinality(Rows(type, r)) <= 1

\* The coins of a booking that has expired or was cancelled are back; they are back
\* for no other, but one that a late payment revived, and only a completed stay has
\* earned coins: unless an administrator wrote the booking from an old view.
CoinsFollowTheStay ==
  \A r \in Reservations :
    /\ Rows("REDEEM", r) # {} /\ status[r] \in {"EXPIRED", "CANCELLED"}
         => Rows("REDEEM_REFUND", r) # {}
    /\ Rows("REDEEM_REFUND", r) # {}
         => /\ Rows("REDEEM", r) # {}
            /\ status[r] \in {"EXPIRED", "CANCELLED"} \/ r \in revived \cup outdated
    /\ Rows("EARN", r) # {} => status[r] = "COMPLETED" \/ r \in outdated
=============================================================================
