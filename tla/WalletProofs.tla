----------------------------- MODULE WalletProofs -----------------------------
(***************************************************************************)
(* Theorems about Wallet.  The invariant says of every transaction that    *)
(* has read the balance what it will still find when it commits, and of    *)
(* the rows of a booking what its status says of them.                     *)
(***************************************************************************)
EXTENDS Wallet, FiniteSetTheorems, SequenceTheorems, TLAPS

Row == [type : {"REDEEM", "REDEEM_REFUND", "EARN", "ADJUST"},
        res : Reservations \cup {None}, amount : Int, balanceAfter : Nat]

BookingOps == {"create", "expire", "cancel", "credit"}

\* What administrators change, and what they have seen of it.
Views == [op : {"cancel", "accept", "noShow"}, res : Reservations,
          seen : {"PENDING", "PAYMENT_PENDING", "CONFIRMED"}]

Typed ==
  /\ status \in [Reservations -> ReservationStatus \cup {NONE}]
  /\ balance \in Nat
  /\ ledger \in Seq(Row)
  /\ running \subseteq [op : BookingOps, res : Reservations, amount : Nat, saw : Nat,
                       seen : ReservationStatus \cup {NONE}]
                  \cup [op : {"adjust"}, res : {None}, amount : Int, saw : Nat,
                        seen : {NONE}]
  /\ due \subseteq Reservations
  /\ viewed \subseteq Views
  /\ overlapped \in BOOLEAN
  /\ outdated \subseteq Reservations
  /\ revived \subseteq Reservations

\* The new balance is not negative.
Covered ==
  \A t \in running : /\ t.op = "create" => t.amount <= t.saw
                     /\ t.op = "adjust" => t.saw + t.amount >= 0

WalletTyped == Typed /\ Covered

\* The row a transaction adds, if it adds one: its type and its amount.
TypeOf(t) ==
  CASE t.op = "create" -> "REDEEM"
    [] t.op \in {"expire", "cancel"} -> "REDEEM_REFUND"
    [] t.op = "credit" -> "EARN"
    [] t.op = "adjust" -> "ADJUST"

AmountOf(t) == IF t.op = "create" THEN -t.amount ELSE t.amount

\* What every step does to the balance, the rows and the running transactions.
Posts(t) == Post(TypeOf(t), t, AmountOf(t)) /\ End(t)

LEMMA EntryTyped ==
  ASSUME WalletTyped, NEW t \in running
  PROVE  /\ Entry(TypeOf(t), t, AmountOf(t)) \in Row
         /\ t.saw + AmountOf(t) \in Nat
<1> USE DEF WalletTyped, Typed, Covered, TypeOf, AmountOf, Entry, Row, BookingOps
<1>1. /\ t.op \in BookingOps \cup {"adjust"}
      /\ t.res \in Reservations \cup {None}
      /\ t.amount \in Int
      /\ t.op # "adjust" => t.amount \in Nat
      /\ t.saw \in Nat
  OBVIOUS
<1>2. TypeOf(t) \in {"REDEEM", "REDEEM_REFUND", "EARN", "ADJUST"}
  BY <1>1
<1>3. AmountOf(t) \in Int /\ t.saw + AmountOf(t) \in Nat
  BY <1>1
<1> HIDE DEF TypeOf, AmountOf
<1> QED  BY <1>1, <1>2, <1>3

\* A new row is the last, with the number after the last one's.
LEMMA RowsAfter ==
  ASSUME WalletTyped, NEW t \in running, Post(TypeOf(t), t, AmountOf(t))
  PROVE  /\ ledger' \in Seq(Row)
         /\ balance' \in Nat
         /\ Len(ledger') = Len(ledger) + 1
         /\ ledger'[Len(ledger) + 1] = Entry(TypeOf(t), t, AmountOf(t))
         /\ \A i \in 1 .. Len(ledger) : ledger'[i] = ledger[i]
         /\ \A type, r :
              Rows(type, r)' =
                Rows(type, r) \cup (IF type = TypeOf(t) /\ r = t.res
                                    THEN {Len(ledger) + 1} ELSE {})
<1> DEFINE e == Entry(TypeOf(t), t, AmountOf(t))
<1>1. e \in Row /\ balance' \in Nat /\ ledger' = Append(ledger, e) /\ ledger \in Seq(Row)
  BY EntryTyped DEF Post, WalletTyped, Typed
<1>2. e.type = TypeOf(t) /\ e.res = t.res
  BY DEF Entry
<1> HIDE DEF e
<1>3. /\ ledger' \in Seq(Row)
      /\ Len(ledger') = Len(ledger) + 1
      /\ ledger'[Len(ledger) + 1] = e
      /\ \A i \in 1 .. Len(ledger) : ledger'[i] = ledger[i]
  BY <1>1, AppendProperties
<1>4. DOMAIN ledger' = 1 .. (Len(ledger) + 1) /\ DOMAIN ledger = 1 .. Len(ledger)
  BY <1>1, <1>3
<1>5. Len(ledger) \in Nat
  BY <1>1
<1>6. ASSUME NEW type, NEW r
      PROVE  Rows(type, r)' =
               Rows(type, r) \cup (IF type = TypeOf(t) /\ r = t.res
                                   THEN {Len(ledger) + 1} ELSE {})
  BY <1>2, <1>3, <1>4, <1>5 DEF Rows
<1> QED  BY <1>1, <1>3, <1>6 DEF e

\* No other step touches the balance and its statement.
LEMMA StepPosts ==
  ASSUME WalletTyped, [Next]_vars
  PROVE  \/ \E t \in running : Posts(t)
         \/ UNCHANGED <<balance, ledger, overlapped>>
<1>1. ASSUME NEW t \in running, Transaction(t)
      PROVE  Posts(t) \/ UNCHANGED <<balance, ledger, overlapped>>
  BY <1>1 DEF Transaction, CommitCreate, CommitExpire, CommitCancel, CommitCredit,
     CommitAdjust, RollBack, PostRefund, PostNothing, Posts, TypeOf, AmountOf, history
<1>2. ASSUME NEW r \in Reservations, Booking(r)
      PROVE  UNCHANGED <<balance, ledger, overlapped>>
  BY <1>2 DEF Booking, BeginCreate, BeginExpire, BeginRefund, Confirm, CompleteStay,
     BeginCredit, LoseCredit, history
<1>3. ASSUME \/ \E r \in Reservations, op \in {"cancel", "accept", "noShow"} : View(op, r)
             \/ \E v \in viewed : Administration(v)
             \/ \E amount \in Adjustments : BeginAdjust(amount)
      PROVE  UNCHANGED <<balance, ledger, overlapped>>
  BY <1>3 DEF View, Administration, BeginCancel, BeginRefund, Accept, MarkNoShow,
     Overwrite, BeginAdjust, history
<1>4. CASE UNCHANGED vars
  BY <1>4 DEF vars, history
<1> QED  BY <1>1, <1>2, <1>3, <1>4 DEF Next

LEMMA TypedStep == WalletTyped /\ [Next]_vars => WalletTyped'
<1> USE WalletAssumption
<1> SUFFICES ASSUME WalletTyped, [Next]_vars
             PROVE  WalletTyped'
  OBVIOUS
<1>1. balance' \in Nat /\ ledger' \in Seq(Row)
  BY StepPosts, RowsAfter DEF Posts, WalletTyped, Typed
<1>2. ASSUME NEW t \in running, Transaction(t)
      PROVE  WalletTyped'
  <2>1. running' = running \ {t} /\ t.res \in Reservations \cup {None}
    BY <1>2 DEF Transaction, CommitCreate, CommitExpire, CommitCancel, CommitCredit,
       CommitAdjust, RollBack, End, WalletTyped, Typed
  <2>2. t.op # "adjust" => t.res \in Reservations
    BY DEF WalletTyped, Typed
  <2>3. /\ status' \in [Reservations -> ReservationStatus \cup {NONE}]
        /\ outdated' \subseteq Reservations
        /\ overlapped' \in BOOLEAN
        /\ UNCHANGED <<due, viewed, revived>>
    BY <1>2, <2>2 DEF Overwrites, Transaction, CommitCreate, CommitExpire, CommitCancel,
       CommitCredit, CommitAdjust, RollBack, PostRefund, PostNothing, Post, history,
       WalletTyped, Typed, ReservationStatus
  <2> QED  BY <1>1, <2>1, <2>3 DEF WalletTyped, Typed, Covered
<1>7. ASSUME NEW op \in BookingOps, NEW r \in Reservations,
             NEW seen \in ReservationStatus \cup {NONE}, NEW amount \in Nat,
             Begin(op, r, seen, amount), op = "create" => amount <= balance,
             UNCHANGED <<status, balance, ledger, overlapped, outdated, revived>>,
             due' \subseteq due, viewed' \subseteq viewed
      PROVE  WalletTyped'
  <2> DEFINE t == [op |-> op, res |-> r, seen |-> seen, amount |-> amount,
                   saw |-> balance]
  <2>1. running' = running \cup {t}
    BY <1>7 DEF Begin
  <2>2. /\ t \in [op : BookingOps, res : Reservations, amount : Nat, saw : Nat,
                  seen : ReservationStatus \cup {NONE}]
        /\ t.op = "create" => t.amount <= t.saw
        /\ t.op # "adjust"
    BY <1>7 DEF WalletTyped, Typed, BookingOps
  <2> HIDE DEF t
  <2> QED  BY <1>7, <2>1, <2>2 DEF WalletTyped, Typed, Covered
<1>8. \A r \in Reservations : (IF Owed(r) THEN CoinsRedeemed[r] ELSE 0) \in Nat
  OBVIOUS
<1>3. ASSUME NEW r \in Reservations, Booking(r)
      PROVE  WalletTyped'
  <2>1. CASE BeginCreate(r)
    <3>1. Begin("create", r, NONE, CoinsRedeemed[r]) /\ CoinsRedeemed[r] <= balance
      BY <2>1 DEF BeginCreate, Sufficient
    <3>2. UNCHANGED <<status, balance, ledger, due, viewed, overlapped, outdated, revived>>
      BY <2>1 DEF BeginCreate, history
    <3> QED  BY <1>7, <3>1, <3>2 DEF BookingOps
  <2>2. CASE BeginExpire(r)
    <3>1. /\ Begin("expire", r, status[r], IF Owed(r) THEN CoinsRedeemed[r] ELSE 0)
          /\ UNCHANGED <<status, balance, ledger, due, viewed, overlapped, outdated, revived>>
      BY <2>2 DEF BeginExpire, BeginRefund, history
    <3>2. status[r] \in ReservationStatus \cup {NONE}
      BY DEF WalletTyped, Typed
    <3> QED  BY <1>7, <1>8, <3>1, <3>2 DEF BookingOps
  <2>3. CASE Confirm(r) \/ CompleteStay(r) \/ LoseCredit(r)
    BY <2>3 DEF Confirm, CompleteStay, LoseCredit, WalletTyped, Typed, Covered,
       history, ReservationStatus
  <2>4. CASE BeginCredit(r) /\ running' = running
    BY <2>4 DEF BeginCredit, WalletTyped, Typed, Covered, history
  <2>5. CASE BeginCredit(r) /\ running' # running
    <3>1. /\ Begin("credit", r, status[r], CoinsEarnable[r])
          /\ UNCHANGED <<status, balance, ledger, viewed, overlapped, outdated, revived>>
          /\ due' = due \ {r}
      BY <2>5 DEF BeginCredit, history
    <3>2. status[r] \in ReservationStatus \cup {NONE}
      BY DEF WalletTyped, Typed
    <3> QED  BY <1>7, <3>1, <3>2 DEF BookingOps, WalletTyped, Typed
  <2> QED  BY <1>3, <2>1, <2>2, <2>3, <2>4, <2>5 DEF Booking
<1>4. ASSUME NEW r \in Reservations, NEW op \in {"cancel", "accept", "noShow"}, View(op, r)
      PROVE  WalletTyped'
  <2>1. [op |-> op, res |-> r, seen |-> status[r]] \in Views
    BY <1>4 DEF View, May, canTransition, ALLOWED_TRANSITIONS, Views
  <2>2. /\ viewed' = viewed \cup {[op |-> op, res |-> r, seen |-> status[r]]}
        /\ UNCHANGED <<status, running, due, overlapped, outdated, revived>>
    BY <1>4 DEF View, history
  <2> QED  BY <1>1, <2>1, <2>2, Zenon DEF WalletTyped, Typed, Covered
<1>9. ASSUME NEW v \in viewed, Administration(v)
      PROVE  WalletTyped'
  <2>1. v \in Views
    BY DEF WalletTyped, Typed
  <2>2. CASE BeginCancel(v)
    <3>1. v.res \in Reservations /\ v.seen \in ReservationStatus
      BY <2>1 DEF Views, ReservationStatus
    <3>2. /\ Begin("cancel", v.res, v.seen, IF Owed(v.res) THEN CoinsRedeemed[v.res] ELSE 0)
          /\ UNCHANGED <<status, balance, ledger, due, overlapped, outdated, revived>>
          /\ viewed' \subseteq viewed
      BY <2>2 DEF BeginCancel, BeginRefund, history
    <3> QED  BY <1>7, <1>8, <3>1, <3>2 DEF BookingOps
  <2>3. CASE Accept(v) \/ MarkNoShow(v)
    <3>1. PICK to \in {"CONFIRMED", "NO_SHOW"} : Overwrite(v, to)
      BY <2>3 DEF Accept, MarkNoShow
    <3>2. /\ status' \in [Reservations -> ReservationStatus \cup {NONE}]
          /\ outdated' \subseteq Reservations
          /\ viewed' \subseteq viewed
          /\ UNCHANGED <<running, due, overlapped, revived>>
      BY <2>1, <3>1 DEF Overwrite, Overwrites, Views, WalletTyped, Typed, ReservationStatus
    <3> QED  BY <1>1, <3>2 DEF WalletTyped, Typed, Covered
  <2> QED  BY <1>9, <2>2, <2>3 DEF Administration
<1>5. ASSUME NEW amount \in Adjustments, BeginAdjust(amount)
      PROVE  WalletTyped'
  <2> DEFINE t == [op |-> "adjust", res |-> None, seen |-> NONE, amount |-> amount,
                   saw |-> balance]
  <2>1. amount \in Int /\ balance \in Nat
    BY DEF WalletTyped, Typed
  <2>2. running' = running \cup {t} /\ balance + amount >= 0
    BY <1>5 DEF BeginAdjust, Begin
  <2>3. /\ t \in [op : {"adjust"}, res : {None}, amount : Int, saw : Nat, seen : {NONE}]
        /\ t.op = "adjust" /\ t.saw + t.amount >= 0
    BY <2>1, <2>2
  <2>4. UNCHANGED <<status, balance, ledger, due, viewed, overlapped, outdated, revived>>
    BY <1>5 DEF BeginAdjust, history
  <2> HIDE DEF t
  <2> QED  BY <2>2, <2>3, <2>4 DEF WalletTyped, Typed, Covered
<1>6. CASE UNCHANGED vars
  BY <1>6 DEF vars, history, WalletTyped, Typed, Covered
<1> QED  BY <1>2, <1>3, <1>4, <1>5, <1>6, <1>9 DEF Next

LEMMA TypedInit == Init => WalletTyped
<1> SUFFICES ASSUME Init  PROVE WalletTyped
  OBVIOUS
<1>1. <<>> \in Seq(Row)
  OBVIOUS
<1> QED  BY <1>1, WalletAssumption DEF Init, WalletTyped, Typed, Covered

LEMMA AlwaysTyped == Spec => []WalletTyped
BY TypedInit, TypedStep, PTL DEF Spec

\* Every column and every transaction in flight keeps its type, and neither the
\* balance nor a balance the user's statement shows is ever negative, whatever
\* redemptions, refunds, credits and adjustments overlap.
THEOREM WalletTypeCorrect == Spec => []TypeOK
<1>1. WalletTyped => TypeOK
  <2> SUFFICES ASSUME WalletTyped  PROVE TypeOK
    OBVIOUS
  <2>1. \A i \in DOMAIN ledger : ledger[i] \in Row
    BY DEF WalletTyped, Typed
  <2>2. \A t \in running :
          /\ t.op \in {"create", "expire", "cancel", "credit", "adjust"}
          /\ t.res \in Reservations \cup {None}
          /\ t.amount \in Int /\ t.saw \in Nat
    BY DEF WalletTyped, Typed, BookingOps
  <2> QED  BY <2>1, <2>2 DEF WalletTyped, Typed, Row, TypeOK
<1> QED  BY <1>1, AlwaysTyped, PTL

\* The user's statement adds up as long as no balance was written that had changed
\* since it was read.
THEOREM StatementCorrect == Spec => []StatementAddsUp
<1>1. Init => StatementAddsUp
  BY DEF Init, StatementAddsUp
<1>2. WalletTyped /\ StatementAddsUp /\ [Next]_vars => StatementAddsUp'
  <2> SUFFICES ASSUME WalletTyped, StatementAddsUp, [Next]_vars, ~overlapped'
               PROVE  StatementAddsUp'
    BY DEF StatementAddsUp
  <2>1. CASE UNCHANGED <<balance, ledger, overlapped>>
    BY <2>1 DEF StatementAddsUp
  <2>2. ASSUME NEW t \in running, Posts(t)
        PROVE  StatementAddsUp'
    <3> DEFINE n == Len(ledger)
               e == Entry(TypeOf(t), t, AmountOf(t))
    <3>1. /\ ~overlapped /\ balance = t.saw /\ balance' = t.saw + AmountOf(t)
          /\ e.amount = AmountOf(t) /\ e.balanceAfter = t.saw + AmountOf(t)
      BY <2>2 DEF Posts, Post, Entry
    <3>2. /\ ledger' \in Seq(Row)
          /\ Len(ledger') = n + 1
          /\ ledger'[n + 1] = e
          /\ \A i \in 1 .. n : ledger'[i] = ledger[i]
      BY <2>2, RowsAfter DEF Posts
    <3>3. n \in Nat /\ DOMAIN ledger = 1 .. n /\ DOMAIN ledger' = 1 .. (n + 1)
      BY <3>2 DEF WalletTyped, Typed
    <3>4. /\ \A i \in 1 .. n : (IF i = 0 THEN Opening ELSE ledger[i].balanceAfter) =
               (IF i - 1 = 0 THEN Opening ELSE ledger[i - 1].balanceAfter)
                 + ledger[i].amount
          /\ balance = (IF n = 0 THEN Opening ELSE ledger[n].balanceAfter)
      BY <3>1, <3>3 DEF StatementAddsUp
    <3> HIDE DEF n, e
    <3>5. \A i \in 1 .. (n + 1) :
            (IF i = 0 THEN Opening ELSE ledger'[i].balanceAfter) =
              (IF i - 1 = 0 THEN Opening ELSE ledger'[i - 1].balanceAfter)
                + ledger'[i].amount
      <4>1. CASE n = 0
        BY <3>1, <3>2, <3>3, <3>4, <4>1
      <4>2. CASE n # 0
        BY <3>1, <3>2, <3>3, <3>4, <4>2
      <4> QED  BY <4>1, <4>2
    <3>6. balance' = ledger'[n + 1].balanceAfter
      BY <3>1, <3>2
    <3> QED  BY <3>2, <3>3, <3>5, <3>6 DEF StatementAddsUp
  <2> QED  BY <2>1, <2>2, StepPosts
<1> QED  BY <1>1, <1>2, AlwaysTyped, PTL DEF Spec

-----------------------------------------------------------------------------
(* The rows of a booking.                                                  *)

Refunds == {"expire", "cancel"}

\* Transactions of one kind, and the two that give coins back, do not run for one
\* booking at a time.
OneAtATime ==
  \A t, u \in running :
    t.res = u.res /\ (t.op = u.op \/ {t.op, u.op} \subseteq Refunds) => t = u

\* What a transaction saw of its booking is still so when it commits.
ViewsHold ==
  \A t \in running :
    /\ t.op = "create" => status[t.res] = NONE /\ t.amount = CoinsRedeemed[t.res]
    /\ t.op = "expire" => status[t.res] = "PAYMENT_PENDING"
    /\ t.op = "cancel" => status[t.res] # NONE /\ t.seen # "COMPLETED"
    /\ t.op \in Refunds => t.amount = IF Owed(t.res) THEN CoinsRedeemed[t.res] ELSE 0
    /\ t.op = "credit" => /\ Rows("EARN", t.res) = {}
                          /\ status[t.res] = "COMPLETED" \/ t.res \in outdated

\* What a booking's status says of its rows.
RowsFollow ==
  /\ \A v \in viewed : status[v.res] # NONE
  /\ \A r \in Reservations :
       /\ Rows("REDEEM", r) # {} <=> status[r] # NONE /\ CoinsRedeemed[r] > 0
       /\ CoinsRedeemed[r] > 0 /\ status[r] \in {"EXPIRED", "CANCELLED"}
            => Rows("REDEEM_REFUND", r) # {}
       /\ Rows("REDEEM_REFUND", r) # {} =>
            /\ CoinsRedeemed[r] > 0 /\ status[r] # NONE
            /\ status[r] \in {"EXPIRED", "CANCELLED"} \/ r \in revived \cup outdated
       /\ Rows("EARN", r) # {} => status[r] = "COMPLETED" \/ r \in outdated

RowsAreUnique ==
  \A r \in Reservations, type \in {"REDEEM", "REDEEM_REFUND", "EARN"} :
    \A i, j \in Rows(type, r) : i = j

CoinsInv == OneAtATime /\ ViewsHold /\ RowsFollow /\ RowsAreUnique

LEMMA RowsSame ==
  ledger' = ledger =>
    /\ \A type, r : Rows(type, r)' = Rows(type, r)
    /\ \A r : Owed(r)' <=> Owed(r)
BY DEF Rows, Owed

\* A transaction begins and nothing else changes.
LEMMA CoinsBegin ==
  ASSUME WalletTyped, CoinsInv, NEW op, NEW res, NEW seen, NEW amount,
         Begin(op, res, seen, amount),
         UNCHANGED <<status, ledger, outdated, revived>>, viewed' \subseteq viewed,
         op \in Refunds => ~Locked(res),
         op = "create" => status[res] = NONE /\ amount = CoinsRedeemed[res],
         op = "expire" => status[res] = "PAYMENT_PENDING",
         op = "cancel" => status[res] # NONE /\ seen # "COMPLETED",
         op \in Refunds => amount = IF Owed(res) THEN CoinsRedeemed[res] ELSE 0,
         op = "credit" => Rows("EARN", res) = {} /\ status[res] = "COMPLETED"
  PROVE  CoinsInv'
<1> DEFINE t == [op |-> op, res |-> res, seen |-> seen, amount |-> amount,
                 saw |-> balance]
<1>1. /\ running' = running \cup {t}
      /\ \A u \in running : u.op # op \/ u.res # res
      /\ t.op = op /\ t.res = res /\ t.seen = seen /\ t.amount = amount
  BY DEF Begin
<1> HIDE DEF t
<1>2. /\ \A type, r : Rows(type, r)' = Rows(type, r)
      /\ \A r : Owed(r)' <=> Owed(r)
  BY RowsSame
<1>3. RowsFollow' /\ RowsAreUnique'
  BY <1>2 DEF CoinsInv, RowsFollow, RowsAreUnique
<1>4. OneAtATime'
  <2>1. \A u \in running : u.res = t.res =>
          u.op # t.op /\ ~({u.op, t.op} \subseteq Refunds)
    BY <1>1 DEF Locked, Refunds
  <2>2. \A u \in running : {u.op, t.op} = {t.op, u.op}
    OBVIOUS
  <2> QED  BY <1>1, <2>1, <2>2 DEF CoinsInv, OneAtATime
<1>5. ViewsHold'
  BY <1>1, <1>2 DEF CoinsInv, ViewsHold
<1> QED  BY <1>3, <1>4, <1>5 DEF CoinsInv

\* Transactions end, or bookings move on, without a row.
LEMMA CoinsQuiet ==
  ASSUME WalletTyped, CoinsInv, UNCHANGED ledger, running' \subseteq running,
         \A r \in Reservations :
           /\ status'[r] = NONE <=> status[r] = NONE
           /\ \/ status'[r] = status[r]
              \/ /\ ~Locked(r)
                 /\ status'[r] \notin {"EXPIRED", "CANCELLED"}
                 /\ status[r] = "COMPLETED" => r \in outdated'
                 /\ status[r] \in {"EXPIRED", "CANCELLED"} => r \in revived' \cup outdated',
         outdated \subseteq outdated', revived \subseteq revived',
         \A v \in viewed' : v \in viewed \/ (v.res \in Reservations /\ status[v.res] # NONE)
  PROVE  CoinsInv'
<1>1. /\ \A type, r : Rows(type, r)' = Rows(type, r)
      /\ \A r : Owed(r)' <=> Owed(r)
  BY RowsSame
<1>2. \A t \in running : t.op # "adjust" => t.res \in Reservations
  BY DEF WalletTyped, Typed
<1>3. OneAtATime' /\ RowsAreUnique'
  BY <1>1 DEF CoinsInv, OneAtATime, RowsAreUnique
<1>4. ViewsHold'
  BY <1>1, <1>2 DEF CoinsInv, ViewsHold, Locked, Refunds
<1>5. \A v \in viewed : v.res \in Reservations
  BY DEF WalletTyped, Typed, Views
<1>6. RowsFollow'
  BY <1>1, <1>5 DEF CoinsInv, RowsFollow
<1> QED  BY <1>3, <1>4, <1>6 DEF CoinsInv

\* A transaction commits, with a row or without one.
Posted(t) == t.op \in {"credit", "adjust"} \/ t.amount > 0

LEMMA CommitPosts ==
  ASSUME WalletTyped, NEW t \in running, Transaction(t), ~RollBack(t)
  PROVE  IF Posted(t) THEN Posts(t) ELSE ledger' = ledger
BY DEF Transaction, CommitCreate, CommitExpire, CommitCancel, CommitCredit,
   CommitAdjust, PostRefund, PostNothing, Posts, TypeOf, AmountOf, Posted

LEMMA CoinsCommit ==
  ASSUME WalletTyped, CoinsInv, NEW t \in running, Transaction(t), ~RollBack(t)
  PROVE  CoinsInv'
<1>1. /\ running' = running \ {t}
      /\ \A u \in running' :
           u.res = t.res => u.op # t.op /\ ~({u.op, t.op} \subseteq Refunds)
  <2>1. running' = running \ {t}
    BY DEF Transaction, CommitCreate, CommitExpire, CommitCancel, CommitCredit,
       CommitAdjust, End
  <2> QED  BY <2>1 DEF CoinsInv, OneAtATime
<1>2. OneAtATime'
  BY <1>1 DEF CoinsInv, OneAtATime
<1>3. PICK last : \A type, r :
        /\ last \notin Rows(type, r)
        /\ Rows(type, r)' =
             Rows(type, r) \cup (IF Posted(t) /\ type = TypeOf(t) /\ r = t.res
                                 THEN {last} ELSE {})
  <2>1. ledger \in Seq(Row)
    BY DEF WalletTyped, Typed
  <2>2. \A type, r : Len(ledger) + 1 \notin Rows(type, r)
    BY <2>1 DEF Rows
  <2>3. CASE Posted(t)
    BY <2>2, <2>3, CommitPosts, RowsAfter DEF Posts
  <2>4. CASE ~Posted(t)
    BY <2>2, <2>4, CommitPosts, RowsSame
  <2> QED  BY <2>3, <2>4
<1>4. /\ \/ t.op \in BookingOps /\ t.res \in Reservations /\ t.amount \in Nat
         \/ t.op = "adjust" /\ t.res = None
      /\ \A u \in running : u.op # "adjust" => u.res \in Reservations
      /\ \A v \in viewed : v.res \in Reservations
      /\ \A r \in Reservations : CoinsRedeemed[r] \in Nat
  BY WalletAssumption DEF WalletTyped, Typed, Views
<1> USE WalletAssumption
<1>5. CASE CommitCreate(t)
  <2>1. /\ t.op = "create" /\ t.res \in Reservations
        /\ status[t.res] = NONE /\ t.amount = CoinsRedeemed[t.res]
        /\ status' = [status EXCEPT ![t.res] = "PAYMENT_PENDING"]
        /\ UNCHANGED <<viewed, outdated, revived>>
        /\ status \in [Reservations -> ReservationStatus \cup {NONE}]
    BY <1>4, <1>5 DEF CommitCreate, CoinsInv, ViewsHold, BookingOps, WalletTyped, Typed
  <2>2. TypeOf(t) = "REDEEM" /\ (Posted(t) <=> CoinsRedeemed[t.res] > 0)
    BY <2>1 DEF TypeOf, Posted
  <2>3. Rows("REDEEM", t.res) = {}
    BY <2>1 DEF CoinsInv, RowsFollow
  <2>4. RowsAreUnique'
    BY <1>3, <2>2, <2>3 DEF CoinsInv, RowsAreUnique
  <2>5. RowsFollow'
    BY <1>3, <1>4, <2>1, <2>2, <2>3 DEF CoinsInv, RowsFollow, NONE
  <2>6. ViewsHold'
    BY <1>1, <1>3, <1>4, <2>1, <2>2 DEF CoinsInv, ViewsHold, Owed, NONE
  <2> QED  BY <1>2, <2>4, <2>5, <2>6 DEF CoinsInv
<1>6. ASSUME t.op \in Refunds, t.res \in Reservations,
             t.amount = IF Owed(t.res) THEN CoinsRedeemed[t.res] ELSE 0
      PROVE  /\ TypeOf(t) = "REDEEM_REFUND" /\ t.op \notin {"credit", "adjust"}
             /\ Posted(t) <=> Owed(t.res)
             /\ Rows("REDEEM_REFUND", t.res)' # {} <=> CoinsRedeemed[t.res] > 0
             /\ RowsAreUnique'
             /\ \A r \in Reservations : r # t.res =>
                  (Owed(r)' <=> Owed(r))
  <2>1. TypeOf(t) = "REDEEM_REFUND" /\ t.op \notin {"credit", "adjust"}
    BY <1>6 DEF TypeOf, Refunds
  <2>2. Posted(t) <=> Owed(t.res)
    BY <1>4, <1>6, <2>1 DEF Posted, Owed
  <2>3. Rows("REDEEM_REFUND", t.res) # {} => CoinsRedeemed[t.res] > 0
    BY <1>6 DEF CoinsInv, RowsFollow
  <2>4. Rows("REDEEM_REFUND", t.res)' # {} <=> CoinsRedeemed[t.res] > 0
    BY <1>3, <2>1, <2>2, <2>3 DEF Owed
  <2>5. RowsAreUnique'
    BY <1>3, <2>1, <2>2 DEF CoinsInv, RowsAreUnique, Owed
  <2>6. \A r \in Reservations : r # t.res => (Owed(r)' <=> Owed(r))
    BY <1>3 DEF Owed
  <2> QED  BY <2>1, <2>2, <2>4, <2>5, <2>6
<1>7. CASE CommitExpire(t)
  <2>1. /\ t.op = "expire" /\ t.op \in Refunds /\ t.res \in Reservations
        /\ status[t.res] = "PAYMENT_PENDING"
        /\ t.amount = IF Owed(t.res) THEN CoinsRedeemed[t.res] ELSE 0
        /\ status' = [status EXCEPT ![t.res] = "EXPIRED"]
        /\ UNCHANGED <<viewed, outdated, revived>>
        /\ status \in [Reservations -> ReservationStatus \cup {NONE}]
    BY <1>4, <1>7 DEF CommitExpire, CoinsInv, ViewsHold, BookingOps, WalletTyped,
       Typed, Refunds
  <2>2. RowsFollow'
    BY <1>3, <1>4, <1>6, <2>1 DEF CoinsInv, RowsFollow, NONE
  <2>3. ViewsHold'
    BY <1>1, <1>3, <1>4, <1>6, <2>1 DEF CoinsInv, ViewsHold, NONE, Refunds
  <2> QED  BY <1>2, <1>6, <2>1, <2>2, <2>3 DEF CoinsInv
<1>8. CASE CommitCancel(t)
  <2>1. /\ t.op = "cancel" /\ t.op \in Refunds /\ t.res \in Reservations
        /\ status[t.res] # NONE
        /\ t.amount = IF Owed(t.res) THEN CoinsRedeemed[t.res] ELSE 0
        /\ status' = [status EXCEPT ![t.res] = "CANCELLED"]
        /\ status[t.res] = "COMPLETED" => t.res \in outdated'
        /\ outdated \subseteq outdated'
        /\ UNCHANGED <<viewed, revived>>
        /\ status \in [Reservations -> ReservationStatus \cup {NONE}]
    BY <1>4, <1>8 DEF CommitCancel, Overwrites, CoinsInv, ViewsHold, BookingOps,
       WalletTyped, Typed, Refunds
  <2>2. RowsFollow'
    BY <1>3, <1>4, <1>6, <2>1 DEF CoinsInv, RowsFollow, NONE
  <2>3. ViewsHold'
    BY <1>1, <1>3, <1>4, <1>6, <2>1 DEF CoinsInv, ViewsHold, NONE, Refunds
  <2> QED  BY <1>2, <1>6, <2>1, <2>2, <2>3 DEF CoinsInv
<1>9. CASE CommitCredit(t) \/ CommitAdjust(t)
  <2>1. /\ UNCHANGED <<status, viewed, outdated, revived>>
        /\ \/ /\ t.op = "credit" /\ t.res \in Reservations /\ TypeOf(t) = "EARN"
              /\ Rows("EARN", t.res) = {}
              /\ status[t.res] = "COMPLETED" \/ t.res \in outdated
           \/ t.res \notin Reservations /\ TypeOf(t) = "ADJUST"
    BY <1>4, <1>9 DEF CommitCredit, CommitAdjust, CoinsInv, ViewsHold, TypeOf,
       BookingOps
  <2>2. RowsAreUnique'
    BY <1>3, <2>1 DEF CoinsInv, RowsAreUnique
  <2>3. RowsFollow'
    BY <1>3, <1>4, <2>1 DEF CoinsInv, RowsFollow
  <2>4. ViewsHold'
    BY <1>1, <1>3, <1>4, <2>1, SMTT(30) DEF CoinsInv, ViewsHold, Owed, Refunds
  <2> QED  BY <1>2, <2>2, <2>3, <2>4 DEF CoinsInv
<1> QED  BY <1>5, <1>7, <1>8, <1>9 DEF Transaction

LEMMA CoinsStep == WalletTyped /\ CoinsInv /\ [Next]_vars => CoinsInv'
<1> SUFFICES ASSUME WalletTyped, CoinsInv, [Next]_vars
             PROVE  CoinsInv'
  OBVIOUS
<1> USE WalletAssumption
<1>1. ASSUME NEW t \in running, Transaction(t)
      PROVE  CoinsInv'
  <2>1. CASE RollBack(t)
    BY <2>1, CoinsQuiet DEF RollBack, End, history
  <2> QED  BY <1>1, <2>1, CoinsCommit
<1>2. ASSUME NEW r \in Reservations, Booking(r)
      PROVE  CoinsInv'
  <2> USE DEF history, NONE
  <2>1. CASE BeginCreate(r)
    BY <2>1, CoinsBegin DEF BeginCreate, Refunds
  <2>2. CASE BeginExpire(r)
    BY <2>2, CoinsBegin DEF BeginExpire, BeginRefund
  <2>4. CASE Confirm(r)
    <3>1. status[r] \in {"PAYMENT_PENDING", "EXPIRED"} /\ ~Locked(r)
      BY <2>4 DEF Confirm, canTransition, ALLOWED_TRANSITIONS
    <3>2. /\ status' = [status EXCEPT ![r] = "CONFIRMED"]
          /\ revived' = revived \cup { x \in {r} : status[x] = "EXPIRED" }
          /\ UNCHANGED <<ledger, running, viewed, outdated>>
          /\ status \in [Reservations -> ReservationStatus \cup {NONE}]
      BY <2>4 DEF Confirm, WalletTyped, Typed
    <3>3. \A x \in Reservations :
            IF x = r THEN /\ status'[x] = "CONFIRMED"
                          /\ x \in revived' <=> x \in revived \/ status[x] = "EXPIRED"
                     ELSE status'[x] = status[x] /\ (x \in revived' <=> x \in revived)
      BY <3>2
    <3> QED  BY <3>1, <3>2, <3>3, CoinsQuiet
  <2>5. CASE CompleteStay(r)
    <3>1. /\ status[r] = "CONFIRMED" /\ ~Locked(r)
          /\ status' = [status EXCEPT ![r] = "COMPLETED"]
          /\ UNCHANGED <<ledger, running, viewed, outdated, revived>>
          /\ status \in [Reservations -> ReservationStatus \cup {NONE}]
      BY <2>5 DEF CompleteStay, WalletTyped, Typed
    <3> QED  BY <3>1, CoinsQuiet
  <2>6. CASE BeginCredit(r) /\ running' = running
    BY <2>6, CoinsQuiet DEF BeginCredit
  <2>7. CASE BeginCredit(r) /\ running' # running
    BY <2>7, CoinsBegin DEF BeginCredit, Refunds
  <2>8. CASE LoseCredit(r)
    BY <2>8, CoinsQuiet DEF LoseCredit
  <2> QED  BY <1>2, <2>1, <2>2, <2>4, <2>5, <2>6, <2>7, <2>8 DEF Booking
<1>3. ASSUME NEW r \in Reservations, NEW op \in {"cancel", "accept", "noShow"}, View(op, r)
      PROVE  CoinsInv'
  <2>1. status[r] # NONE
    BY <1>3 DEF View, May, canTransition, ALLOWED_TRANSITIONS, NONE
  <2>2. /\ viewed' = viewed \cup {[op |-> op, res |-> r, seen |-> status[r]]}
        /\ UNCHANGED <<status, ledger, running, outdated, revived>>
    BY <1>3 DEF View, history
  <2> QED  BY <2>1, <2>2, CoinsQuiet
<1>6. ASSUME NEW v \in viewed, Administration(v)
      PROVE  CoinsInv'
  <2>1. v \in Views /\ status[v.res] # NONE
    BY DEF WalletTyped, Typed, CoinsInv, RowsFollow
  <2>2. CASE BeginCancel(v)
    BY <2>1, <2>2, CoinsBegin DEF BeginCancel, BeginRefund, history, Views
  <2>3. ASSUME NEW to \in {"CONFIRMED", "NO_SHOW"}, Overwrite(v, to)
        PROVE  CoinsInv'
    <3>1. /\ ~Locked(v.res) /\ v.res \in Reservations
          /\ v.seen \notin {"EXPIRED", "CANCELLED", "COMPLETED"}
      BY <2>1, <2>3 DEF Overwrite, Views
    <3>2. /\ status' = [status EXCEPT ![v.res] = to]
          /\ outdated' = outdated \cup Overwrites(v.res, v.seen)
          /\ viewed' \subseteq viewed
          /\ UNCHANGED <<ledger, running, revived>>
          /\ status \in [Reservations -> ReservationStatus \cup {NONE}]
      BY <2>3 DEF Overwrite, WalletTyped, Typed
    <3>3. \A x \in Reservations :
            IF x = v.res THEN status'[x] = to /\ (status[x] # v.seen => x \in outdated')
                         ELSE status'[x] = status[x]
      BY <3>2 DEF Overwrites
    <3> QED  BY <2>1, <2>3, <3>1, <3>2, <3>3, CoinsQuiet DEF NONE
  <2> QED  BY <1>6, <2>2, <2>3 DEF Administration, Accept, MarkNoShow
<1>4. ASSUME NEW amount \in Adjustments, BeginAdjust(amount)
      PROVE  CoinsInv'
  BY <1>4, CoinsBegin DEF BeginAdjust, Refunds, history
<1>5. CASE UNCHANGED vars
  BY <1>5, CoinsQuiet DEF vars, history
<1> QED  BY <1>1, <1>2, <1>3, <1>4, <1>5, <1>6 DEF Next

LEMMA CoinsInit == Init => CoinsInv
BY WalletAssumption
   DEF Init, CoinsInv, OneAtATime, ViewsHold, RowsFollow, RowsAreUnique, Rows, NONE

LEMMA AlwaysCoins == Spec => []CoinsInv
BY CoinsInit, CoinsStep, AlwaysTyped, PTL DEF Spec

\* Coins are redeemed, given back and earned at most once for a booking, whatever
\* expiry, cancellation, late payment, completion and crashes do to it.
THEOREM CoinsOncePerBooking == Spec => []OncePerBooking
<1>1. RowsAreUnique => OncePerBooking
  <2> SUFFICES ASSUME RowsAreUnique, NEW r \in Reservations,
                      NEW type \in {"REDEEM", "REDEEM_REFUND", "EARN"}
               PROVE  Cardinality(Rows(type, r)) <= 1
    BY DEF OncePerBooking
  <2>1. CASE Rows(type, r) = {}
    BY <2>1, FS_EmptySet
  <2>2. ASSUME NEW i \in Rows(type, r)
        PROVE  Cardinality(Rows(type, r)) <= 1
    <3>1. Rows(type, r) = {i}
      BY DEF RowsAreUnique
    <3>2. Cardinality({i}) = 1
      BY FS_Singleton, Zenon
    <3> QED  BY <3>1, <3>2
  <2> QED  BY <2>1, <2>2
<1> QED  BY <1>1, AlwaysCoins, PTL DEF CoinsInv

\* The coins of a booking that has expired or was cancelled are back; they are back for
\* no other, but one that a late payment revived, and only a completed stay has earned
\* coins, unless an administrator wrote the booking from an old view.
THEOREM CoinsFollow == Spec => []CoinsFollowTheStay
<1>1. WalletTyped /\ RowsFollow => CoinsFollowTheStay
  BY WalletAssumption DEF WalletTyped, Typed, RowsFollow, CoinsFollowTheStay, NONE
<1> QED  BY <1>1, AlwaysCoins, AlwaysTyped, PTL DEF CoinsInv
=============================================================================
