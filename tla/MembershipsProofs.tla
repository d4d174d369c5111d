-------------------------- MODULE MembershipsProofs --------------------------
(***************************************************************************)
(* Theorems about Memberships, for any number of plans, prices, durations, *)
(* purchase requests and notifications handled side by side.               *)
(***************************************************************************)
EXTENDS Memberships, FiniteSetTheorems, TLAPS

PurchaseStatus == {"NONE", "PENDING", "CAPTURED", "FAILED", "EXPIRED", "REFUNDED"}

MembershipRows ==
  [status : {"NONE", "ACTIVE", "SUPERSEDED", "CANCELLED", "EXPIRED"},
   activated : Nat, expires : Nat]

Purchases == Requests \cup {None}

Notifications ==
  [pc : {"idle", "failing", "paid", "captured", "showing"}, purchase : Purchases,
   active : Purchases, seen : MembershipRows, until : Nat, shown : Purchases]

AdminTasks ==
  [op : {"none", "refund", "cancel", "extend"}, purchase : Purchases, until : Nat,
   reading : BOOLEAN, shown : Purchases]

Typed ==
  /\ now \in Nat \ {0}
  /\ request \in [Requests -> [pc : {"new", "insert", "remote", "ended"},
                               purchase : Purchases]]
  /\ purchase \in [Requests -> [status : PurchaseStatus, expires : Nat]]
  /\ membership \in [Requests -> MembershipRows]
  /\ profile \in Purchases
  /\ paidOn \in [Requests -> Nat]
  /\ handler \in [Handlers -> Notifications]
  /\ admin \in AdminTasks
  /\ job \in [reading : BOOLEAN, shown : Purchases]

\* Who is at work is at work on a purchase.
AtWork ==
  /\ \A r \in Requests : request[r].pc = "remote" => request[r].purchase \in Requests
  /\ \A h \in Handlers : handler[h].pc # "idle" => handler[h].purchase \in Requests
  /\ admin.op # "none" => admin.purchase \in Requests
  /\ ~admin.reading => admin.op # "none"

\* A success is reported for what was paid, and nothing is paid in the future.
Reported ==
  /\ \A p \in Requests : paidOn[p] <= now
  /\ \A h \in Handlers : handler[h].pc = "paid" \/ InTransaction(h)
                           => paidOn[handler[h].purchase] # 0

\* The administrator works on a membership there is, and extends it.
AdminTargets ==
  /\ admin.op # "none" => membership[admin.purchase].status # "NONE"
  /\ admin.op = "extend" => membership[admin.purchase].expires <= admin.until

\* A membership lasts.
Lasting ==
  \A p \in Requests : membership[p].status # "NONE"
                        => membership[p].activated < membership[p].expires

\* What a success under way saw is how the membership was, which has since only
\* been extended or ended.
Watched ==
  \A h \in Handlers : InTransaction(h) /\ handler[h].active # None =>
    /\ membership[handler[h].active].status # "NONE"
    /\ membership[handler[h].active].activated = handler[h].seen.activated
    /\ handler[h].seen.expires <= membership[handler[h].active].expires
    /\ handler[h].seen.status = "ACTIVE"
    /\ handler[h].seen.activated < handler[h].seen.expires
    /\ paidOn[handler[h].purchase] < handler[h].seen.expires

\* The row lock admits one success of a purchase at a time, whose membership is not
\* there before it commits.
OneSuccess ==
  \A h \in Handlers :
    /\ InTransaction(h) =>
         \A g \in Handlers :
           InTransaction(g) /\ handler[g].purchase = handler[h].purchase => g = h
    /\ handler[h].pc = "showing" => membership[handler[h].purchase].status = "NONE"

\* A success gives its membership the end it computed from what it saw.
Reckoned ==
  \A h \in Handlers :
    InTransaction(h) =>
      handler[h].until \in ExpiryFor(handler[h].purchase, paidOn[handler[h].purchase],
                                     handler[h].active, handler[h].seen)

MembershipsInv == Typed /\ AtWork /\ Reported /\ AdminTargets /\ Lasting /\ Watched
                    /\ OneSuccess /\ Reckoned /\ CapturedIsActivated

-----------------------------------------------------------------------------
(* How long a membership lasts.                                            *)

\* Dividing by a positive number and multiplying again loses less than it.
LEMMA DivFloor ==
  ASSUME NEW x \in Nat, NEW y \in Nat \ {0}
  PROVE  x \div y \in Nat /\ x < (x \div y + 1) * y
<1>1. x \div y \in Nat
  OBVIOUS
<1>2. x < (x \div y + 1) * y
  OBVIOUS
<1> QED  BY <1>1, <1>2

\* The product of positive numbers is positive.
LEMMA PositiveProduct ==
  ASSUME NEW x \in Nat \ {0}, NEW y \in Nat \ {0}
  PROVE  x * y \in Nat \ {0}
OBVIOUS

\* Whole days cover the time between two instants.
LEMMA DaysCover ==
  ASSUME NEW start \in Nat, NEW end \in Nat
  PROVE  /\ daysBetween(start, end) \in Nat
         /\ end - start <= daysBetween(start, end) * Day
<1>1. Day \in Nat \ {0}
  BY MembershipsAssumption
<1>2. CASE end <= start
  <2>1. daysBetween(start, end) = 0
    BY <1>2 DEF daysBetween
  <2> QED  BY <1>1, <1>2, <2>1
<1>3. CASE end > start
  <2> DEFINE x == end - start + Day - 1
             q == x \div Day
  <2>1. x \in Nat
    BY <1>1, <1>3
  <2>2. daysBetween(start, end) = q
    BY <1>1, <1>3 DEF daysBetween
  <2>3. q \in Nat /\ x < (q + 1) * Day
    <3> HIDE DEF x
    <3> QED  BY <1>1, <2>1, DivFloor
  <2>4. x = end - start + Day - 1
    OBVIOUS
  <2>5. (q + 1) * Day = q * Day + Day
    <3> HIDE DEF q
    <3> QED  BY <1>1, <2>3
  <2>6. q * Day \in Nat
    <3> HIDE DEF q
    <3> QED  BY <1>1, <2>3
  <2> HIDE DEF q, x
  <2>7. end - start <= q * Day
    BY <1>1, <2>1, <2>3, <2>4, <2>5, <2>6
  <2> QED  BY <2>2, <2>3, <2>7
<1> QED  BY <1>2, <1>3

\* The days a bonus comes to: the quotient rounded down, or a day less than a quotient
\* that is whole.
LEMMA BonusFacts ==
  ASSUME NEW x \in Nat, NEW y \in Nat \ {0},
         NEW b, b = x \div y \/ (b = x \div y - 1 /\ x % y = 0 /\ b >= 0)
  PROVE  b \in Nat /\ x <= (b + 1) * y
<1> DEFINE q == x \div y
<1>1. q \in Nat /\ x < (q + 1) * y
  BY DivFloor
<1>2. x % y = 0 => x = q * y
  OBVIOUS
<1> HIDE DEF q
<1>3. CASE b = q
  <2>1. (b + 1) * y \in Nat
    BY <1>1, <1>3
  <2> QED  BY <1>1, <1>3, <2>1
<1>4. CASE b = q - 1 /\ x % y = 0 /\ b >= 0
  <2>1. b \in Nat /\ b + 1 = q
    BY <1>1, <1>4
  <2>2. x = (b + 1) * y
    BY <1>2, <1>4, <2>1
  <2>3. (b + 1) * y \in Nat
    BY <2>1
  <2> QED  BY <2>1, <2>2, <2>3
<1> QED  BY <1>3, <1>4 DEF q

\* Such a bonus is worth no less than the rest of the old membership less one day of
\* the new plan.  The rates are old / oldDays, new / newDays.
LEMMA BonusCovers ==
  ASSUME NEW old \in Nat \ {0}, NEW oldDays \in Nat \ {0},
         NEW new \in Nat \ {0}, NEW newDays \in Nat \ {0},
         NEW day \in Nat \ {0}, NEW days \in Nat,
         NEW rest \in Int, rest <= days * day,
         NEW b \in Nat, days * old * newDays <= (b + 1) * (oldDays * new)
  PROVE  ((newDays + b) * day + day) * new * oldDays
           >= newDays * day * new * oldDays + rest * old * newDays
<1> DEFINE x == days * old * newDays
           y == oldDays * new
<1>1. x \in Nat /\ y \in Nat \ {0}
  <2>1. days * old \in Nat
    OBVIOUS
  <2>2. (days * old) * newDays \in Nat
    BY <2>1
  <2> QED  BY <2>2, PositiveProduct
<1>3. x = days * old * newDays /\ y = oldDays * new
  OBVIOUS
<1>2. x <= (b + 1) * y
  OBVIOUS
<1> HIDE DEF x, y
<1>4. x * day <= ((b + 1) * y) * day
  <2>1. (b + 1) * y \in Nat
    BY <1>1
  <2> QED  BY <1>1, <1>2, <2>1
<1>5. rest * (old * newDays) <= (days * day) * (old * newDays)
  <2>1. old * newDays \in Nat /\ days * day \in Nat
    OBVIOUS
  <2> QED  BY <2>1
<1>6. (days * day) * (old * newDays) = x * day
  BY <1>1, <1>3
<1>7. ((newDays + b) * day + day) * new * oldDays
        = newDays * day * new * oldDays + ((b + 1) * y) * day
  BY <1>1, <1>3
<1>8. rest * (old * newDays) = rest * old * newDays
  OBVIOUS
<1> DEFINE before == newDays * day * new * oldDays
           bonus == ((b + 1) * y) * day
           worth == rest * old * newDays
<1>9. before \in Int /\ bonus \in Int /\ worth \in Int /\ x * day \in Int
  BY <1>1
<1>10. worth <= bonus
  <2> HIDE DEF before, bonus, worth
  <2>1. worth <= x * day
    BY <1>5, <1>6, <1>8 DEF worth
  <2>2. x * day <= bonus
    BY <1>4 DEF bonus
  <2> QED  BY <1>9, <2>1, <2>2
<1>11. before + bonus >= before + worth
  <2> HIDE DEF before, bonus, worth
  <2> QED  BY <1>9, <1>10
<1> QED  BY <1>7, <1>11

LEMMA PlanFacts ==
  ASSUME NEW p \in Requests
  PROVE  /\ planOf(p) \in Plans
         /\ Price[planOf(p)] \in Nat \ {0}
         /\ Duration[planOf(p)] \in Nat \ {0}
BY MembershipsAssumption DEF planOf

\* A plan always adds time.
LEMMA RenewalIsLater ==
  ASSUME NEW from \in Nat, NEW p \in Requests
  PROVE  /\ calculateRenewalExpiry(from, planOf(p)) \in Nat
         /\ calculateRenewalExpiry(from, planOf(p)) > from
<1>1. Duration[planOf(p)] \in Nat \ {0} /\ Day \in Nat \ {0}
  BY PlanFacts, MembershipsAssumption
<1>2. Duration[planOf(p)] * Day \in Nat \ {0}
  BY <1>1, PositiveProduct
<1> QED  BY <1>2 DEF calculateRenewalExpiry, addDays

\* The expiry an upgrade computes: the days of the plan and the bonus, which
\* makes up for the rest of the old membership but for a day at most.
LEMMA UpgradeIsLater ==
  ASSUME NEW at \in Nat, NEW m \in Requests, NEW p \in Requests,
         NEW expires \in Nat,
         NEW e \in calculateUpgradeExpiry(at, planOf(m), expires, planOf(p))
  PROVE  /\ e \in Nat
         /\ e > at
         /\ (e - at + Day) * Price[planOf(p)] * Duration[planOf(m)]
               >= Duration[planOf(p)] * Day * Price[planOf(p)] * Duration[planOf(m)]
                   + (expires - at) * Price[planOf(m)] * Duration[planOf(p)]
<1> DEFINE old == planOf(m)
           new == planOf(p)
           d == daysBetween(at, expires)
<1>1. /\ Day \in Nat \ {0}
      /\ Price[old] \in Nat \ {0} /\ Duration[old] \in Nat \ {0}
      /\ Price[new] \in Nat \ {0} /\ Duration[new] \in Nat \ {0}
  BY PlanFacts, MembershipsAssumption
<1>2. d \in Nat /\ expires - at <= d * Day
  BY DaysCover
<1>4. PICK b \in bonusDays(d, old, new) : e = at + (Duration[new] + b) * Day
  BY DEF calculateUpgradeExpiry, addDays
<1> HIDE DEF old, new, d
<1>3. /\ b \in Nat
      /\ ((Duration[new] + b) * Day + Day) * Price[new] * Duration[old]
            >= Duration[new] * Day * Price[new] * Duration[old]
                + (expires - at) * Price[old] * Duration[new]
  <2> DEFINE x == d * Price[old] * Duration[new]
             y == Duration[old] * Price[new]
  <2>1. b = x \div y \/ (b = x \div y - 1 /\ x % y = 0 /\ b >= 0)
    BY <1>4 DEF bonusDays
  <2>2. x \in Nat /\ y \in Nat \ {0}
    <3>1. d * Price[old] \in Nat
      BY <1>1, <1>2
    <3>2. (d * Price[old]) * Duration[new] \in Nat
      BY <1>1, <3>1
    <3> QED  BY <1>1, <3>2, PositiveProduct
  <2>3. b \in Nat /\ x <= (b + 1) * y
    <3> HIDE DEF x, y
    <3> QED  BY <2>1, <2>2, BonusFacts
  <2>4. expires - at \in Int
    OBVIOUS
  <2> QED  BY <1>1, <1>2, <2>3, <2>4, BonusCovers
<1>5. (Duration[new] + b) * Day \in Nat \ {0}
  <2>1. Duration[new] + b \in Nat \ {0}
    BY <1>1, <1>3
  <2> QED  BY <1>1, <2>1, PositiveProduct
<1>6. e \in Nat /\ e > at /\ e - at = (Duration[new] + b) * Day
  BY <1>4, <1>5
<1>7. (e - at + Day) * Price[new] * Duration[old]
        >= Duration[new] * Day * Price[new] * Duration[old]
            + (expires - at) * Price[old] * Duration[new]
  BY <1>3, <1>6
<1> QED  BY <1>6, <1>7 DEF old, new

\* A membership bought at an instant expires after it.
LEMMA ExpiryIsLater ==
  ASSUME NEW p \in Requests, NEW at \in Nat, NEW m \in Purchases,
         NEW row \in MembershipRows, NEW e \in ExpiryFor(p, at, m, row)
  PROVE  e \in Nat /\ e > at
<1>1. row.expires \in Nat
  BY DEF MembershipRows
<1>2. CASE m = None
  BY <1>2, RenewalIsLater DEF ExpiryFor
<1>3. CASE m # None /\ planOf(m) = planOf(p)
  <2> DEFINE from == IF row.expires > at THEN row.expires ELSE at
  <2>1. from \in Nat /\ from >= at
    BY <1>1
  <2>2. e = calculateRenewalExpiry(from, planOf(p))
    BY <1>3 DEF ExpiryFor
  <2> HIDE DEF from
  <2>3. /\ calculateRenewalExpiry(from, planOf(p)) \in Nat
        /\ calculateRenewalExpiry(from, planOf(p)) > from
    BY <2>1, RenewalIsLater
  <2> QED  BY <2>1, <2>2, <2>3
<1>4. CASE m # None /\ planOf(m) # planOf(p)
  <2>1. m \in Requests
    BY <1>4 DEF Purchases
  <2>2. e \in calculateUpgradeExpiry(at, planOf(m), row.expires, planOf(p))
    BY <1>4 DEF ExpiryFor
  <2> QED  BY <1>1, <2>1, <2>2, UpgradeIsLater
<1> QED  BY <1>2, <1>3, <1>4

-----------------------------------------------------------------------------
(* The rows and who writes them.                                           *)

\* A row keeps its shape when its status or its end is set.
LEMMA RowWrites ==
  ASSUME NEW row \in MembershipRows
  PROVE  /\ [row EXCEPT !.status = "SUPERSEDED"] \in MembershipRows
         /\ [row EXCEPT !.status = "CANCELLED"] \in MembershipRows
         /\ [row EXCEPT !.status = "EXPIRED"] \in MembershipRows
         /\ \A t \in Nat : [row EXCEPT !.expires = t] \in MembershipRows
BY DEF MembershipRows

\* Which steps write memberships, the clock, the payments, the profile and the work
\* in hand.
LEMMA Writers ==
  ASSUME [Next]_vars
  PROVE  /\ \/ UNCHANGED membership
            \/ \E h \in Handlers : CommitSuccess(h)
            \/ CancelMembership
            \/ ExtendMembership
            \/ ExpireStale
         /\ \/ UNCHANGED profile
            \/ \E h \in Handlers : CommitSuccess(h)
            \/ CancelMembership
            \/ ExtendMembership
            \/ SyncExpired
         /\ UNCHANGED now \/ Tick
         /\ UNCHANGED paidOn \/ \E p \in Requests : Pay(p)
         /\ UNCHANGED handler \/ \E h \in Handlers : Notification(h)
         /\ UNCHANGED admin \/ Administration
         /\ UNCHANGED job \/ ReadExpired \/ SyncExpired
         /\ overtaken \subseteq overtaken'
<1> USE DEF Next, vars, purchaseVars, history
<1>1. CASE \E r \in Requests : Request(r)
  BY <1>1 DEF Request, LookForPurchase, CreatePurchase, ReplayPurchase,
     ServiceOpensSession, ServiceRejects, GiveUp
<1>2. CASE \E h \in Handlers : Notification(h)
  BY <1>2 DEF Notification, Receive, ReceiveFailure, RecordFailure, ReceiveSuccess,
     Capture, Activate, CommitSuccess, Abort
<1>3. CASE Administration
  BY <1>3 DEF Administration, Ask, AskRefund, AskCancel, AskExtend, Change,
     CancelMembership, ExtendMembership, Dismiss
<1>4. ASSUME \/ Tick \/ (\E p \in Requests : Pay(p)) \/ ExpireStale \/ ReadExpired
             \/ SyncExpired \/ ExpireAbandoned \/ UNCHANGED vars
      PROVE  /\ UNCHANGED <<handler, admin, overtaken>>
             /\ UNCHANGED membership \/ ExpireStale
             /\ UNCHANGED profile \/ SyncExpired
             /\ UNCHANGED now \/ Tick
             /\ UNCHANGED paidOn \/ \E p \in Requests : Pay(p)
             /\ UNCHANGED job \/ ReadExpired \/ SyncExpired
  BY <1>4 DEF Tick, Pay, ExpireStale, ReadExpired, SyncExpired, ExpireAbandoned
<1> QED  BY <1>1, <1>2, <1>3, <1>4

\* Only a success captures a purchase, and only the administrator refunds one.
LEMMA PurchaseWriters ==
  ASSUME Typed, AtWork, [Next]_vars, NEW p \in Requests,
         purchase'[p].status \in {"CAPTURED", "REFUNDED"},
         purchase[p].status \notin {"CAPTURED", "REFUNDED"}
  PROVE  CancelMembership \/ \E h \in Handlers : CommitSuccess(h)
<1>a. purchase \in [Requests -> [status : PurchaseStatus, expires : Nat]]
  BY DEF Typed
<1> USE DEF Next, vars, purchaseVars, history
<1>1. ASSUME NEW r \in Requests, Request(r) PROVE FALSE
  <2>1. \/ UNCHANGED purchase
        \/ purchase' = [purchase EXCEPT ![r] = [status |-> "PENDING",
                                               expires |-> now + PurchaseTTL]]
        \/ purchase' = [purchase EXCEPT ![request[r].purchase].status = "FAILED"]
    BY <1>1 DEF Request, LookForPurchase, CreatePurchase, ReplayPurchase,
       ServiceOpensSession, ServiceRejects, GiveUp
  <2> QED  BY <1>a, <2>1
<1>2. ASSUME NEW h \in Handlers, Notification(h), ~CommitSuccess(h) PROVE FALSE
  <2>1. \/ UNCHANGED purchase
        \/ purchase' = [purchase EXCEPT ![handler[h].purchase].status = "FAILED"]
    BY <1>2 DEF Notification, Receive, ReceiveFailure, RecordFailure, ReceiveSuccess,
       Capture, Activate, Abort
  <2> QED  BY <1>a, <2>1
<1>3. CASE Administration
  BY <1>3 DEF Administration, Ask, AskRefund, AskCancel, AskExtend, Change,
     ExtendMembership, Dismiss
<1>4. CASE Tick \/ (\E q \in Requests : Pay(q)) \/ ExpireStale \/ ReadExpired
             \/ SyncExpired \/ ExpireAbandoned \/ UNCHANGED vars
  BY <1>a, <1>4 DEF Tick, Pay, ExpireStale, ReadExpired, SyncExpired, ExpireAbandoned
<1> QED  BY <1>1, <1>2, <1>3, <1>4

\* The memberships as a success and as the administrator leave them.
LEMMA ActivatedRows ==
  ASSUME Typed, NEW h \in Handlers, handler[h].purchase \in Requests
  PROVE  Activated(h) \in [Requests -> MembershipRows]
<1> DEFINE new == [status |-> "ACTIVE", activated |-> paidOn[handler[h].purchase],
                   expires |-> handler[h].until]
<1>1. new \in MembershipRows
  BY DEF Typed, MembershipRows, Notifications
<1>2. \A q \in Requests :
        /\ membership[q] \in MembershipRows
        /\ [membership[q] EXCEPT !.status = "SUPERSEDED"] \in MembershipRows
  BY RowWrites DEF Typed
<1>3. Activated(h) =
        [q \in Requests |->
           CASE q = handler[h].purchase -> new
             [] q # handler[h].purchase /\ q = handler[h].active ->
                  [membership[q] EXCEPT !.status = "SUPERSEDED"]
             [] OTHER -> membership[q]]
  BY DEF Activated
<1> HIDE DEF new
<1> QED  BY <1>1, <1>2, <1>3

LEMMA ChangedRows ==
  ASSUME Typed, admin.purchase \in Requests
  PROVE  /\ Changed \in [Requests -> MembershipRows]
         /\ \A q \in Requests : q # admin.purchase => Changed[q] = membership[q]
         /\ admin.op = "extend" =>
              Changed[admin.purchase]
                = [membership[admin.purchase] EXCEPT !.expires = admin.until]
         /\ admin.op # "extend" =>
              Changed[admin.purchase]
                = [membership[admin.purchase] EXCEPT !.status = "CANCELLED"]
<1> DEFINE row == membership[admin.purchase]
<1>1. /\ row \in MembershipRows
      /\ [row EXCEPT !.status = "CANCELLED"] \in MembershipRows
      /\ [row EXCEPT !.expires = admin.until] \in MembershipRows
  BY RowWrites DEF Typed, AdminTasks
<1>2. Changed = IF admin.op = "extend"
                THEN [membership EXCEPT ![admin.purchase] = [row EXCEPT !.expires = admin.until]]
                ELSE [membership EXCEPT ![admin.purchase] = [row EXCEPT !.status = "CANCELLED"]]
  BY DEF Changed
<1>3. membership \in [Requests -> MembershipRows]
  BY DEF Typed
<1> DEFINE ext == [row EXCEPT !.expires = admin.until]
           can == [row EXCEPT !.status = "CANCELLED"]
<1> HIDE DEF row, ext, can
<1>4. /\ ext \in MembershipRows /\ can \in MembershipRows
      /\ Changed = IF admin.op = "extend"
                   THEN [membership EXCEPT ![admin.purchase] = ext]
                   ELSE [membership EXCEPT ![admin.purchase] = can]
  BY <1>1, <1>2 DEF ext, can
<1>5. /\ Changed \in [Requests -> MembershipRows]
      /\ \A q \in Requests : q # admin.purchase => Changed[q] = membership[q]
      /\ admin.op = "extend" => Changed[admin.purchase] = ext
      /\ admin.op # "extend" => Changed[admin.purchase] = can
  BY <1>3, <1>4
<1> QED  BY <1>5 DEF row, ext, can

LEMMA CommitWrites ==
  ASSUME Typed, AtWork, NEW h \in Handlers, CommitSuccess(h)
  PROVE  /\ handler[h].purchase \in Requests
         /\ membership' = Activated(h)
         /\ membership' \in [Requests -> MembershipRows]
<1>1. handler[h].purchase \in Requests
  BY DEF AtWork, CommitSuccess
<1>2. membership' = Activated(h)
  BY DEF CommitSuccess
<1> QED  BY <1>1, <1>2, ActivatedRows

LEMMA AdminWrites ==
  ASSUME Typed, AtWork, CancelMembership \/ ExtendMembership
  PROVE  /\ admin.purchase \in Requests
         /\ membership' \in [Requests -> MembershipRows]
         /\ \A q \in Requests : q # admin.purchase => membership'[q] = membership[q]
         /\ ExtendMembership =>
              membership'[admin.purchase]
                = [membership[admin.purchase] EXCEPT !.expires = admin.until]
         /\ CancelMembership =>
              membership'[admin.purchase]
                = [membership[admin.purchase] EXCEPT !.status = "CANCELLED"]
<1>1. admin.purchase \in Requests /\ membership' = Changed
  BY DEF AtWork, CancelMembership, ExtendMembership
<1>2. /\ ExtendMembership => admin.op = "extend"
      /\ CancelMembership => admin.op # "extend"
  BY DEF CancelMembership, ExtendMembership
<1> QED  BY <1>1, <1>2, ChangedRows

\* What the profile is to show is live.
LEMMA ShowsLive ==
  ASSUME NEW ms, NEW p \in ToShow(ms)
  PROVE  /\ p \in Purchases
         /\ p # None => p \in Requests /\ ms[p].status = "ACTIVE"
BY DEF ToShow, Purchases

-----------------------------------------------------------------------------
(* The types, and who works on what.                                       *)

LEMMA TypeStep == MembershipsInv /\ [Next]_vars => Typed' /\ AtWork'
<1> SUFFICES ASSUME MembershipsInv, [Next]_vars
             PROVE  Typed' /\ AtWork'
  OBVIOUS
<1>1. Typed /\ AtWork
  BY DEF MembershipsInv
<1>2. /\ NoMembership \in MembershipRows /\ None \in Purchases
      /\ Requests \subseteq Purchases
      /\ Idle \in Notifications /\ Idle.pc = "idle"
      /\ NoTask \in AdminTasks /\ NoTask.op = "none" /\ NoTask.reading
      /\ NoSync \in [reading : BOOLEAN, shown : Purchases]
  BY DEF NoMembership, MembershipRows, Purchases, Idle, Notifications, NoTask,
     AdminTasks, NoSync
<1> USE DEF Typed, AtWork, PurchaseStatus, purchaseVars, history
<1>3. CASE Tick
  BY <1>1, <1>3 DEF Tick
<1>4. ASSUME NEW r \in Requests, Request(r) PROVE Typed' /\ AtWork'
  <2>1. ASSUME NEW pc \in {"new", "insert", "remote", "ended"},
               NEW p \in Purchases, Proceed(r, pc, p), pc = "remote" => p \in Requests
        PROVE  /\ request' \in [Requests -> [pc : {"new", "insert", "remote", "ended"},
                                             purchase : Purchases]]
               /\ \A q \in Requests : request'[q].pc = "remote"
                                        => request'[q].purchase \in Requests
    BY <1>1, <2>1 DEF Proceed
  <2>2. ASSUME LookForPurchase(r) PROVE Typed' /\ AtWork'
    <3>1. \A p \in Youngest(Reusable(r)) : p \in Requests
      BY DEF Youngest, Reusable, Existing
    <3> QED  BY <1>1, <1>2, <2>1, <2>2, <3>1 DEF LookForPurchase
  <2>3. ASSUME CreatePurchase(r) PROVE Typed' /\ AtWork'
    <3>1. now + PurchaseTTL \in Nat
      BY <1>1, MembershipsAssumption
    <3> QED  BY <1>1, <1>2, <2>1, <2>3, <3>1 DEF CreatePurchase
  <2>4. ASSUME ReplayPurchase(r) PROVE Typed' /\ AtWork'
    <3>1. \A p \in SameKey(r) : p \in Requests
      BY DEF SameKey, Existing
    <3> QED  BY <1>1, <1>2, <2>1, <2>4, <3>1 DEF ReplayPurchase
  <2>5. ASSUME ServiceOpensSession(r) PROVE Typed' /\ AtWork'
    BY <1>1, <1>2, <2>1, <2>5 DEF ServiceOpensSession
  <2>6. ASSUME ServiceRejects(r) PROVE Typed' /\ AtWork'
    BY <1>1, <1>2, <2>1, <2>6, SMTT(30) DEF ServiceRejects
  <2>7. ASSUME GiveUp(r) PROVE Typed' /\ AtWork'
    BY <1>1, <1>2, <2>1, <2>7 DEF GiveUp
  <2> QED  BY <1>4, <2>2, <2>3, <2>4, <2>5, <2>6, <2>7 DEF Request
<1>5. ASSUME NEW p \in Requests, Pay(p) PROVE Typed' /\ AtWork'
  BY <1>1, <1>5 DEF Pay
<1>6. ASSUME NEW h \in Handlers, Notification(h) PROVE Typed' /\ AtWork'
  <2>1. ASSUME NEW note \in Notifications, handler' = [handler EXCEPT ![h] = note],
               note.pc # "idle" => note.purchase \in Requests
        PROVE  /\ handler' \in [Handlers -> Notifications]
               /\ \A g \in Handlers : handler'[g].pc # "idle"
                                        => handler'[g].purchase \in Requests
    BY <1>1, <2>1
  <2>2. ASSUME NEW p \in Requests, NEW pc \in {"failing", "paid"}, Receive(h, pc, p)
        PROVE  Typed' /\ AtWork'
    <3> DEFINE note == [Idle EXCEPT !.pc = pc, !.purchase = p]
    <3>1. note \in Notifications /\ note.purchase = p
      BY <1>2 DEF Idle, Notifications, Purchases, NoMembership, MembershipRows
    <3>2. handler' = [handler EXCEPT ![h] = note]
      BY <2>2 DEF Receive
    <3>3. UNCHANGED <<now, purchaseVars, membership, profile, paidOn, admin, job>>
      BY <2>2 DEF Receive
    <3> HIDE DEF note
    <3> QED  BY <1>1, <2>1, <3>1, <3>2, <3>3
  <2>3. ASSUME RecordFailure(h) PROVE Typed' /\ AtWork'
    BY <1>1, <1>2, <2>1, <2>3 DEF RecordFailure
  <2>4. ASSUME Capture(h) PROVE Typed' /\ AtWork'
    <3> DEFINE p == handler[h].purchase
    <3>1. p \in Requests
      BY <1>1, <2>4 DEF Capture
    <3>2. PICK m \in Latest(Replaceable(p)) :
            \E until \in ExpiryFor(p, paidOn[p], m,
                                   IF m = None THEN NoMembership ELSE membership[m]) :
              handler' = [handler EXCEPT ![h] = Captured(h, m, until)]
      BY <2>4 DEF Capture
    <3>3. m \in Purchases
      BY <1>2, <3>2 DEF Latest, Replaceable, ActiveAfter
    <3> DEFINE row == IF m = None THEN NoMembership ELSE membership[m]
    <3>4. row \in MembershipRows
      BY <1>1, <1>2, <3>3 DEF Purchases
    <3>5. PICK until \in ExpiryFor(p, paidOn[p], m, row) :
            handler' = [handler EXCEPT ![h] = Captured(h, m, until)]
      BY <3>2
    <3>6. until \in Nat
      <4>1. paidOn[p] \in Nat
        BY <1>1, <3>1
      <4> HIDE DEF p, row
      <4> QED  BY <3>1, <3>3, <3>4, <3>5, <4>1, ExpiryIsLater
    <3>7. Captured(h, m, until) \in Notifications /\ Captured(h, m, until).purchase = p
      <4>1. Captured(h, m, until) = [pc |-> "captured", purchase |-> p, active |-> m,
                                     seen |-> row, until |-> until, shown |-> None]
        BY DEF Captured
      <4> HIDE DEF row, p
      <4> QED  BY <1>2, <3>1, <3>3, <3>4, <3>6, <4>1 DEF Notifications
    <3>8. UNCHANGED <<now, purchaseVars, membership, profile, paidOn, admin, job>>
      BY <2>4 DEF Capture
    <3> HIDE DEF p
    <3> QED  BY <1>1, <2>1, <3>1, <3>5, <3>7, <3>8
  <2>5. ASSUME Activate(h) PROVE Typed' /\ AtWork'
    <3>1. PICK p \in ToShow(Activated(h)) :
            handler' = [handler EXCEPT ![h].pc = "showing", ![h].shown = p]
      BY <2>5 DEF Activate
    <3>2. p \in Purchases
      BY <3>1, ShowsLive
    <3>3. handler[h] \in Notifications /\ handler[h].purchase \in Requests
      BY <1>1, <2>5 DEF Activate
    <3> DEFINE note == [handler[h] EXCEPT !.pc = "showing", !.shown = p]
    <3>4. note \in Notifications /\ note.purchase \in Requests
      BY <3>2, <3>3 DEF Notifications
    <3>5. handler' = [handler EXCEPT ![h] = note]
      BY <1>1, <3>1
    <3>6. UNCHANGED <<now, purchaseVars, membership, profile, paidOn, admin, job>>
      BY <2>5 DEF Activate
    <3> HIDE DEF note
    <3> QED  BY <1>1, <2>1, <3>4, <3>5, <3>6
  <2>6. ASSUME CommitSuccess(h) PROVE Typed' /\ AtWork'
    <3>1. /\ handler[h].purchase \in Requests
          /\ membership' \in [Requests -> MembershipRows]
      BY <1>1, <2>6, CommitWrites
    <3>2. profile' \in Purchases
      BY <1>1, <2>6 DEF CommitSuccess, Notifications
    <3>3. /\ UNCHANGED <<now, request, atService, paidOn, admin, job>>
          /\ handler' = [handler EXCEPT ![h] = Idle]
          /\ purchase' = [purchase EXCEPT ![handler[h].purchase].status = "CAPTURED"]
      BY <2>6 DEF CommitSuccess
    <3>4. /\ handler' \in [Handlers -> Notifications]
          /\ \A g \in Handlers : handler'[g].pc # "idle" => handler'[g].purchase \in Requests
      BY <1>2, <2>1, <3>3
    <3>5. purchase' \in [Requests -> [status : PurchaseStatus, expires : Nat]]
      <4> DEFINE row == purchase[handler[h].purchase]
      <4>1. row \in [status : PurchaseStatus, expires : Nat]
        BY <1>1, <3>1
      <4>2. [row EXCEPT !.status = "CAPTURED"] \in [status : PurchaseStatus, expires : Nat]
        BY <4>1
      <4>3. purchase' = [purchase EXCEPT ![handler[h].purchase] =
                                            [row EXCEPT !.status = "CAPTURED"]]
        BY <3>3
      <4> HIDE DEF row
      <4> QED  BY <1>1, <3>1, <4>2, <4>3
    <3>6. Typed'
      BY <1>1, <3>1, <3>2, <3>3, <3>4, <3>5, Zenon
    <3>7. AtWork'
      BY <1>1, <3>3, <3>4, Zenon
    <3> QED  BY <3>6, <3>7
  <2>7. ASSUME Abort(h) PROVE Typed' /\ AtWork'
    BY <1>1, <1>2, <2>1, <2>7 DEF Abort
  <2> QED  BY <1>6, <2>2, <2>3, <2>4, <2>5, <2>6, <2>7
           DEF Notification, ReceiveFailure, ReceiveSuccess
<1>7. CASE Administration
  <2>1. ASSUME NEW p \in Requests, NEW op \in {"refund", "cancel", "extend"},
               NEW until \in Nat, Ask(op, p, until)
        PROVE  Typed' /\ AtWork'
    <3>1. /\ admin' \in AdminTasks /\ admin'.purchase = p /\ admin'.reading
      BY <1>2, <2>1 DEF Ask, NoTask, AdminTasks
    <3> QED  BY <1>1, <2>1, <3>1 DEF Ask
  <2>2. ASSUME NEW p \in Requests, AskRefund(p) \/ AskCancel(p) \/ AskExtend(p)
        PROVE  Typed' /\ AtWork'
    <3>1. addDays(membership[p].expires, 1) \in Nat
      BY <1>1, MembershipsAssumption DEF addDays, MembershipRows
    <3> QED  BY <2>1, <2>2, <3>1 DEF AskRefund, AskCancel, AskExtend
  <2>3. CASE Change
    <3>1. PICK p \in ToShow(Changed) :
            admin' = [admin EXCEPT !.reading = FALSE, !.shown = p]
      BY <2>3 DEF Change
    <3>2. p \in Purchases
      BY <3>1, ShowsLive
    <3>3. /\ admin' \in AdminTasks /\ admin'.purchase = admin.purchase
          /\ admin'.op = admin.op
      BY <1>1, <3>1, <3>2 DEF AdminTasks
    <3> QED  BY <1>1, <2>3, <3>3 DEF Change
  <2>4. CASE CancelMembership
    <3>1. profile' \in Purchases
      BY <1>1, <2>4 DEF CancelMembership, AdminTasks
    <3>2. membership' \in [Requests -> MembershipRows]
      BY <1>1, <2>4, AdminWrites
    <3>3. purchase' \in [Requests -> [status : PurchaseStatus, expires : Nat]]
      <4>1. \/ UNCHANGED purchase
            \/ purchase' = [purchase EXCEPT ![admin.purchase].status = "REFUNDED"]
        BY <2>4 DEF CancelMembership
      <4> QED  BY <1>1, <4>1
    <3>4. admin' = NoTask /\ UNCHANGED <<now, request, atService, paidOn, handler, job>>
      BY <2>4 DEF CancelMembership
    <3> QED  BY <1>1, <1>2, <3>1, <3>2, <3>3, <3>4
  <2>5. CASE ExtendMembership
    <3>1. profile' \in Purchases
      BY <1>1, <2>5 DEF ExtendMembership, AdminTasks
    <3>2. membership' \in [Requests -> MembershipRows]
      BY <1>1, <2>5, AdminWrites
    <3>3. /\ admin' = NoTask
          /\ UNCHANGED <<now, request, purchase, atService, paidOn, handler, job>>
      BY <2>5 DEF ExtendMembership
    <3> QED  BY <1>1, <1>2, <3>1, <3>2, <3>3
  <2>6. CASE Dismiss
    BY <1>1, <1>2, <2>6 DEF Dismiss
  <2> QED  BY <1>7, <2>2, <2>3, <2>4, <2>5, <2>6 DEF Administration
<1>8. CASE ExpireStale
  <2>1. membership' \in [Requests -> MembershipRows]
    <3>1. \A p \in Requests :
            /\ membership[p] \in MembershipRows
            /\ [membership[p] EXCEPT !.status = "EXPIRED"] \in MembershipRows
      BY <1>1, RowWrites
    <3> QED  BY <1>8, <3>1 DEF ExpireStale
  <2> QED  BY <1>1, <1>8, <2>1 DEF ExpireStale
<1>9. CASE ReadExpired
  <2>1. PICK p \in ToShow(membership) : job' = [reading |-> FALSE, shown |-> p]
    BY <1>9 DEF ReadExpired
  <2>2. job' \in [reading : BOOLEAN, shown : Purchases]
    BY <2>1, ShowsLive
  <2> QED  BY <1>1, <1>9, <2>2 DEF ReadExpired
<1>10. CASE SyncExpired
  BY <1>1, <1>2, <1>10 DEF SyncExpired
<1>11. CASE ExpireAbandoned
  BY <1>1, <1>11 DEF ExpireAbandoned
<1>12. CASE UNCHANGED vars
  BY <1>1, <1>12 DEF vars
<1> QED  BY <1>3, <1>4, <1>5, <1>6, <1>7, <1>8, <1>9, <1>10, <1>11, <1>12 DEF Next

LEMMA ReportedStep == MembershipsInv /\ [Next]_vars => Reported'
<1> SUFFICES ASSUME MembershipsInv, [Next]_vars
             PROVE  Reported'
  OBVIOUS
<1>1. Typed /\ AtWork /\ Reported
  BY DEF MembershipsInv
<1>2. now' \in Nat /\ now <= now'
  BY <1>1, Writers DEF Typed, Tick
<1>3. /\ \A p \in Requests : paidOn'[p] \in Nat /\ paidOn'[p] <= now'
      /\ \A p \in Requests : paidOn[p] # 0 => paidOn'[p] = paidOn[p]
  <2>1. CASE UNCHANGED paidOn
    BY <1>1, <1>2, <2>1 DEF Typed, Reported
  <2>2. ASSUME NEW q \in Requests, Pay(q)
        PROVE  /\ \A p \in Requests : paidOn'[p] \in Nat /\ paidOn'[p] <= now'
               /\ \A p \in Requests : paidOn[p] # 0 => paidOn'[p] = paidOn[p]
    BY <1>1, <1>2, <2>2 DEF Typed, Reported, Pay
  <2> QED  BY <2>1, <2>2, Writers
<1>4. ASSUME NEW h \in Handlers, handler'[h].pc \in {"paid", "captured", "showing"}
      PROVE  /\ handler'[h].purchase \in Requests
             /\ paidOn[handler'[h].purchase] # 0
  <2>1. CASE handler'[h] = handler[h]
    BY <1>1, <1>4, <2>1 DEF AtWork, Reported, InTransaction
  <2>2. ASSUME handler'[h] # handler[h], NEW g \in Handlers, Notification(g)
        PROVE  /\ handler'[h].purchase \in Requests
               /\ paidOn[handler'[h].purchase] # 0
    <3> DEFINE Good == /\ handler'[h].purchase \in Requests
                       /\ paidOn[handler'[h].purchase] # 0
    <3>1. ASSUME NEW p \in Requests, ReceiveFailure(g, p) PROVE Good
      BY <1>1, <1>4, <2>2, <3>1 DEF Typed, ReceiveFailure, Receive, Idle
    <3>2. ASSUME NEW p \in Requests, ReceiveSuccess(g, p) PROVE Good
      BY <1>1, <2>2, <3>2 DEF Typed, ReceiveSuccess, Receive, Idle
    <3>3. CASE Capture(g)
      BY <1>1, <2>2, <3>3 DEF Typed, Capture, Captured, AtWork, Reported
    <3>4. CASE Activate(g)
      <4>1. /\ handler[g].pc = "captured"
            /\ \E p \in ToShow(Activated(g)) :
                 handler' = [handler EXCEPT ![g].pc = "showing", ![g].shown = p]
        BY <3>4 DEF Activate
      <4>2. handler[g].purchase \in Requests /\ paidOn[handler[g].purchase] # 0
        BY <1>1, <4>1 DEF AtWork, Reported, InTransaction
      <4>3. handler'[h].purchase = handler[g].purchase
        BY <1>1, <2>2, <4>1 DEF Typed, Notifications
      <4> QED  BY <4>2, <4>3
    <3>5. CASE RecordFailure(g) \/ CommitSuccess(g) \/ Abort(g)
      <4>1. handler' = [handler EXCEPT ![g] = Idle]
        BY <3>5 DEF RecordFailure, CommitSuccess, Abort
      <4> QED  BY <1>1, <1>4, <2>2, <4>1 DEF Typed, Idle
    <3> QED  BY <2>2, <3>1, <3>2, <3>3, <3>4, <3>5 DEF Notification
  <2> QED  BY <2>1, <2>2, Writers
<1> QED  BY <1>3, <1>4 DEF Reported, InTransaction

-----------------------------------------------------------------------------
(* What a step does to a membership there is.                              *)

\* It keeps the instant it began, is never cut short and extended only by the
\* administrator, and once it has ended it is not active again.
Onward(q) ==
  /\ membership'[q].status # "NONE"
  /\ membership'[q].activated = membership[q].activated
  /\ membership[q].expires <= membership'[q].expires
  /\ membership[q].expires = membership'[q].expires \/ ExtendMembership
  /\ membership'[q].status = "ACTIVE" => membership[q].status = "ACTIVE"

LEMMA OnwardStep ==
  ASSUME MembershipsInv, [Next]_vars, NEW q \in Requests,
         membership[q].status # "NONE"
  PROVE  Onward(q)
<1>1. Typed /\ AtWork /\ AdminTargets /\ OneSuccess
  BY DEF MembershipsInv
<1>2. membership[q] \in MembershipRows
  BY <1>1 DEF Typed
<1>3. CASE membership'[q] = membership[q]
  BY <1>2, <1>3 DEF Onward, MembershipRows
<1>4. ASSUME NEW h \in Handlers, CommitSuccess(h) PROVE Onward(q)
  <2>1. q # handler[h].purchase
    BY <1>1, <1>4 DEF CommitSuccess, OneSuccess
  <2>2. \/ membership'[q] = membership[q]
        \/ membership'[q] = [membership[q] EXCEPT !.status = "SUPERSEDED"]
    BY <1>1, <1>4, <2>1, CommitWrites DEF Activated
  <2> QED  BY <1>2, <2>2 DEF Onward, MembershipRows
<1>5. CASE CancelMembership
  <2>1. \/ membership'[q] = membership[q]
        \/ membership'[q] = [membership[q] EXCEPT !.status = "CANCELLED"]
    BY <1>1, <1>5, AdminWrites
  <2> QED  BY <1>2, <2>1 DEF Onward, MembershipRows
<1>6. CASE ExtendMembership
  <2>1. admin.op = "extend"
    BY <1>6 DEF ExtendMembership
  <2>2. \/ membership'[q] = membership[q]
        \/ /\ membership'[q] = [membership[q] EXCEPT !.expires = admin.until]
           /\ membership[q].expires <= admin.until
    BY <1>1, <1>6, <2>1, AdminWrites DEF AdminTargets
  <2> QED  BY <1>2, <1>6, <2>2 DEF Onward, MembershipRows
<1>7. CASE ExpireStale
  <2>1. \/ membership'[q] = membership[q]
        \/ membership'[q] = [membership[q] EXCEPT !.status = "EXPIRED"]
    BY <1>1, <1>7 DEF ExpireStale, Typed
  <2> QED  BY <1>2, <2>1 DEF Onward, MembershipRows
<1> QED  BY <1>3, <1>4, <1>5, <1>6, <1>7, Writers

\* A membership begins with the success of a payment, and lasts.
LEMMA BeginningStep ==
  ASSUME MembershipsInv, [Next]_vars, NEW q \in Requests,
         membership[q].status = "NONE", membership'[q].status # "NONE"
  PROVE  /\ paidOn[q] # 0
         /\ membership'[q].status = "ACTIVE"
         /\ membership'[q].activated = paidOn[q]
         /\ membership'[q].activated < membership'[q].expires
         /\ \E h \in Handlers : CommitSuccess(h) /\ handler[h].purchase = q
<1>1. Typed /\ AtWork /\ Reported /\ AdminTargets /\ Watched /\ Reckoned
  BY DEF MembershipsInv
<1>2. ~CancelMembership /\ ~ExtendMembership
  <2>1. CancelMembership \/ ExtendMembership => admin.op # "none"
    BY DEF CancelMembership, ExtendMembership
  <2>2. admin.op # "none" => admin.purchase # q
    BY <1>1 DEF AdminTargets
  <2> QED  BY <1>1, <2>1, <2>2, AdminWrites
<1>3. ~ExpireStale
  BY DEF ExpireStale, Lapsed
<1>4. PICK h \in Handlers : CommitSuccess(h)
  BY <1>2, <1>3, Writers
<1>a. handler[h].pc = "showing" /\ InTransaction(h)
  BY <1>4 DEF CommitSuccess, InTransaction
<1>5. q = handler[h].purchase
  <2>1. q # handler[h].active
    BY <1>1, <1>a, MembershipsAssumption DEF Watched
  <2> QED  BY <1>1, <1>4, <2>1, CommitWrites DEF Activated
<1>6. /\ membership'[q].status = "ACTIVE" /\ membership'[q].activated = paidOn[q]
      /\ membership'[q].expires = handler[h].until
  BY <1>1, <1>4, <1>5, CommitWrites DEF Activated
<1>7. handler[h].until > paidOn[q]
  <2>1. handler[h].until \in ExpiryFor(q, paidOn[q], handler[h].active, handler[h].seen)
    BY <1>1, <1>5, <1>a DEF Reckoned
  <2>2. paidOn[q] \in Nat /\ handler[h].active \in Purchases
        /\ handler[h].seen \in MembershipRows
    BY <1>1 DEF Typed, Notifications
  <2> QED  BY <2>1, <2>2, ExpiryIsLater
<1>8. paidOn[q] # 0
  BY <1>1, <1>5, <1>a DEF Reported
<1>9. paidOn[q] \in Nat /\ handler[h].until \in Nat
  BY <1>1 DEF Typed, Notifications
<1> QED  BY <1>4, <1>5, <1>6, <1>7, <1>8, <1>9

-----------------------------------------------------------------------------
(* The successes under way.                                                *)

LEMMA PaidOnce ==
  ASSUME MembershipsInv, [Next]_vars, NEW p \in Requests, paidOn[p] # 0
  PROVE  paidOn'[p] = paidOn[p]
BY Writers DEF MembershipsInv, Typed, Pay

\* A transaction under way has just begun, or has kept what it found when it did.
Kept(h) ==
  /\ InTransaction(h)
  /\ handler'[h].purchase = handler[h].purchase
  /\ handler'[h].active = handler[h].active
  /\ handler'[h].seen = handler[h].seen
  /\ handler'[h].until = handler[h].until
  /\ handler'[h] = handler[h] \/ Activate(h)

LEMMA SuccessUnderWay ==
  ASSUME MembershipsInv, [Next]_vars, NEW h \in Handlers,
         handler'[h].pc \in {"captured", "showing"}
  PROVE  Capture(h) \/ Kept(h)
<1>1. Typed
  BY DEF MembershipsInv
<1>2. CASE handler'[h] = handler[h]
  BY <1>2 DEF Kept, InTransaction
<1>3. ASSUME handler'[h] # handler[h], NEW g \in Handlers, Notification(g)
      PROVE  Capture(h) \/ Kept(h)
  <2>1. ASSUME NEW p \in Requests, NEW pc \in {"failing", "paid"}, Receive(g, pc, p)
        PROVE  FALSE
    BY <1>1, <1>3, <2>1 DEF Typed, Receive, Idle
  <2>2. CASE Capture(g)
    BY <1>1, <1>3, <2>2 DEF Typed, Capture
  <2>3. CASE Activate(g)
    <3>1. /\ handler[g].pc = "captured"
          /\ \E p \in ToShow(Activated(g)) :
               handler' = [handler EXCEPT ![g].pc = "showing", ![g].shown = p]
      BY <2>3 DEF Activate
    <3>2. h = g
      BY <1>1, <1>3, <3>1 DEF Typed
    <3>3. /\ handler'[h].purchase = handler[h].purchase
          /\ handler'[h].active = handler[h].active
          /\ handler'[h].seen = handler[h].seen
          /\ handler'[h].until = handler[h].until
      BY <1>1, <3>1, <3>2 DEF Typed, Notifications
    <3> QED  BY <2>3, <3>1, <3>2, <3>3 DEF Kept, InTransaction
  <2>4. CASE RecordFailure(g) \/ CommitSuccess(g) \/ Abort(g)
    <3>1. handler' = [handler EXCEPT ![g] = Idle]
      BY <2>4 DEF RecordFailure, CommitSuccess, Abort
    <3> QED  BY <1>1, <1>3, <3>1 DEF Typed, Idle
  <2> QED  BY <1>3, <2>1, <2>2, <2>3, <2>4
           DEF Notification, ReceiveFailure, ReceiveSuccess
<1> QED  BY <1>2, <1>3, Writers

\* What Capture reads.
LEMMA CaptureSees ==
  ASSUME Typed, AtWork, NEW h \in Handlers, Capture(h)
  PROVE  /\ UNCHANGED <<membership, paidOn, now>>
         /\ handler[h].pc = "paid"
         /\ ~Locked(handler[h].purchase)
         /\ \A g \in Handlers : g # h => handler'[g] = handler[g]
         /\ handler'[h].pc = "captured"
         /\ handler'[h].purchase = handler[h].purchase
         /\ handler'[h].active \in Latest(Replaceable(handler[h].purchase))
         /\ handler'[h].active # None
              => handler'[h].seen = membership[handler'[h].active]
         /\ handler'[h].until \in ExpiryFor(handler[h].purchase,
                                            paidOn[handler[h].purchase],
                                            handler'[h].active, handler'[h].seen)
         /\ several' = several
                 \cup { q \in {handler[h].purchase} : Crowded(q) }
<1> DEFINE p == handler[h].purchase
<1>1. PICK m \in Latest(Replaceable(p)) :
        \E until \in ExpiryFor(p, paidOn[p], m,
                               IF m = None THEN NoMembership ELSE membership[m]) :
          handler' = [handler EXCEPT ![h] = Captured(h, m, until)]
  BY DEF Capture
<1> DEFINE row == IF m = None THEN NoMembership ELSE membership[m]
<1>2. PICK until \in ExpiryFor(p, paidOn[p], m, row) :
        handler' = [handler EXCEPT ![h] = Captured(h, m, until)]
  BY <1>1
<1>3. /\ handler'[h] = Captured(h, m, until)
      /\ \A g \in Handlers : g # h => handler'[g] = handler[g]
  BY <1>2 DEF Typed
<1>4. /\ handler'[h].pc = "captured" /\ handler'[h].purchase = p
      /\ handler'[h].active = m /\ handler'[h].seen = row /\ handler'[h].until = until
  BY <1>3 DEF Captured
<1>5. /\ UNCHANGED <<membership, paidOn, now>>
      /\ handler[h].pc = "paid" /\ ~Locked(p)
      /\ several' = several \cup { q \in {p} : Crowded(q) }
  BY DEF Capture
<1>6. m # None => row = membership[m]
  OBVIOUS
<1> HIDE DEF row
<1> QED  BY <1>1, <1>2, <1>3, <1>4, <1>5, <1>6

LEMMA LatestIsOneOf ==
  ASSUME NEW S \in SUBSET Requests, NEW m \in Latest(S)
  PROVE  /\ m = None => S = {}
         /\ m # None => /\ m \in S
                        /\ \A q \in S : membership[q].activated <= membership[m].activated
BY MembershipsAssumption DEF Latest

\* The row lock keeps the successes of a purchase apart, and the unique index lets
\* only the first of them activate a membership.
LEMMA OneSuccessStep == MembershipsInv /\ [Next]_vars => OneSuccess'
<1> SUFFICES ASSUME MembershipsInv, [Next]_vars, NEW h \in Handlers,
                    handler'[h].pc \in {"captured", "showing"}
             PROVE  /\ \A g \in Handlers :
                         /\ handler'[g].pc \in {"captured", "showing"}
                         /\ handler'[g].purchase = handler'[h].purchase
                         => g = h
                    /\ handler'[h].pc = "showing"
                         => membership'[handler'[h].purchase].status = "NONE"
  BY DEF OneSuccess, InTransaction
<1>1. Typed /\ AtWork /\ OneSuccess
  BY DEF MembershipsInv
<1>2. ASSUME NEW a \in Handlers, NEW b \in Handlers, a # b, Capture(a),
             handler'[b].pc \in {"captured", "showing"},
             handler'[b].purchase = handler'[a].purchase
      PROVE  FALSE
  <2>1. handler'[b] = handler[b] /\ handler'[a].purchase = handler[a].purchase
        /\ ~Locked(handler[a].purchase)
    BY <1>1, <1>2, CaptureSees
  <2> QED  BY <1>2, <2>1 DEF Locked, InTransaction
<1>3. ASSUME NEW g \in Handlers, handler'[g].pc \in {"captured", "showing"},
             handler'[g].purchase = handler'[h].purchase
      PROVE  g = h
  <2>1. CASE Capture(g) \/ Capture(h)
    BY <1>2, <1>3, <2>1
  <2>2. CASE Kept(g) /\ Kept(h)
    BY <1>1, <1>3, <2>2 DEF Kept, OneSuccess
  <2> QED  BY <1>3, <2>1, <2>2, SuccessUnderWay
<1>4. ASSUME handler'[h].pc = "showing"
      PROVE  membership'[handler'[h].purchase].status = "NONE"
  <2> DEFINE p == handler[h].purchase
  <2>1. Kept(h)
    BY <1>1, <1>4, CaptureSees, SuccessUnderWay
  <2>2. handler'[h].purchase = p /\ p \in Requests /\ InTransaction(h)
    BY <1>1, <2>1 DEF Kept, AtWork, InTransaction
  <2>3. CASE Activate(h)
    BY <2>2, <2>3 DEF Activate, NotYetActivated
  <2>4. CASE handler'[h] = handler[h]
    <3>1. membership[p].status = "NONE"
      BY <1>1, <1>4, <2>4 DEF OneSuccess
    <3>2. ASSUME membership'[p].status # "NONE" PROVE FALSE
      <4>1. PICK g \in Handlers : CommitSuccess(g) /\ handler[g].purchase = p
        BY <2>2, <3>1, <3>2, BeginningStep
      <4>2. InTransaction(g)
        BY <4>1 DEF CommitSuccess, InTransaction
      <4>3. g = h
        BY <1>1, <2>2, <4>1, <4>2 DEF OneSuccess
      <4>4. handler'[h] = Idle
        BY <1>1, <4>1, <4>3 DEF CommitSuccess, Typed
      <4> QED  BY <1>4, <4>4 DEF Idle
    <3> QED  BY <2>2, <3>2
  <2> QED  BY <2>1, <2>3, <2>4 DEF Kept
<1> QED  BY <1>3, <1>4

LEMMA ReckonedStep == MembershipsInv /\ [Next]_vars => Reckoned'
<1> SUFFICES ASSUME MembershipsInv, [Next]_vars, NEW h \in Handlers,
                    handler'[h].pc \in {"captured", "showing"}
             PROVE  handler'[h].until
                      \in ExpiryFor(handler'[h].purchase, paidOn'[handler'[h].purchase],
                                    handler'[h].active, handler'[h].seen)
  BY DEF Reckoned, InTransaction
<1>1. Typed /\ AtWork /\ Reported /\ Reckoned
  BY DEF MembershipsInv
<1>2. CASE Capture(h)
  BY <1>1, <1>2, CaptureSees
<1>3. CASE Kept(h)
  <2>1. handler[h].purchase \in Requests /\ paidOn[handler[h].purchase] # 0
    BY <1>1, <1>3 DEF Kept, AtWork, Reported, InTransaction
  <2>2. paidOn'[handler[h].purchase] = paidOn[handler[h].purchase]
    BY <2>1, PaidOnce
  <2>3. handler[h].until
          \in ExpiryFor(handler[h].purchase, paidOn[handler[h].purchase],
                        handler[h].active, handler[h].seen)
    BY <1>1, <1>3 DEF Kept, Reckoned
  <2> QED  BY <1>3, <2>2, <2>3 DEF Kept
<1> QED  BY <1>2, <1>3, SuccessUnderWay

LEMMA WatchedStep == MembershipsInv /\ [Next]_vars => Watched'
<1> SUFFICES ASSUME MembershipsInv, [Next]_vars, NEW h \in Handlers,
                    handler'[h].pc \in {"captured", "showing"}, handler'[h].active # None
             PROVE  /\ membership'[handler'[h].active].status # "NONE"
                    /\ membership'[handler'[h].active].activated
                         = handler'[h].seen.activated
                    /\ handler'[h].seen.expires
                         <= membership'[handler'[h].active].expires
                    /\ handler'[h].seen.status = "ACTIVE"
                    /\ handler'[h].seen.activated < handler'[h].seen.expires
                    /\ paidOn'[handler'[h].purchase] < handler'[h].seen.expires
  BY DEF Watched, InTransaction
<1>1. Typed /\ AtWork /\ Reported /\ Lasting /\ Watched
  BY DEF MembershipsInv
<1>2. CASE Kept(h)
  <2> DEFINE m == handler[h].active
             p == handler[h].purchase
  <2>1. /\ handler'[h].active = m /\ handler'[h].purchase = p
        /\ handler'[h].seen = handler[h].seen /\ InTransaction(h) /\ m # None
    BY <1>2 DEF Kept
  <2>2. m \in Requests /\ p \in Requests /\ paidOn[p] # 0
    BY <1>1, <2>1 DEF Typed, Notifications, AtWork, Purchases, Reported, InTransaction
  <2>3. /\ membership[m].status # "NONE"
        /\ membership[m].activated = handler[h].seen.activated
        /\ handler[h].seen.expires <= membership[m].expires
        /\ handler[h].seen.status = "ACTIVE"
        /\ handler[h].seen.activated < handler[h].seen.expires
        /\ paidOn[p] < handler[h].seen.expires
    BY <1>1, <2>1 DEF Watched
  <2>4. Onward(m)
    BY <2>2, <2>3, OnwardStep
  <2>5. paidOn'[p] = paidOn[p]
    BY <2>2, PaidOnce
  <2>6. /\ membership[m].expires \in Nat /\ membership'[m].expires \in Nat
        /\ handler[h].seen.expires \in Nat
    BY <1>1, <2>2, TypeStep DEF Typed, Notifications, MembershipRows
  <2> HIDE DEF m, p
  <2>7. handler[h].seen.expires <= membership'[m].expires
    BY <2>3, <2>4, <2>6 DEF Onward
  <2> QED  BY <2>1, <2>3, <2>4, <2>5, <2>7 DEF Onward
<1>3. CASE Capture(h)
  <2> DEFINE m == handler'[h].active
  <2>2. handler[h].purchase \in Requests
    BY <1>1, <1>3 DEF AtWork, Capture
  <2>3. m \in Replaceable(handler[h].purchase)
    BY <1>1, <1>3, CaptureSees, LatestIsOneOf DEF Replaceable, ActiveAfter
  <2>4. /\ m \in Requests /\ membership[m].status = "ACTIVE"
        /\ membership[m].expires > paidOn[handler[h].purchase]
    BY <2>3 DEF Replaceable, ActiveAfter
  <2>5. membership[m].activated < membership[m].expires
    BY <1>1, <2>4 DEF Lasting
  <2>6. membership[m].expires \in Nat
    BY <1>1, <2>4 DEF Typed, MembershipRows
  <2> QED  BY <1>1, <1>3, <2>2, <2>4, <2>5, <2>6, CaptureSees DEF Typed
<1> QED  BY <1>2, <1>3, SuccessUnderWay

-----------------------------------------------------------------------------
(* The invariant.                                                          *)

LEMMA LastingStep == MembershipsInv /\ [Next]_vars => Lasting'
<1> SUFFICES ASSUME MembershipsInv, [Next]_vars, NEW p \in Requests,
                    membership'[p].status # "NONE"
             PROVE  membership'[p].activated < membership'[p].expires
  BY DEF Lasting
<1>1. CASE membership[p].status = "NONE"
  BY <1>1, BeginningStep
<1>2. CASE membership[p].status # "NONE"
  <2>1. Onward(p)
    BY <1>2, OnwardStep
  <2>2. membership[p] \in MembershipRows /\ membership'[p] \in MembershipRows
    BY TypeStep DEF MembershipsInv, Typed
  <2>3. membership[p].activated < membership[p].expires
    BY <1>2 DEF MembershipsInv, Lasting
  <2> QED  BY <2>1, <2>2, <2>3 DEF Onward, MembershipRows
<1> QED  BY <1>1, <1>2

LEMMA AdminStep == MembershipsInv /\ [Next]_vars => AdminTargets'
<1> SUFFICES ASSUME MembershipsInv, [Next]_vars, admin'.op # "none"
             PROVE  /\ membership'[admin'.purchase].status # "NONE"
                    /\ admin'.op = "extend"
                         => membership'[admin'.purchase].expires <= admin'.until
  BY DEF AdminTargets
<1>1. Typed /\ AtWork /\ AdminTargets /\ CapturedIsActivated
  BY DEF MembershipsInv
<1>2. ~CancelMembership /\ ~ExtendMembership /\ ~Dismiss
  BY DEF CancelMembership, ExtendMembership, Dismiss, NoTask
<1>3. CASE UNCHANGED admin \/ Change
  <2>1. /\ admin'.purchase = admin.purchase /\ admin'.op = admin.op
        /\ admin'.until = admin.until
    <3>1. CASE Change
      BY <1>1, <3>1 DEF Change, Typed, AdminTasks
    <3> QED  BY <1>3, <3>1
  <2>2. admin.purchase \in Requests /\ membership[admin.purchase].status # "NONE"
    BY <1>1, <2>1 DEF AtWork, AdminTargets
  <2>3. Onward(admin.purchase)
    BY <2>2, OnwardStep
  <2>4. membership'[admin.purchase].expires = membership[admin.purchase].expires
    BY <1>2, <2>3 DEF Onward
  <2> QED  BY <1>1, <2>1, <2>3, <2>4 DEF AdminTargets, Onward
<1>4. ASSUME NEW p \in Requests, AskRefund(p) \/ AskCancel(p) \/ AskExtend(p)
      PROVE  /\ membership'[admin'.purchase].status # "NONE"
             /\ admin'.op = "extend"
                  => membership'[admin'.purchase].expires <= admin'.until
  <2>1. membership[p].status # "NONE" /\ admin'.purchase = p /\ UNCHANGED membership
    BY <1>1, <1>4 DEF AskRefund, AskCancel, AskExtend, Ask, NoTask, CapturedIsActivated
  <2>2. admin'.op = "extend" => admin'.until = membership[p].expires + 1 * Day
    BY <1>4 DEF AskRefund, AskCancel, AskExtend, Ask, NoTask, addDays
  <2>3. membership[p].expires \in Nat /\ Day \in Nat
    BY <1>1, MembershipsAssumption DEF Typed, MembershipRows
  <2>4. membership[p].expires <= membership[p].expires + 1 * Day
    BY <2>3
  <2> QED  BY <2>1, <2>2, <2>4
<1> QED  BY <1>2, <1>3, <1>4, Writers DEF Administration

\* A purchase is closed as captured only with its membership, and refunded only
\* by an administrator who found it captured.
LEMMA CapturedStep == MembershipsInv /\ [Next]_vars => CapturedIsActivated'
<1> SUFFICES ASSUME MembershipsInv, [Next]_vars, NEW p \in Requests
             PROVE  /\ purchase'[p].status \in {"CAPTURED", "REFUNDED"}
                         => membership'[p].status # "NONE"
                    /\ membership'[p].status # "NONE" => paidOn'[p] # 0
  BY DEF CapturedIsActivated
<1>1. Typed /\ AtWork /\ AdminTargets /\ CapturedIsActivated
  BY DEF MembershipsInv
<1>2. ASSUME purchase'[p].status \in {"CAPTURED", "REFUNDED"}
      PROVE  membership'[p].status # "NONE"
  <2>1. CASE purchase[p].status \in {"CAPTURED", "REFUNDED"}
    BY <1>1, <2>1, OnwardStep DEF CapturedIsActivated, Onward
  <2>2. ASSUME NEW h \in Handlers, CommitSuccess(h),
               purchase[p].status \notin {"CAPTURED", "REFUNDED"}
        PROVE  membership'[p].status # "NONE"
    <3>1. p = handler[h].purchase
      BY <1>1, <1>2, <2>2 DEF CommitSuccess, Typed
    <3> QED  BY <1>1, <2>2, <3>1, CommitWrites DEF Activated
  <2>3. CASE CancelMembership /\ purchase[p].status \notin {"CAPTURED", "REFUNDED"}
    <3>1. p = admin.purchase /\ admin.op # "none"
      BY <1>1, <1>2, <2>3 DEF CancelMembership, Typed
    <3> QED  BY <1>1, <3>1, OnwardStep DEF AdminTargets, Onward
  <2>4. \/ purchase[p].status \in {"CAPTURED", "REFUNDED"}
        \/ \E h \in Handlers : CommitSuccess(h)
        \/ CancelMembership
    BY <1>1, <1>2, PurchaseWriters
  <2> QED  BY <2>1, <2>2, <2>3, <2>4
<1>3. ASSUME membership'[p].status # "NONE"
      PROVE  paidOn'[p] # 0
  <2>1. paidOn[p] # 0
    BY <1>1, <1>3, BeginningStep DEF CapturedIsActivated
  <2> QED  BY <2>1, PaidOnce
<1> QED  BY <1>2, <1>3

\* Rows, requests, reports and the administrator's task keep their types and name
\* purchases that are there; a success is reported for what was paid, and is alone
\* with its purchase in its transaction; and the membership it saw has since only
\* been extended or ended.
THEOREM MembershipsInvHolds == Spec => []MembershipsInv
<1>1. Init => MembershipsInv
  <2> SUFFICES ASSUME Init
               PROVE  MembershipsInv
    OBVIOUS
  <2>1. \A h \in Handlers : handler[h].pc = "idle"
    BY DEF Init, Idle
  <2>2. Typed
    BY MembershipsAssumption
       DEF Init, Typed, Purchases, PurchaseStatus, MembershipRows, NoPurchase,
           NoMembership, Idle, NoTask, NoSync, Notifications, AdminTasks
  <2>3. AtWork /\ Reported /\ AdminTargets /\ Lasting /\ CapturedIsActivated
    BY <2>1 DEF Init, AtWork, Reported, InTransaction, AdminTargets, Lasting,
       CapturedIsActivated, NoPurchase, NoMembership, NoTask
  <2>4. Watched /\ OneSuccess /\ Reckoned
    BY <2>1 DEF Watched, OneSuccess, Reckoned, InTransaction
  <2> QED  BY <2>2, <2>3, <2>4 DEF MembershipsInv
<1>2. MembershipsInv /\ [Next]_vars => MembershipsInv'
  BY TypeStep, ReportedStep, AdminStep, LastingStep, WatchedStep, OneSuccessStep,
     ReckonedStep, CapturedStep
     DEF MembershipsInv
<1> QED  BY <1>1, <1>2, PTL DEF Spec

-----------------------------------------------------------------------------
(* The properties of the run.                                              *)

\* What is captured or refunded has its membership, and a membership was paid
\* for: CapturedIsActivated, however many reports cross.
THEOREM CapturedHolds == Spec => []CapturedIsActivated
<1>1. MembershipsInv => CapturedIsActivated
  BY DEF MembershipsInv
<1> QED  BY <1>1, MembershipsInvHolds, PTL

\* No transaction and no job makes an ended membership active again:
\* EndedStaysEnded.
THEOREM EndedStay == Spec => EndedStaysEnded
<1> DEFINE Ended == \A p \in Requests :
                      membership[p].status \notin {"NONE", "ACTIVE"}
                        => membership'[p].status # "ACTIVE"
<1>1. MembershipsInv /\ [Next]_vars => [Ended]_vars
  BY OnwardStep DEF Onward
<1> QED  BY <1>1, MembershipsInvHolds, PTL DEF Spec, EndedStaysEnded

\* Replacing a membership loses no more than a day of the new plan, for any
\* prices, durations and instants, whichever way floating-point rates round a whole
\* quotient: NoValueLost.
THEOREM ValueIsKept == Spec => NoValueLost
<1> DEFINE Conserved ==
      \A p, m \in Requests :
        /\ membership[p].status = "NONE" /\ membership'[p].status = "ACTIVE"
        /\ membership[m].status = "ACTIVE" /\ membership'[m].status = "SUPERSEDED"
        /\ outdated' = {}
        => LET rest == membership[m].expires - paidOn[p]
               length == membership'[p].expires - paidOn[p]
               old == planOf(m)
               new == planOf(p)
           IN (length + Day) * Price[new] * Duration[old]
                >= Duration[new] * Day * Price[new] * Duration[old]
                    + rest * Price[old] * Duration[new]
<1>1. MembershipsInv /\ [Next]_vars => [Conserved]_vars
  <2> SUFFICES ASSUME MembershipsInv, [Next]_vars,
                      NEW p \in Requests, NEW m \in Requests,
                      membership[p].status = "NONE", membership'[p].status = "ACTIVE",
                      membership[m].status = "ACTIVE",
                      membership'[m].status = "SUPERSEDED",
                      outdated' = {}
               PROVE  (membership'[p].expires - paidOn[p] + Day)
                          * Price[planOf(p)] * Duration[planOf(m)]
                        >= Duration[planOf(p)] * Day * Price[planOf(p)] * Duration[planOf(m)]
                            + (membership[m].expires - paidOn[p])
                                * Price[planOf(m)] * Duration[planOf(p)]
    OBVIOUS
  <2>1. Typed /\ AtWork /\ Reckoned
    BY DEF MembershipsInv
  <2>2. PICK h \in Handlers : CommitSuccess(h) /\ handler[h].purchase = p
    BY BeginningStep
  <2>3. m = handler[h].active
    BY <2>1, <2>2, CommitWrites DEF Activated
  <2>4. handler[h].seen = membership[m] /\ m \in Latest(Replaceable(p))
    BY <2>2, <2>3, MembershipsAssumption DEF CommitSuccess, Unseen
  <2>5. /\ membership[m].expires \in Nat /\ paidOn[p] \in Nat
        /\ membership[m].expires > paidOn[p]
    <3>1. m \in ActiveAfter(paidOn[p])
      BY <2>4, LatestIsOneOf, MembershipsAssumption DEF Replaceable, ActiveAfter
    <3> QED  BY <2>1, <3>1 DEF ActiveAfter, Typed, MembershipRows
  <2>6. membership'[p].expires \in ExpiryFor(p, paidOn[p], m, membership[m])
    <3>1. handler[h].until \in ExpiryFor(p, paidOn[p], m, membership[m])
      BY <2>1, <2>2, <2>3, <2>4 DEF Reckoned, InTransaction, CommitSuccess
    <3>2. membership'[p].expires = handler[h].until
      BY <2>1, <2>2, CommitWrites DEF Activated
    <3> QED  BY <3>1, <3>2
  <2>7. CASE planOf(m) # planOf(p)
    <3>1. membership'[p].expires
            \in calculateUpgradeExpiry(paidOn[p], planOf(m), membership[m].expires, planOf(p))
      BY <2>6, <2>7, MembershipsAssumption DEF ExpiryFor
    <3> QED  BY <2>5, <3>1, UpgradeIsLater
  <2>8. CASE planOf(m) = planOf(p)
    <3> DEFINE price == Price[planOf(p)]
               days == Duration[planOf(p)]
               rest == membership[m].expires - paidOn[p]
    <3>1. membership'[p].expires = membership[m].expires + days * Day
      BY <2>5, <2>6, <2>8, MembershipsAssumption
         DEF ExpiryFor, calculateRenewalExpiry, addDays
    <3>2. price \in Nat \ {0} /\ days \in Nat \ {0} /\ Day \in Nat \ {0} /\ rest \in Nat
      BY <2>5, PlanFacts, MembershipsAssumption
    <3>3. days * Day \in Nat
      BY <3>2
    <3>4. membership'[p].expires - paidOn[p] = rest + days * Day
      BY <2>5, <3>1, <3>3
    <3> HIDE DEF price, days, rest
    <3>5. (rest + days * Day + Day) * price * days
            = days * Day * price * days + rest * price * days + Day * price * days
      BY <3>2
    <3>6. Day * price * days \in Nat \ {0}
      BY <3>2, PositiveProduct
    <3>7. days * Day * price * days \in Nat /\ rest * price * days \in Nat
      BY <3>2
    <3>8. (rest + days * Day + Day) * price * days
            >= days * Day * price * days + rest * price * days
      BY <3>5, <3>6, <3>7
    <3> QED  BY <2>8, <3>4, <3>8 DEF price, days, rest
  <2> QED  BY <2>7, <2>8
<1> QED  BY <1>1, MembershipsInvHolds, PTL DEF Spec, NoValueLost

-----------------------------------------------------------------------------
(* The profile.                                                            *)

\* What the profile may show: a membership that has not been cancelled or superseded,
\* or that was while somebody held it for the one to show.
Presentable(q) ==
  q = None \/ membership[q].status \in {"ACTIVE", "EXPIRED"} \/ q \in overtaken

PresentableAfter(q) ==
  q = None \/ membership'[q].status \in {"ACTIVE", "EXPIRED"} \/ q \in overtaken'

\* The profile is such, and so is what each writer under way is about to write, but
\* for the membership its own transaction brings.
ProfileInv ==
  /\ Presentable(profile)
  /\ \A h \in Handlers :
       handler[h].pc = "showing" /\ handler[h].shown # handler[h].purchase
         => Presentable(handler[h].shown)
  /\ ~admin.reading => Presentable(admin.shown)
  /\ ~job.reading => Presentable(job.shown)

\* What somebody is about to show stays so, and what nobody is about to show does if
\* no membership is cancelled or superseded.
LEMMA PresentableStays ==
  ASSUME MembershipsInv, [Next]_vars, NEW q \in Purchases, Presentable(q),
         \/ q \in BeingShown \cup {None}
         \/ ~CancelMembership /\ ~\E h \in Handlers : CommitSuccess(h)
  PROVE  PresentableAfter(q)
<1>1. Typed /\ AtWork /\ OneSuccess
  BY DEF MembershipsInv
<1>2. CASE q = None \/ q \in overtaken
  BY <1>2, Writers DEF Presentable, PresentableAfter
<1>3. CASE q \in Requests /\ membership[q].status \in {"ACTIVE", "EXPIRED"}
  <2>1. CASE membership'[q] = membership[q]
    BY <1>3, <2>1 DEF Presentable, PresentableAfter
  <2>2. ASSUME NEW h \in Handlers, CommitSuccess(h), membership'[q] # membership[q]
        PROVE  PresentableAfter(q)
    <3>1. q = handler[h].purchase \/ q = handler[h].active
      BY <1>1, <1>3, <2>2, CommitWrites DEF Activated
    <3>2. CASE q = handler[h].purchase
      BY <1>1, <1>3, <2>2, <3>2 DEF OneSuccess, CommitSuccess
    <3>3. CASE q = handler[h].active
      BY <1>3, <2>2, <3>3, MembershipsAssumption DEF CommitSuccess, Presentable, PresentableAfter
    <3> QED  BY <3>1, <3>2, <3>3
  <2>3. CASE CancelMembership /\ membership'[q] # membership[q]
    <3>1. q = admin.purchase
      BY <1>1, <1>3, <2>3, AdminWrites
    <3> QED  BY <1>3, <2>3, <3>1, MembershipsAssumption DEF CancelMembership, Presentable, PresentableAfter
  <2>4. CASE ExtendMembership
    <3>1. membership'[q].status = membership[q].status
      BY <1>1, <1>3, <2>4, AdminWrites DEF Typed, MembershipRows
    <3> QED  BY <1>3, <3>1 DEF Presentable, PresentableAfter
  <2>5. CASE ExpireStale
    <3>1. membership'[q].status \in {membership[q].status, "EXPIRED"}
      BY <1>1, <1>3, <2>5 DEF ExpireStale, Typed, MembershipRows
    <3> QED  BY <1>3, <3>1 DEF Presentable, PresentableAfter
  <2> QED  BY <2>1, <2>2, <2>3, <2>4, <2>5, Writers
<1> QED  BY <1>2, <1>3 DEF Presentable, PresentableAfter, Purchases

LEMMA ProfileStep == MembershipsInv /\ ProfileInv /\ [Next]_vars => ProfileInv'
<1> SUFFICES ASSUME MembershipsInv, ProfileInv, [Next]_vars
             PROVE  ProfileInv'
  OBVIOUS
<1>1. Typed /\ AtWork /\ OneSuccess
  BY DEF MembershipsInv
<1>2. PresentableAfter(profile')
  <2>1. ASSUME NEW h \in Handlers, CommitSuccess(h)
        PROVE  PresentableAfter(profile')
    <3> DEFINE q == handler[h].shown
    <3>1. profile' = q /\ handler[h].pc = "showing" /\ q \in Purchases
      BY <1>1, <2>1 DEF CommitSuccess, Typed, Notifications
    <3>2. CASE q = handler[h].purchase
      BY <1>1, <2>1, <3>1, <3>2, CommitWrites DEF Activated, Presentable, PresentableAfter
    <3>3. CASE q # handler[h].purchase
      <4>1. Presentable(q) /\ q \in BeingShown \cup {None}
        BY <3>1, <3>3 DEF ProfileInv, BeingShown, Purchases
      <4>2. PresentableAfter(q)
        BY <3>1, <4>1, PresentableStays
      <4> QED  BY <3>1, <4>2 DEF Presentable, PresentableAfter
    <3> QED  BY <3>2, <3>3
  <2>2. CASE CancelMembership \/ ExtendMembership
    <3> DEFINE q == admin.shown
    <3>1. profile' = q /\ ~admin.reading /\ q \in Purchases
      BY <1>1, <2>2 DEF CancelMembership, ExtendMembership, Typed, AdminTasks
    <3>2. Presentable(q) /\ q \in BeingShown \cup {None}
      BY <3>1 DEF ProfileInv, BeingShown, Purchases
    <3>3. PresentableAfter(q)
      BY <3>1, <3>2, PresentableStays
    <3> QED  BY <3>1, <3>3 DEF Presentable, PresentableAfter
  <2>3. CASE SyncExpired /\ profile' = job.shown
    BY <2>3 DEF SyncExpired, ProfileInv, Presentable, PresentableAfter, history
  <2>4. CASE /\ profile' = profile /\ ~CancelMembership
             /\ ~\E h \in Handlers : CommitSuccess(h)
    <3>1. Presentable(profile) /\ profile \in Purchases
      BY <1>1 DEF ProfileInv, Typed
    <3>2. PresentableAfter(profile')
      BY <2>4, <3>1, PresentableStays DEF Presentable, PresentableAfter
    <3> QED  BY <2>4, <3>2 DEF Presentable, PresentableAfter
  <2> QED  BY <2>1, <2>2, <2>3, <2>4, Writers DEF SyncExpired
<1>3. ASSUME NEW h \in Handlers, handler'[h].pc = "showing",
             handler'[h].shown # handler'[h].purchase
      PROVE  PresentableAfter(handler'[h].shown)
  <2>1. CASE handler'[h] = handler[h]
    <3> DEFINE q == handler[h].shown
    <3>1. Presentable(q) /\ q \in Purchases /\ q \in BeingShown \cup {None}
      BY <1>1, <1>3, <2>1 DEF ProfileInv, BeingShown, Purchases, Typed, Notifications
    <3>2. PresentableAfter(q)
      BY <3>1, PresentableStays
    <3> QED  BY <2>1, <3>2 DEF Presentable, PresentableAfter
  <2>2. CASE Activate(h)
    <3>1. PICK q \in ToShow(Activated(h)) :
            handler' = [handler EXCEPT ![h].pc = "showing", ![h].shown = q]
      BY <2>2 DEF Activate
    <3>2. handler'[h].shown = q /\ handler'[h].purchase = handler[h].purchase
      BY <1>1, <3>1 DEF Typed, Notifications
    <3>3. q # None => q \in Requests /\ Activated(h)[q].status = "ACTIVE"
      BY <3>1, ShowsLive
    <3>4. q # None => membership[q].status = "ACTIVE"
      <4> SUFFICES ASSUME q # None PROVE membership[q].status = "ACTIVE"
        OBVIOUS
      <4>1. q \in Requests /\ q # handler[h].purchase /\ membership[q] \in MembershipRows
        BY <1>1, <1>3, <3>2, <3>3 DEF Typed
      <4>2. \/ Activated(h)[q] = membership[q]
            \/ Activated(h)[q] = [membership[q] EXCEPT !.status = "SUPERSEDED"]
        BY <4>1 DEF Activated
      <4> QED  BY <3>3, <4>1, <4>2 DEF MembershipRows
    <3>5. UNCHANGED membership
      BY <2>2 DEF Activate
    <3> QED  BY <3>2, <3>4, <3>5 DEF Presentable, PresentableAfter
  <2> QED  BY <1>1, <1>3, <2>1, <2>2, CaptureSees, SuccessUnderWay DEF Kept
<1>4. ASSUME ~admin'.reading
      PROVE  PresentableAfter(admin'.shown)
  <2>1. CASE UNCHANGED admin
    <3> DEFINE q == admin.shown
    <3>1. Presentable(q) /\ q \in Purchases /\ q \in BeingShown \cup {None}
      BY <1>1, <1>4, <2>1 DEF ProfileInv, BeingShown, Purchases, Typed, AdminTasks
    <3>2. PresentableAfter(q)
      BY <3>1, PresentableStays
    <3> QED  BY <2>1, <3>2 DEF Presentable, PresentableAfter
  <2>2. CASE Change
    <3>1. PICK q \in ToShow(Changed) :
            admin' = [admin EXCEPT !.reading = FALSE, !.shown = q]
      BY <2>2 DEF Change
    <3>2. admin'.shown = q
      BY <1>1, <3>1 DEF Typed, AdminTasks
    <3>3. q # None => membership[q].status = "ACTIVE"
      <4> SUFFICES ASSUME q # None PROVE membership[q].status = "ACTIVE"
        OBVIOUS
      <4>1. q \in Requests /\ Changed[q].status = "ACTIVE"
            /\ membership[q] \in MembershipRows /\ admin.purchase \in Requests
        BY <1>1, <2>2, <3>1, ShowsLive DEF Typed, AtWork, Change
      <4>2. \/ Changed[q] = membership[q]
            \/ Changed[q] = [membership[q] EXCEPT !.expires = admin.until]
            \/ Changed[q] = [membership[q] EXCEPT !.status = "CANCELLED"]
        BY <1>1, <4>1, ChangedRows
      <4> QED  BY <4>1, <4>2 DEF MembershipRows
    <3>4. UNCHANGED membership
      BY <2>2 DEF Change
    <3> QED  BY <3>2, <3>3, <3>4 DEF Presentable, PresentableAfter
  <2>3. ASSUME ~UNCHANGED admin PROVE Change
    <3>1. CancelMembership \/ ExtendMembership \/ Dismiss => admin'.reading
      BY DEF CancelMembership, ExtendMembership, Dismiss, NoTask
    <3>2. ASSUME NEW op, NEW p, NEW until, Ask(op, p, until) PROVE admin'.reading
      BY <3>2 DEF Ask, NoTask
    <3> QED  BY <1>4, <2>3, <3>1, <3>2, Writers
             DEF Administration, AskRefund, AskCancel, AskExtend
  <2> QED  BY <2>1, <2>2, <2>3
<1>5. ASSUME ~job'.reading
      PROVE  PresentableAfter(job'.shown)
  <2>1. CASE UNCHANGED job
    <3> DEFINE q == job.shown
    <3>1. Presentable(q) /\ q \in Purchases /\ q \in BeingShown \cup {None}
      BY <1>1, <1>5, <2>1 DEF ProfileInv, BeingShown, Purchases, Typed
    <3>2. PresentableAfter(q)
      BY <3>1, PresentableStays
    <3> QED  BY <2>1, <3>2 DEF Presentable, PresentableAfter
  <2>2. CASE ReadExpired
    <3>1. PICK q \in ToShow(membership) : job' = [reading |-> FALSE, shown |-> q]
      BY <2>2 DEF ReadExpired
    <3>2. UNCHANGED membership
      BY <2>2 DEF ReadExpired
    <3> QED  BY <3>1, <3>2, ShowsLive DEF Presentable, PresentableAfter
  <2>3. ~SyncExpired
    BY <1>5 DEF SyncExpired, NoSync
  <2> QED  BY <2>1, <2>2, <2>3, Writers
<1> QED  BY <1>2, <1>3, <1>4, <1>5 DEF ProfileInv, Presentable, PresentableAfter

\* The profile shows no membership that was cancelled or superseded, but for one that
\* was while somebody had read it for the one to show: ProfileShowsNoEndedOne.
THEOREM ProfileProper == Spec => []ProfileShowsNoEndedOne
<1>1. Init => ProfileInv
  BY DEF Init, ProfileInv, Presentable, Idle, NoTask, NoSync
<1>2. ProfileInv => ProfileShowsNoEndedOne
  BY DEF ProfileInv, Presentable, ProfileShowsNoEndedOne
<1> QED  BY <1>1, <1>2, ProfileStep, MembershipsInvHolds, PTL DEF Spec

-----------------------------------------------------------------------------
(* One live membership.                                                    *)

\* Nothing of what the histories record has happened.
Regular == outdated = {} /\ revived = {} /\ several = {}

\* What a success under way will replace is the only one it can: a membership
\* that has become replaceable since is a later one.
Alone ==
  Regular =>
    \A h \in Handlers :
      /\ InTransaction(h) /\ handler[h].active # None
      /\ membership[handler[h].active] = handler[h].seen
      => \A x \in Replaceable(handler[h].purchase) :
           x # handler[h].active
             => handler[h].seen.activated < membership[x].activated

AtMostOne == Regular => \A x, y \in ActiveAfter(now) : x = y

OneInv == Alone /\ AtMostOne

LEMMA HistoryGrows ==
  ASSUME [Next]_vars, Regular'
  PROVE  Regular
<1> USE DEF Next, vars, purchaseVars, history, Regular
<1>1. CASE \E r \in Requests : Request(r)
  BY <1>1 DEF Request, LookForPurchase, CreatePurchase, ReplayPurchase,
     ServiceOpensSession, ServiceRejects, GiveUp
<1>2. CASE \E h \in Handlers : Notification(h)
  BY <1>2 DEF Notification, Receive, ReceiveFailure, RecordFailure, ReceiveSuccess,
     Capture, Activate, CommitSuccess, Abort
<1>3. CASE Administration
  BY <1>3 DEF Administration, Ask, AskRefund, AskCancel, AskExtend, Change,
     CancelMembership, ExtendMembership, Dismiss
<1> QED  BY <1>1, <1>2, <1>3
         DEF Tick, Pay, ExpireStale, ReadExpired, SyncExpired, ExpireAbandoned

\* A success whose view is not outdated replaces all there is to replace.
LEMMA CommitReplacesAll ==
  ASSUME MembershipsInv, Alone, Regular, Regular', NEW h \in Handlers, CommitSuccess(h)
  PROVE  Replaceable(handler[h].purchase) \subseteq {handler[h].active}
<1> DEFINE p == handler[h].purchase
           m == handler[h].active
<1>1. Typed /\ AtWork /\ p \in Requests /\ InTransaction(h)
  BY DEF MembershipsInv, AtWork, CommitSuccess, InTransaction
<1>2. /\ m \in Latest(Replaceable(p))
      /\ m # None => membership[m] = handler[h].seen
  BY DEF CommitSuccess, Unseen, Regular
<1>3. Replaceable(p) \in SUBSET Requests
  BY DEF Replaceable, ActiveAfter
<1>4. CASE m = None
  BY <1>2, <1>3, <1>4, LatestIsOneOf
<1>5. ASSUME m # None, NEW x \in Replaceable(p), x # m PROVE FALSE
  <2>1. handler[h].seen.activated < membership[x].activated
    BY <1>1, <1>2, <1>5 DEF Alone
  <2>2. membership[x].activated <= membership[m].activated
    BY <1>2, <1>3, <1>5, LatestIsOneOf
  <2>3. membership[x].activated \in Nat /\ membership[m].activated \in Nat
    BY <1>1, <1>2, <1>3, <1>5, LatestIsOneOf DEF Typed, MembershipRows
  <2> QED  BY <1>2, <1>5, <2>1, <2>2, <2>3
<1> QED  BY <1>4, <1>5

\* A membership that lapsed is extended only on record.
LEMMA ExtendedBeforeLapsing ==
  ASSUME MembershipsInv, [Next]_vars, Regular', NEW x \in Requests,
         membership[x].status # "NONE", membership'[x].status = "ACTIVE",
         NEW t \in Nat, t <= now, membership'[x].expires > t
  PROVE  x \in ActiveAfter(t)
<1>1. Typed /\ AtWork
  BY DEF MembershipsInv
<1>2. Onward(x)
  BY OnwardStep
<1>3. membership[x].status = "ACTIVE"
  BY <1>2 DEF Onward
<1>4. membership[x].expires \in Nat /\ now \in Nat
  BY <1>1 DEF Typed, MembershipRows
<1>5. ASSUME membership[x].expires <= t PROVE FALSE
  <2>1. ExtendMembership /\ membership'[x].expires # membership[x].expires
    BY <1>2, <1>4, <1>5 DEF Onward
  <2>2. x = admin.purchase
    BY <1>1, <2>1, AdminWrites
  <2>3. x \in Lapsed
    BY <1>3, <1>4, <1>5 DEF Lapsed
  <2> QED  BY <2>1, <2>2, <2>3 DEF ExtendMembership, Regular
<1> QED  BY <1>3, <1>4, <1>5 DEF ActiveAfter

LEMMA AloneStep == MembershipsInv /\ Alone /\ [Next]_vars => Alone'
<1> SUFFICES ASSUME MembershipsInv, Alone, [Next]_vars, Regular',
                    NEW h \in Handlers,
                    handler'[h].pc \in {"captured", "showing"}, handler'[h].active # None,
                    membership'[handler'[h].active] = handler'[h].seen,
                    NEW x \in Requests, x # handler'[h].active,
                    membership'[x].status = "ACTIVE",
                    membership'[x].expires > paidOn'[handler'[h].purchase]
             PROVE  handler'[h].seen.activated < membership'[x].activated
  BY DEF Alone, Replaceable, ActiveAfter, InTransaction
<1>1. Typed /\ AtWork /\ Reported /\ Lasting /\ Watched
  BY DEF MembershipsInv
<1>2. Regular
  BY HistoryGrows
<1>3. CASE Capture(h)
  <2> DEFINE p == handler[h].purchase
             m == handler'[h].active
  <2>2. p \in Requests
    BY <1>1, <1>3 DEF AtWork, Capture
  <2>3. /\ UNCHANGED <<membership, paidOn>>
        /\ handler'[h].purchase = p
        /\ m \in Latest(Replaceable(p))
        /\ several' = several \cup { q \in {p} : Crowded(q) }
    BY <1>1, <1>3, CaptureSees
  <2>4. m \in Replaceable(p)
    BY <2>3, LatestIsOneOf DEF Replaceable, ActiveAfter
  <2>5. x \in Replaceable(p)
    BY <2>3 DEF Replaceable, ActiveAfter
  <2>6. Crowded(p)
    BY <2>4, <2>5 DEF Crowded
  <2> QED  BY <2>3, <2>6 DEF Regular
<1>4. CASE Kept(h)
  <2> DEFINE p == handler[h].purchase
             m == handler[h].active
  <2>a. /\ handler'[h].active = m /\ handler'[h].purchase = p
        /\ handler'[h].seen = handler[h].seen /\ InTransaction(h) /\ m # None
    BY <1>4 DEF Kept
  <2>1. m \in Requests /\ p \in Requests /\ paidOn[p] # 0
    BY <1>1, <2>a DEF Typed, Notifications, AtWork, Purchases, Reported, InTransaction
  <2>2. paidOn'[p] = paidOn[p] /\ paidOn[p] \in Nat /\ paidOn[p] <= now
    BY <1>1, <2>1, PaidOnce DEF Reported, Typed
  <2>b. /\ membership[m].status # "NONE"
        /\ membership[m].activated = handler[h].seen.activated
        /\ handler[h].seen.expires <= membership[m].expires
        /\ handler[h].seen.status = "ACTIVE"
        /\ paidOn[p] < handler[h].seen.expires
    BY <1>1, <2>a DEF Watched
  <2>3. Onward(m)
    BY <2>1, <2>b, OnwardStep
  <2>4. membership[m] = handler[h].seen /\ membership'[m] = handler[h].seen
    <3>1. membership[m] \in MembershipRows /\ membership'[m] \in MembershipRows
          /\ handler[h].seen \in MembershipRows
      BY <1>1, <2>1, TypeStep DEF Typed, Notifications
    <3>2. membership'[m] = handler[h].seen
      BY <2>a
    <3>3. membership[m].status = "ACTIVE"
      BY <2>3, <2>b, <3>2 DEF Onward
    <3>4. membership[m].expires <= handler[h].seen.expires
      BY <2>3, <3>2 DEF Onward
    <3>5. membership[m].expires = handler[h].seen.expires
      BY <2>b, <3>1, <3>4 DEF MembershipRows
    <3> QED  BY <2>b, <3>1, <3>2, <3>3, <3>5 DEF MembershipRows
  <2>5. CASE membership[x].status # "NONE"
    <3>1. x \in Replaceable(p)
      BY <2>a, <2>2, <2>5, ExtendedBeforeLapsing DEF Replaceable
    <3>2. membership'[x].activated = membership[x].activated
      BY <2>5, OnwardStep DEF Onward
    <3> QED  BY <1>2, <2>a, <2>4, <3>1, <3>2 DEF Alone
  <2>6. CASE membership[x].status = "NONE"
    <3>1. PICK g \in Handlers : CommitSuccess(g) /\ handler[g].purchase = x
      BY <2>6, BeginningStep
    <3>2. membership'[x].activated = paidOn[x]
      BY <2>6, BeginningStep
    <3>3. Replaceable(x) \subseteq {handler[g].active}
      BY <1>2, <3>1, CommitReplacesAll
    <3>4. m # handler[g].active
      <4>1. ASSUME m = handler[g].active PROVE FALSE
        <5>1. membership'[m].status = "SUPERSEDED"
          <6>1. m # x
            BY <2>6, <2>b
          <6>2. Activated(g)[m].status = "SUPERSEDED"
            BY <1>1, <2>1, <3>1, <4>1, <6>1 DEF Activated, Typed, MembershipRows
          <6> QED  BY <1>1, <3>1, <6>2, CommitWrites
        <5> QED  BY <2>4, <2>b, <5>1
      <4> QED  BY <4>1
    <3>5. membership[m].status = "ACTIVE" /\ m \notin Replaceable(x)
      BY <2>b, <2>4, <3>3, <3>4
    <3>6. /\ membership[m].expires \in Nat /\ membership[m].activated \in Nat
          /\ paidOn[x] \in Nat
      BY <1>1, <2>1 DEF Typed, MembershipRows
    <3>7. membership[m].expires <= paidOn[x]
      BY <2>1, <3>5, <3>6 DEF Replaceable, ActiveAfter
    <3>8. membership[m].activated < membership[m].expires
      BY <1>1, <2>1, <2>b DEF Lasting
    <3>9. membership[m].activated < paidOn[x]
      <4> HIDE DEF m
      <4> QED  BY <3>6, <3>7, <3>8
    <3> QED  BY <2>a, <2>4, <3>2, <3>9
  <2> QED  BY <2>5, <2>6
<1> QED  BY <1>3, <1>4, SuccessUnderWay

LEMMA AtMostOneStep ==
  MembershipsInv /\ OneInv /\ [Next]_vars => AtMostOne'
<1> SUFFICES ASSUME MembershipsInv, OneInv, [Next]_vars, Regular',
                    NEW x \in Requests, NEW y \in Requests, x # y,
                    membership'[x].status = "ACTIVE", membership'[x].expires > now',
                    membership'[y].status = "ACTIVE", membership'[y].expires > now'
             PROVE  FALSE
  BY DEF AtMostOne, ActiveAfter
<1>1. Typed /\ AtWork /\ Reported
  BY DEF MembershipsInv
<1>2. Regular
  BY HistoryGrows
<1>3. now \in Nat /\ now' \in Nat /\ now <= now'
  BY <1>1, Writers DEF Typed, Tick
<1>4. ASSUME NEW q \in Requests, membership[q].status # "NONE",
             membership'[q].status = "ACTIVE", membership'[q].expires > now'
      PROVE  q \in ActiveAfter(now)
  <2>1. membership'[q].expires > now
    <3>1. membership'[q].expires \in Nat
      BY TypeStep DEF Typed, MembershipRows
    <3> QED  BY <1>3, <1>4, <3>1
  <2> QED  BY <1>3, <1>4, <2>1, ExtendedBeforeLapsing
<1>5. ASSUME NEW a \in Requests, NEW b \in Requests, a # b,
             membership[a].status = "NONE", membership'[a].status = "ACTIVE",
             membership'[b].status = "ACTIVE", membership'[b].expires > now'
      PROVE  FALSE
  <2>1. PICK h \in Handlers : CommitSuccess(h) /\ handler[h].purchase = a
    BY <1>5, BeginningStep
  <2>2. Replaceable(a) \subseteq {handler[h].active}
    BY <1>2, <2>1, CommitReplacesAll DEF OneInv
  <2>3. b # handler[h].active
    BY <1>1, <1>5, <2>1, CommitWrites DEF Activated, Typed, MembershipRows
  <2>4. membership'[b] = membership[b] /\ now' = now
    BY <1>1, <1>5, <2>1, <2>3, CommitWrites DEF Activated, CommitSuccess
  <2>5. paidOn[a] \in Nat /\ paidOn[a] <= now /\ membership[b].expires \in Nat
    BY <1>1 DEF Typed, Reported, MembershipRows
  <2>6. membership[b].expires > paidOn[a]
    BY <1>3, <1>5, <2>4, <2>5
  <2>7. b \in Replaceable(a)
    BY <1>5, <2>4, <2>6 DEF Replaceable, ActiveAfter
  <2> QED  BY <2>2, <2>3, <2>7
<1>6. CASE membership[x].status # "NONE" /\ membership[y].status # "NONE"
  BY <1>2, <1>4, <1>6 DEF OneInv, AtMostOne
<1> QED  BY <1>5, <1>6

\* The user has one live membership, but for the three ways OneActive names.
THEOREM OneActiveHolds == Spec => []OneActive
<1>1. Init => OneInv
  BY DEF Init, OneInv, Alone, AtMostOne, ActiveAfter, NoMembership, Idle, InTransaction
<1>2. MembershipsInv /\ OneInv /\ [Next]_vars => OneInv'
  BY AloneStep, AtMostOneStep DEF OneInv
<1>3. OneInv => OneActive
  <2> SUFFICES ASSUME OneInv, Regular
               PROVE  Cardinality(ActiveAfter(now)) <= 1
    BY DEF OneActive, Regular
  <2>1. CASE ActiveAfter(now) = {}
    BY <2>1, FS_EmptySet
  <2>2. ASSUME NEW x \in ActiveAfter(now)
        PROVE  Cardinality(ActiveAfter(now)) <= 1
    <3>1. ActiveAfter(now) = {x}
      BY <2>2 DEF OneInv, AtMostOne
    <3>2. Cardinality({x}) = 1
      BY FS_Singleton
    <3> QED  BY <3>1, <3>2
  <2> QED  BY <2>1, <2>2
<1> QED  BY <1>1, <1>2, <1>3, MembershipsInvHolds, PTL DEF Spec
=============================================================================
