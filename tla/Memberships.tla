----------------------------- MODULE Memberships -----------------------------
(***************************************************************************)
(* One user's memberships: buying one (membership-purchase.service.ts),    *)
(* the payment service's reports (membership-payment-confirmation.service  *)
(* .ts), the jobs (membership.service.ts, membership-cron.service.ts) and  *)
(* the administrator (admin-memberships.service.ts).                       *)
(*                                                                         *)
(* A purchase is known by the request that created it, and a membership by *)
(* its purchase (user_memberships.purchaseId is unique).  The transaction  *)
(* of a success is four steps: it reads the purchase; takes the row lock   *)
(* by writing it and reads the active membership; writes the memberships   *)
(* and reads which one the profile has to show; and writes that and        *)
(* commits.  Whoever changes a membership brings the profile up to date,   *)
(* with a read and a write that others can come between (READ COMMITTED).  *)
(***************************************************************************)
EXTENDS Integers, FiniteSets

CONSTANTS
  Requests,      \* the purchase requests the user may send
  Plans, Keys,
  PlanOf, KeyOf, \* what each request asks for, with which Idempotency-Key
  Price,         \* price of each plan
  Duration,      \* durationDays of each plan
  Day,           \* ticks of the clock in a day
  PurchaseTTL,   \* MEMBERSHIP_PURCHASE_TTL_MINUTES
  Handlers,      \* bound: notifications handled at a time
  MaxTime,       \* bound: the last instant of the model's clock
  MaxExpiry,     \* bound: how far the administrator extends a membership
  None           \* no request

ASSUME MembershipsAssumption ==
  /\ None \notin Requests
  /\ PlanOf \in [Requests -> Plans]
  /\ KeyOf \in [Requests -> Keys]
  /\ Price \in [Plans -> Nat \ {0}]
  /\ Duration \in [Plans -> Nat \ {0}]
  /\ Day \in Nat \ {0}
  /\ PurchaseTTL \in Nat \ {0}
  /\ MaxTime \in Nat
  /\ MaxExpiry \in Nat

VARIABLES
  now,
  request,     \* how far each request has come, and the purchase it is about
  purchase,    \* membership_purchases: status, expiresAt
  membership,  \* user_memberships: status, activatedAt, expiresAt
  profile,     \* the membership users.membershipTier shows
  atService,   \* purchases the payment service has a session for
  paidOn,      \* when the user paid there, 0 before
  handler,     \* the notifications being handled
  admin,       \* the administrator's request under way
  job,         \* the profile the expiry job is bringing up to date
  outdated,    \* history: memberships that replaced one seen before it changed
  revived,     \* history: memberships extended after they had lapsed
  several,     \* history: successes that found more than one to replace
  overtaken    \* history: memberships that ended when someone had read that the
               \* profile has to show them and had not written it yet

purchaseVars == <<request, purchase, atService>>
history == <<outdated, revived, several, overtaken>>
vars == <<now, purchaseVars, membership, profile, paidOn, handler, admin, job,
          history>>

NoPurchase == [status |-> "NONE", expires |-> 0]
NoMembership == [status |-> "NONE", activated |-> 0, expires |-> 0]

Idle == [pc |-> "idle", purchase |-> None, active |-> None, seen |-> NoMembership,
         until |-> 0, shown |-> None]
NoTask == [op |-> "none", purchase |-> None, until |-> 0, reading |-> TRUE,
           shown |-> None]
NoSync == [reading |-> TRUE, shown |-> None]

planOf(p) == PlanOf[p]

Init ==
  /\ now = 1
  /\ request = [r \in Requests |-> [pc |-> "new", purchase |-> None]]
  /\ purchase = [r \in Requests |-> NoPurchase]
  /\ membership = [r \in Requests |-> NoMembership]
  /\ profile = None
  /\ atService = {}
  /\ paidOn = [r \in Requests |-> 0]
  /\ handler = [h \in Handlers |-> Idle]
  /\ admin = NoTask
  /\ job = NoSync
  /\ outdated = {}
  /\ revived = {}
  /\ several = {}
  /\ overtaken = {}

Tick ==
  /\ now < MaxTime
  /\ now' = now + 1
  /\ UNCHANGED <<purchaseVars, membership, profile, paidOn, handler, admin, job,
                 history>>

-----------------------------------------------------------------------------
(* How long a membership lasts: membership.utils.ts.                       *)

addDays(from, days) == from + days * Day

\* Whole days, rounded up, never negative.
daysBetween(start, end) ==
  IF end <= start THEN 0 ELSE (end - start + Day - 1) \div Day

\* Mutant: the plans' rates are swapped.
SwappedBonus(days, old, new) ==
  { (days * Price[new] * Duration[old]) \div (Duration[new] * Price[old]) }

\* The days of the new plan that the remaining days of the old one pay for, at
\* price / durationDays each, rounded down.  The rates are floating-point numbers:
\* a quotient that is whole may come out just below, and a day is lost with it
\* (49 days at 1 / 49 come out as 0.99... of a day at 1 / 1).
bonusDays(days, old, new) ==
  LET value == days * Price[old] * Duration[new]
      rate == Duration[old] * Price[new]
      whole == value \div rate
  IN { whole } \cup { d \in {whole - 1} : value % rate = 0 /\ d >= 0 }

calculateUpgradeExpiry(at, old, expires, new) ==
  { addDays(at, Duration[new] + d) : d \in bonusDays(daysBetween(at, expires), old, new) }

calculateRenewalExpiry(from, plan) == addDays(from, Duration[plan])

\* computeExpiryForPurchase: what it can come to.
ExpiryFor(p, at, active, seen) ==
  LET new == planOf(p) IN
  CASE active = None -> { calculateRenewalExpiry(at, new) }
    [] active # None /\ planOf(active) = new ->
         { calculateRenewalExpiry(IF seen.expires > at THEN seen.expires ELSE at, new) }
    [] OTHER -> calculateUpgradeExpiry(at, planOf(active), seen.expires, new)

-----------------------------------------------------------------------------
(* MembershipPurchaseService.createPurchase.                               *)

Existing == { p \in Requests : purchase[p].status # "NONE" }

IsOpen(p) == purchase[p].status = "PENDING" /\ purchase[p].expires > now

Reusable(r) == { p \in Existing : planOf(p) = planOf(r) /\ IsOpen(p) }

Youngest(S) == { p \in S : \A q \in S : purchase[q].expires <= purchase[p].expires }

Proceed(r, pc, p) == request' = [request EXCEPT ![r] = [pc |-> pc, purchase |-> p]]

\* findReusablePurchase: a read of its own.
LookForPurchase(r) ==
  /\ request[r].pc = "new"
  /\ \/ /\ Reusable(r) = {}
        /\ Proceed(r, "insert", None)
     \/ \E p \in Youngest(Reusable(r)) : Proceed(r, "remote", p)
  /\ UNCHANGED <<now, purchase, membership, profile, atService, paidOn, handler,
                 admin, job, history>>

SameKey(r) == { p \in Existing : KeyOf[p] = KeyOf[r] }

\* createNewPurchase's INSERT.
CreatePurchase(r) ==
  /\ request[r].pc = "insert"
  /\ SameKey(r) = {}
  /\ purchase' = [purchase EXCEPT ![r] = [status |-> "PENDING",
                                          expires |-> now + PurchaseTTL]]
  /\ Proceed(r, "remote", r)
  /\ UNCHANGED <<now, membership, profile, atService, paidOn, handler, admin,
                 job, history>>

\* The unique index on the key turns the INSERT down: the purchase it belongs
\* to is resumed, if it is for the same plan and still open.
ReplayPurchase(r) ==
  /\ request[r].pc = "insert"
  /\ \E p \in SameKey(r) :
       IF planOf(p) = planOf(r) /\ IsOpen(p)
       THEN Proceed(r, "remote", p)
       ELSE Proceed(r, "ended", None)
  /\ UNCHANGED <<now, purchase, membership, profile, atService, paidOn, handler,
                 admin, job, history>>

InTransaction(h) == handler[h].pc \in {"captured", "showing"}

\* A success or a refund under way has written the row and not committed yet.
Locked(p) ==
  \/ \E h \in Handlers : InTransaction(h) /\ handler[h].purchase = p
  \/ ~admin.reading /\ admin.op = "refund" /\ admin.purchase = p

\* startPaymentSession.
ServiceOpensSession(r) ==
  /\ request[r].pc = "remote"
  /\ atService' = atService \cup {request[r].purchase}
  /\ Proceed(r, "ended", None)
  /\ UNCHANGED <<now, purchase, membership, profile, paidOn, handler, admin,
                 job, history>>

\* The purchase is written off whatever it has become during the call.
ServiceRejects(r) ==
  /\ request[r].pc = "remote"
  /\ ~Locked(request[r].purchase)
  /\ purchase' = [purchase EXCEPT ![request[r].purchase].status = "FAILED"]
  /\ Proceed(r, "ended", None)
  /\ UNCHANGED <<now, membership, profile, atService, paidOn, handler, admin,
                 job, history>>

\* The request fails, at the service or here.
GiveUp(r) ==
  /\ request[r].pc \in {"insert", "remote"}
  /\ Proceed(r, "ended", None)
  /\ UNCHANGED <<now, purchase, membership, profile, atService, paidOn, handler,
                 admin, job, history>>

\* The user pays, before the service's session ends with the purchase.
Pay(p) ==
  /\ p \in atService
  /\ paidOn[p] = 0
  /\ now < purchase[p].expires
  /\ paidOn' = [paidOn EXCEPT ![p] = now]
  /\ UNCHANGED <<now, purchaseVars, membership, profile, handler, admin, job,
                 history>>

-----------------------------------------------------------------------------
(* MembershipPaymentConfirmationService.  A report for a purchase that is  *)
(* not PENDING is answered and changes nothing.                            *)

Receive(h, pc, p) ==
  /\ handler[h] = Idle
  /\ purchase[p].status = "PENDING"
  /\ handler' = [handler EXCEPT ![h] = [Idle EXCEPT !.pc = pc, !.purchase = p]]
  /\ UNCHANGED <<now, purchaseVars, membership, profile, paidOn, admin, job, history>>

\* handleFailure: a read, and then a write by id.
ReceiveFailure(h, p) == p \in atService /\ Receive(h, "failing", p)

RecordFailure(h) ==
  /\ handler[h].pc = "failing"
  /\ ~Locked(handler[h].purchase)
  /\ purchase' = [purchase EXCEPT ![handler[h].purchase].status = "FAILED"]
  /\ handler' = [handler EXCEPT ![h] = Idle]
  /\ UNCHANGED <<now, request, membership, profile, atService, paidOn, admin,
                 job, history>>

\* handleSuccess reads the purchase.
ReceiveSuccess(h, p) == paidOn[p] # 0 /\ Receive(h, "paid", p)

ActiveAfter(t) ==
  { p \in Requests : membership[p].status = "ACTIVE" /\ membership[p].expires > t }

\* The latest of them, if any.
Latest(S) ==
  IF S = {} THEN {None}
  ELSE { p \in S : \A q \in S : membership[q].activated <= membership[p].activated }

\* Mutant: a membership of another plan is not replaced.
ReplaceableSamePlan(p) == { m \in ActiveAfter(paidOn[p]) : planOf(m) = planOf(p) }

Replaceable(p) == ActiveAfter(paidOn[p])

Crowded(p) == \E m, n \in Replaceable(p) : m # n

Captured(h, m, until) ==
  [pc |-> "captured", purchase |-> handler[h].purchase, active |-> m,
   seen |-> IF m = None THEN NoMembership ELSE membership[m],
   until |-> until, shown |-> None]

\* Mutant: the purchase is written before the transaction begins.
CaptureFirst(h) ==
  LET p == handler[h].purchase IN
  /\ handler[h].pc = "paid"
  /\ ~Locked(p)
  /\ purchase' = [purchase EXCEPT ![p].status = "CAPTURED"]
  /\ \E m \in Latest(Replaceable(p)) :
       LET row == IF m = None THEN NoMembership ELSE membership[m] IN
       \E until \in ExpiryFor(p, paidOn[p], m, row) :
         handler' = [handler EXCEPT ![h] = Captured(h, m, until)]
  /\ several' = several \cup { q \in {p} : Crowded(q) }
  /\ UNCHANGED <<now, request, atService, membership, profile, paidOn, admin,
                 job, outdated, revived, overtaken>>

\* Its UPDATE takes the row lock; then it reads the active membership, the
\* latest of them if there are several, and computes the new one's end.
Capture(h) ==
  LET p == handler[h].purchase IN
  /\ handler[h].pc = "paid"
  /\ ~Locked(p)
  /\ \E m \in Latest(Replaceable(p)) :
       LET row == IF m = None THEN NoMembership ELSE membership[m] IN
       \E until \in ExpiryFor(p, paidOn[p], m, row) :
         handler' = [handler EXCEPT ![h] = Captured(h, m, until)]
  /\ several' = several \cup { q \in {p} : Crowded(q) }
  /\ UNCHANGED <<now, purchaseVars, membership, profile, paidOn, admin, job,
                 outdated, revived, overtaken>>

\* Mutant: the latest membership is shown whatever its status.
LatestIn(ms) ==
  LET unexpired == { p \in Requests : ms[p].expires > now } IN
  IF unexpired = {} THEN {None}
  ELSE { p \in unexpired : \A q \in unexpired : ms[q].activated <= ms[p].activated }

\* What syncUserProfileFields reads in memberships ms: the one to show.
ToShow(ms) ==
  LET live == { p \in Requests : ms[p].status = "ACTIVE" /\ ms[p].expires > now } IN
  IF live = {} THEN {None}
  ELSE { p \in live : \A q \in live : ms[q].activated <= ms[p].activated }

\* Those read and not written yet.
BeingShown ==
  { p \in Requests : \/ \E h \in Handlers : handler[h].pc = "showing" /\ handler[h].shown = p
                     \/ ~admin.reading /\ admin.shown = p
                     \/ ~job.reading /\ job.shown = p }

\* A transaction under way has written the membership and not committed yet.
Held(m) ==
  \/ \E h \in Handlers : handler[h].pc = "showing" /\ handler[h].active = m
  \/ ~admin.reading /\ admin.purchase = m

\* Mutant: purchaseId is not unique, and the membership is simply written again.
MayActivate(p) == TRUE

\* user_memberships.purchaseId is unique.
NotYetActivated(p) == membership[p].status = "NONE"

\* The memberships as the transaction leaves them.
Activated(h) ==
  LET p == handler[h].purchase
      m == handler[h].active
  IN [q \in Requests |->
        CASE q = p -> [status |-> "ACTIVE", activated |-> paidOn[p],
                       expires |-> handler[h].until]
          [] q # p /\ q = m -> [membership[q] EXCEPT !.status = "SUPERSEDED"]
          [] OTHER -> membership[q]]

\* It supersedes the one, inserts the other, and reads what there is to show:
\* its own writes, and what others have committed.
Activate(h) ==
  /\ handler[h].pc = "captured"
  /\ NotYetActivated(handler[h].purchase)
  /\ handler[h].active # None => ~Held(handler[h].active)
  /\ \E p \in ToShow(Activated(h)) :
       handler' = [handler EXCEPT ![h].pc = "showing", ![h].shown = p]
  /\ UNCHANGED <<now, purchaseVars, membership, profile, paidOn, admin, job,
                 history>>

\* The active membership as it is now, against what the transaction saw.
Unseen(h, p) ==
  LET m == handler[h].active IN
  \/ m \notin Latest(Replaceable(p))
  \/ m # None /\ membership[m] # handler[h].seen

CommitSuccess(h) ==
  LET p == handler[h].purchase IN
  /\ handler[h].pc = "showing"
  /\ purchase' = [purchase EXCEPT ![p].status = "CAPTURED"]
  /\ membership' = Activated(h)
  /\ profile' = handler[h].shown
  /\ outdated' = outdated \cup { q \in {p} : Unseen(h, q) }
  /\ overtaken' = overtaken \cup ({handler[h].active} \cap BeingShown)
  /\ handler' = [handler EXCEPT ![h] = Idle]
  /\ UNCHANGED <<now, request, atService, paidOn, admin, job, revived, several>>

\* The transaction fails, for the unique index or any other reason, or the
\* process dies.
Abort(h) ==
  /\ handler[h] # Idle
  /\ handler' = [handler EXCEPT ![h] = Idle]
  /\ UNCHANGED <<now, purchaseVars, membership, profile, paidOn, admin, job, history>>

-----------------------------------------------------------------------------
(* The administrator: a read, and then a transaction, which writes the     *)
(* membership and brings the profile up to date.                           *)

Ask(op, p, until) ==
  /\ admin = NoTask
  /\ admin' = [NoTask EXCEPT !.op = op, !.purchase = p, !.until = until]
  /\ UNCHANGED <<now, purchaseVars, membership, profile, paidOn, handler, job,
                 history>>

AskRefund(p) == purchase[p].status = "CAPTURED" /\ Ask("refund", p, 0)

AskCancel(p) == membership[p].status # "NONE" /\ Ask("cancel", p, 0)

AskExtend(p) ==
  /\ membership[p].status # "NONE"
  /\ addDays(membership[p].expires, 1) <= MaxExpiry
  /\ Ask("extend", p, addDays(membership[p].expires, 1))

\* The memberships as the transaction leaves them.
Changed ==
  IF admin.op = "extend"
  THEN [membership EXCEPT ![admin.purchase].expires = admin.until]
  ELSE [membership EXCEPT ![admin.purchase].status = "CANCELLED"]

\* It writes the membership, a refund the purchase before it, and reads what there
\* is to show.
Change ==
  /\ admin.op # "none"
  /\ admin.reading
  /\ ~Held(admin.purchase)
  /\ admin.op = "refund" => ~Locked(admin.purchase)
  /\ \E p \in ToShow(Changed) :
       admin' = [admin EXCEPT !.reading = FALSE, !.shown = p]
  /\ UNCHANGED <<now, purchaseVars, membership, profile, paidOn, handler, job,
                 history>>

\* processRefund, and updateMembership's cancel.
CancelMembership ==
  /\ ~admin.reading
  /\ \/ /\ admin.op = "refund"
        /\ purchase' = [purchase EXCEPT ![admin.purchase].status = "REFUNDED"]
     \/ /\ admin.op = "cancel"
        /\ UNCHANGED purchase
  /\ membership' = Changed
  /\ profile' = admin.shown
  /\ overtaken' = overtaken \cup ({admin.purchase} \cap BeingShown)
  /\ admin' = NoTask
  /\ UNCHANGED <<now, request, atService, paidOn, handler, job, outdated,
                 revived, several>>

Lapsed == { p \in Requests : membership[p].status = "ACTIVE"
                              /\ membership[p].expires <= now }

ExtendMembership ==
  /\ ~admin.reading
  /\ admin.op = "extend"
  /\ membership' = Changed
  /\ profile' = admin.shown
  /\ revived' = revived \cup (Lapsed \cap {admin.purchase})
  /\ admin' = NoTask
  /\ UNCHANGED <<now, purchaseVars, paidOn, handler, job, outdated, several,
                 overtaken>>

\* The request fails.
Dismiss ==
  /\ admin # NoTask
  /\ admin' = NoTask
  /\ UNCHANGED <<now, purchaseVars, membership, profile, paidOn, handler, job,
                 history>>

-----------------------------------------------------------------------------
(* The jobs.                                                               *)

\* expireStaleMemberships: one statement.  What it finds locked has ended by the
\* time it gets it, or is left to the next run.
ExpireStale ==
  LET found == { p \in Lapsed : ~Held(p) } IN
  /\ found # {}
  /\ membership' = [p \in Requests |->
                      IF p \in found THEN [membership[p] EXCEPT !.status = "EXPIRED"]
                                     ELSE membership[p]]
  /\ UNCHANGED <<now, purchaseVars, profile, paidOn, handler, admin, job, history>>

\* ... and the profile it owes the users it finds, in this run or in a later one
\* that expired another user's membership: a read and a write outside of any
\* transaction.
ReadExpired ==
  /\ job = NoSync
  /\ \E p \in Requests : membership[p].status = "EXPIRED" /\ membership[p].expires <= now
  /\ \E p \in ToShow(membership) : job' = [reading |-> FALSE, shown |-> p]
  /\ UNCHANGED <<now, purchaseVars, membership, profile, paidOn, handler, admin,
                 history>>

\* (Or the process dies between the two.)
SyncExpired ==
  /\ ~job.reading
  /\ profile' = job.shown \/ UNCHANGED profile
  /\ job' = NoSync
  /\ UNCHANGED <<now, purchaseVars, membership, paidOn, handler, admin, history>>

Abandoned ==
  { p \in Requests : purchase[p].status = "PENDING" /\ purchase[p].expires <= now }

\* A row a success has locked is CAPTURED by the time the job gets it.
ExpireAbandoned ==
  LET found == { p \in Abandoned : ~Locked(p) } IN
  /\ found # {}
  /\ purchase' = [p \in Requests |->
                    IF p \in found THEN [purchase[p] EXCEPT !.status = "EXPIRED"]
                                   ELSE purchase[p]]
  /\ UNCHANGED <<now, request, membership, profile, atService, paidOn, handler,
                 admin, job, history>>

-----------------------------------------------------------------------------
Request(r) ==
  \/ LookForPurchase(r)
  \/ CreatePurchase(r)
  \/ ReplayPurchase(r)
  \/ ServiceOpensSession(r)
  \/ ServiceRejects(r)
  \/ GiveUp(r)

Notification(h) ==
  \/ \E p \in Requests : ReceiveFailure(h, p) \/ ReceiveSuccess(h, p)
  \/ RecordFailure(h)
  \/ Capture(h)
  \/ Activate(h)
  \/ CommitSuccess(h)
  \/ Abort(h)

Administration ==
  \/ \E p \in Requests : AskRefund(p) \/ AskCancel(p) \/ AskExtend(p)
  \/ Change
  \/ CancelMembership
  \/ ExtendMembership
  \/ Dismiss

Next ==
  \/ Tick
  \/ \E r \in Requests : Request(r) \/ Pay(r)
  \/ \E h \in Handlers : Notification(h)
  \/ Administration
  \/ ExpireStale
  \/ ReadExpired
  \/ SyncExpired
  \/ ExpireAbandoned

Spec == Init /\ [][Next]_vars

-----------------------------------------------------------------------------
(* Properties.                                                             *)

\* What is captured or refunded has its membership, and a membership was paid
\* for, however success, failure, rejection and expiry reports cross.
CapturedIsActivated ==
  \A p \in Requests :
    /\ purchase[p].status \in {"CAPTURED", "REFUNDED"} => membership[p].status # "NONE"
    /\ membership[p].status # "NONE" => paidOn[p] # 0

\* The user has one live membership, as long as no success replaced a membership
\* that had changed since it was read, none was extended after it lapsed, and no
\* success was reported so late that it found two to replace and took the latest.
OneActive ==
  outdated = {} /\ revived = {} /\ several = {} => Cardinality(ActiveAfter(now)) <= 1

\* A membership that was superseded, cancelled or has expired does not come back,
\* though success reports are repeated and raced.
EndedStaysEnded ==
  [][\A p \in Requests :
       membership[p].status \notin {"NONE", "ACTIVE"}
         => membership'[p].status # "ACTIVE"]_vars

\* "Convert remaining value into days": replacing a membership loses no more than
\* one day of the new plan, whatever the plans, the rest and the rounding.
NoValueLost ==
  [][\A p, m \in Requests :
       /\ membership[p].status = "NONE" /\ membership'[p].status = "ACTIVE"
       /\ membership[m].status = "ACTIVE" /\ membership'[m].status = "SUPERSEDED"
       /\ outdated' = {}
       => LET rest == membership[m].expires - paidOn[p]
              length == membership'[p].expires - paidOn[p]
              old == planOf(m)
              new == planOf(p)
          IN (length + Day) * Price[new] * Duration[old]
               >= Duration[new] * Day * Price[new] * Duration[old]
                   + rest * Price[old] * Duration[new]]_vars

\* The profile shows no membership that was cancelled or superseded, whichever
\* transaction ended it and however successes raced, but for one that ended between
\* the read and the write of somebody bringing the profile up to date.
ProfileShowsNoEndedOne ==
  profile # None =>
    membership[profile].status \in {"ACTIVE", "EXPIRED"} \/ profile \in overtaken
=============================================================================
