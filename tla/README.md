# A verification project for the Alterstays backend

TLA+ models of the booking backend in `src/` (NestJS, Prisma, PostgreSQL), model-checked
with TLC on small instances and, for the properties that matter most, proved for every
instance with TLAPS.

## 1. The system: inventory

Requests, webhooks and cron jobs run concurrently in one Node process (several may be
deployed) against one PostgreSQL at READ COMMITTED. What keeps them apart is row locks
(`FOR UPDATE`), a few unique indexes, and conditions repeated under a lock.

| Component | State | Operations | Hard behaviour | What makes it correct |
|---|---|---|---|---|
| bookings (`bookings.service.ts`) | `reservations` (status, createdAt, holdExpiresAt), items, guests, status history | createBooking, tryExtendHold, expireReservation, completeStay | extension without a lock; a clock read before the locks are granted; expiry against payment | holds exist exactly while the booking waits for payment; nothing is oversold |
| inventory (`booking-inventory.service.ts`) | `room_inventory.soldRooms`, `inventory_holds` | lockAndAssertAvailable, createHolds, convertHoldsToSold, sellRooms, releaseHolds | lock order; holds that lapse without being deleted | soldRooms = rooms of the stays sold |
| lifecycle (`booking-lifecycle.ts`) | - | canTransition | - | statuses only move along its edges |
| maintenance jobs (`booking-maintenance.service.ts`) | overlap flags, candidate lists in memory | expireHolds, completePastStays, cleanup of keys | stale candidate lists, batches, failures, restarts | every lapsed hold and past stay is dealt with in the end |
| payment sessions (`payment-sessions.service.ts`) | `payments` | createSession: prepareAttempt, remote call, publishOrAbort | an HTTP call between two transactions; two tabs | one live attempt per booking |
| payment confirmation (`payment-confirmation.service.ts`) | `payment_webhook_events`, `payments`, reservations | claim, takeover, process | notifications late, repeated, out of order; crash after the claim | captured money confirms a booking or is marked for refund; one answer per event |
| idempotency (`booking-idempotency.service.ts`), quotes (`quotes.service.ts`) | `booking_idempotency`, `booking_quotes` | claim, markCompleted, release, cleanup; create, load, consume | retries against slow or ambiguous transactions | one booking per key and per quote |
| coins (`alter-cash.service.ts`) | `users` balance, ledger rows | redeem, refund, earn | read-modify-write | balance = sum of the ledger, never negative |
| memberships (`membership/`) | purchases, memberships, payment events | purchase, confirm, expire, refund | two purchases at once, late success | at most one active membership |
| administration (`admin/`) | all of the above | update, accept, cancel, refund, no-show, complete, remove; the capacity editor; catalogue CRUD | status read outside the transaction | as for bookings |
| authentication (`auth/`) | one-time codes, refresh tokens, rate-limit windows | request, verify, log in, refresh, logout | every statement commits on its own; a counter checked long before it is incremented | a code opens one login, a login has one token, attempts and hits are bounded |
| row locks (all of the above) | PostgreSQL's locks | the locking statements of each transaction | two orders of the same locks | no cycle of waiting; what is read under a lock stays true |
| pricing (`pricing.service.ts`), search (`search.service.ts`), validation | - | computeQuote, applyCoinRedemption; list and page; validate | prices read before the transaction; two roundings | what is listed, quoted and booked agree |

Bookings, inventory, payments and the jobs meet in the rows `reservations`,
`inventory_holds`, `room_inventory` and `payments`; they are modelled together. What
they lock there, and in which order, is looked at once more by itself, with the credit of coins,
the administrator and the inventory editor (`RowLocks`).

## 2. Modules

| Module | Models | Composed with |
|---|---|---|
| `BookingLifecycle` | the status graph and `canTransition` | everything with a status |
| `Stays` | which nights and rooms a reservation takes, how rooms are counted | |
| `StayLedger` | **abstract specification**: a stay is placed, expired, sold and completed, with its hold and its rooms | |
| `ManagedLedger` | **abstract specification**: the same, and a stay is withdrawn, taken back, marked as a no-show or erased | extends `StayLedger` |
| `Bookings` | creation, inventory, expiry job, completion job, clock, crash | extends `Stays` |
| `BookingPayments` | hold extension, payment sessions, notifications; the complete guest-side state machine; implements `StayLedger` | extends `Bookings` |
| `FrontDesk` | the administrator's operations on bookings; implements `ManagedLedger` while no view is outdated | extends `BookingPayments` |
| `KeyRegister` | **abstract specification**: a key answers with one booking at a time, until it is forgotten; the quote may turn away whom the key would answer | |
| `BookingClaims` | idempotency keys, quotes as tokens, clean-up of keys; implements `KeyRegister` | on its own |
| `Memberships` | buying, confirming, replacing, refunding, extending and ending memberships | on its own |
| `Capacity` | the inventory editor against holds and sales | on its own, guests' steps atomic |
| `Wallet` | the coin balance and its statement | on its own, bookings reduced to their status |
| `RowLocks` | the row locks of every transaction on bookings, nights, holds, users and payments, statement by statement | extends `BookingLifecycle` |
| `SignIn` | one-time codes, passwords, refresh tokens, the rate limiter's windows | on its own |
| `Pricing` | the arithmetic of money, as constant operators | |
| `Checkout` | browsing, quoting, booking, and the world changing underneath | extends `Pricing` |
| `MC*` | values of the constants for TLC | extend the module they name |
| `BookingPaymentsProofs` (of `BookingPayments`, of `FrontDesk` and of the two ledgers), `BookingClaimsProofs` (and of `KeyRegister`), `CheckoutProofs` (and of `Pricing`), `MembershipsProofs`, `CapacityProofs`, `WalletProofs`, `RowLocksProofs`, `SignInProofs` | theorems | extend the module they prove about |

### How to read the models against the code

*A variable is a column, a table or a value in memory*, and is named after it where TLA+
allows (`status`, `holdExpiresAt`, `soldRooms`, `paymentStatus`, `claim`, `balance`).
Variables marked *history* in their declaration exist in no table: they record what a
property needs to know of the past.

*An action is a transaction, or the part of a request between two points where another
request can come in.* A request that reads without a lock and writes later is several
actions (`tryExtendHold`: `ReadForExtension`, `ExtendReservation`, `ExtendRows`); a
transaction that takes its row locks first is one, with the clock value it read before it
waited. `PROJECT.json` maps every definition to its lines.

* **Bookings / BookingPayments.** `creating` holds the transactions that wait for the
  inventory locks, with the `now` they computed before; `CommitCreate` is everything under the
  locks. `expiryQueue` and `completionQueue` are the jobs' candidate lists, unlocked;
  `ExpireReservation` and `CompleteStay` look again under the row lock. `session` is a
  payment-session or extend-hold request; the call to the payment service lies between
  `OpenAttempt` and `PublishSession`, and whatever happens in between is another action.
  `webhook` is `payment_webhook_events`; `delivery` is what each handler works on. The claim of
  an event and the start of the processing transaction are one step (the transaction's `now` is
  the claim's `receivedAt`); `LoseDelivery` is the crash in between. All hold rows of a
  reservation have one expiry, `rowsExpireAt`. Amounts are left out: the 422 answers to foreign
  or mis-stated payments change nothing but the event.
* **FrontDesk.** Every operation is `findReservation`, an unlocked view, and later a transaction
  that decides on the view. `outdated` collects the bookings whose view was no longer true, and
  the properties of this module are conditional on it being empty: they say that the unlocked
  read is the *only* gap. A deleted booking has status `DELETED`; a booking with payments cannot be deleted (foreign key).
* **BookingClaims.** One user; a body stands for its hash and names its quote. A request can die
  at any point, and a connection can break after the COMMIT, so that the handler releases the
  claim of a booking that exists (`forgotten`). `earlier` records, for every booking, the
  bookings that were there when its request loaded the quote. `createBooking` loads the quote before it
  claims the key, so a retry of a request that has booked is refused for its consumed quote and never
  reaches its key: `KeyRegister` tells who was turned away at the quote from who was turned away at the key,
  and promises a booking to nobody.
* **Memberships.** One user; a purchase is known by the request that created it. The success
  transaction is four steps: it reads the purchase; writes it (the row lock) and reads the active
  membership (`Capture`); writes the memberships and reads the one to show (`Activate`); writes the profile and commits.
  `syncUserProfileFields` is a read and a write wherever it is called: the administrator's transaction is
  `Change` and its commit, and the job's refresh, which has no transaction, `ReadExpired` and `SyncExpired`.
  `outdated`, `revived` and `several` record the successes that replaced a membership they had an old
  view of, the lapsed memberships that were extended, and the successes that found more than one
  membership to replace: `OneActive` excepts these. `overtaken` records the memberships that ended between somebody's
  read and write of the profile: `ProfileShowsNoEndedOne` excepts these. A floating-point rate may make a bonus of a
  whole number of days come out a day short, so `bonusDays` is a set.
* **Capacity.** One room per guest, rows per night, `None` without a row. The editor reads and
  checks in one step and writes in another; `careless` collects the nights where it overlooked a
  hold or a sale, `lapsedHoldUsed` the guests whose hold was used after it had lapsed.
* **Wallet.** A transaction that touches the balance reads it in one step and writes what it
  computed in another. Expiry and cancellation hold the reservation's row lock in between
  (`Locked`); redemption, credit and adjustment hold nothing. The administrator's `accept`, `cancel` and
  `markNoShow` are a view (`View`) and later a write of the status, whatever it has become; `outdated`
  collects the bookings written in another status than was seen, `revived` those confirmed after they
  expired, and `CoinsFollowTheStay` excepts these, booking by booking. `RollBack` is any failure, the
  deadlock of a credit (user row, then reservation) with a cancellation (the reverse) included.
  `adjustBalance` has no caller in the repository yet; it is modelled as the service offers it.
  `remove` unlinks the rows of the statement from the booking and is left out.
* **RowLocks.** The other modules take a transaction that has its locks as one step; this one
  gives every statement that waits a step of its own. `left[t]` is what transaction `t` has still
  to lock; `Precedes` is the order of its statements, and within the nights the `ORDER BY` of its
  locking query, or none where a bare `UPDATE` or `DELETE` takes the rows as it scans them. A reservation
  has one hold row per night, always taken in the order of a scan, and a guest row, which the administrator's
  `update` writes before the reservation and the cascade of `remove` deletes after it. `Strength`
  is the lock's mode (`FOR UPDATE`, an update, a foreign key's share), `Conflict` which modes exclude
  each other. What a transaction does next depends on the status it reads under the lock, or on the
  view of a request that did not lock: `PlansUnderLock`, `PlansOnView`. Which rooms are
  free and what is paid is left to the other modules: every outcome is possible here.
* **SignIn.** One phone number. No request uses a transaction, so each statement is an action and
  `Fail` may follow any of them; `Restart` forgets the windows, which live in the process. Times are
  counted down. An expired token, or a suspended user, is a token nobody reads. The windows of the
  address and of the phone are one kind of key; the address may refuse what the phone let pass.
  `exposed`, `forked` and `over` record the overlaps the properties except: a code looked up again
  before it was consumed, a token rotated when it was already revoked, a rotation that died half way.
* **Checkout.** `Listing` and `Page` are what the search service computes from the tables at any
  moment; `CreateIntent` reads and writes in one step; `LoadQuote` and `CommitBooking` are two, as
  the code prices outside the transaction. Amounts are whole units and rounding is exact; a date
  without an inventory row has no rooms. `repriced` remembers that a rate or the membership
  changed since the quote.

## 3. Runs

One tick of the booking clock is 15 minutes. All runs stop at a last instant `MaxTime`, or when
nothing is left to do, and say `CHECK_DEADLOCK FALSE` for that reason.

| Run | Instance | Question and result |
|---|---|---|
| `two_guests` | 2 guests, 2 rooms each, 3 for sale on 2 nights; holds of 2 ticks, up to 3 with extension; 2 payments; 5 ticks; transactions that wait up to 1 tick. 1.3M states | Do rooms sold and held match the stays, is a night oversold without a lapsed hold being used, and is every step one of `StayLedger`? Holds. |
| `redelivery` | 1 guest in two tabs (2 payment-session requests), 2 attempts, successes and failures of both, 2 handlers, 4 ticks; of requests and deliveries, 2 at work at a time. 1.6M states | Is captured money ever lost, unexplained, or reported captured when it is not; are two attempts ever live? Holds. |
| `jobs_progress` | 2 guests, batches of 1, 1 failure (crash, lost delivery or failing transaction). 160k states | Are lapsed holds, claimed events and past stays dealt with in the end, whichever came first and however the batch cuts them? Holds. |
| `front_desk` | 2 guests, 1 clerk, 1 payment of 2 units, 3 ticks. 1.8M states | Do rooms, money, refunds and statuses stay right when an administrator works on the bookings, is the money of every answered success on file unless it was turned away (422) from a booking that is over, and is every step one of `ManagedLedger`? Holds while no view is outdated. |
| `booking_claims` | a request, its retry, and its key reused with another body; two quotes, 5 ticks. 1.1M states | Does a key book once, keep its claim, answer like a register (`KeyRegister`) whom the quote lets through, and come free after a crash; is a quote spent twice only by requests that had both loaded it? Holds. |
| `memberships` | 2 plans, a purchase, its retry and an upgrade, 2 handlers, days of 2 ticks; 2 requests, handlers, jobs or administrators at work at a time. 1.9M states | Is every captured purchase activated once, one membership live, the profile free of ended memberships, and no more than a day lost in an upgrade? Holds; the profile and the one membership but for the overlaps the properties name. |
| `capacity` | 2 nights, 3 guests, totals 1-2, blocks 0-1. 2.2M states | Do counts stay right and rooms suffice through edits, deletions and new rows? Holds where the editor overlooked nothing. |
| `wallet` | 2 bookings of 2 coins that earn 1, 3 coins, one adjustment; 2 transactions or views at a time, 5 rows of the statement. 2.5M states | Are coins paid back and earned once, do they follow the stay, does the statement add up? Holds; the statement while no two writers overlap, the stay unless an administrator wrote it from an old view. |
| `checkout` | 2 room types, 3 rate plans, 2 nights, 2 changes of the world. 132k states | Is what can be booked listed at a price no higher than it costs, and booked as quoted? Holds. |
| `row_locks` | 2 bookings of one user, of 2 nights with coins and of the second night; 3 transactions. 1.5M states | Can transactions wait for one another in a circle, and does what was read under a lock stay true? A circle needs one of the six that lock out of order (`OutOfOrder`), and each of the six does make one; decisions stay true. |
| `sign_in` | 2 requests at a time, a code of 2 attempts that lives 1 tick, limits of 2 and 1 per window of 2, 3 tokens. 3.6M states | Are guesses and hits bounded, is a code good for one login, has a login one token? Holds, but for the overlaps the properties name. |
| `oversell_extension` | `two_guests` with transactions that never wait | `NoOverselling` is violated: an extension revives a lapsed hold without looking at the inventory. |

**Why the bounds are enough.** Conflicts over rooms need two bookings that do not both fit (2 + 2
of 3), over money two payments of one booking and two handlers (one claim taken over from the
other), over a key or a quote two requests and one with another body, over a balance two
transactions. A circle of three waiting transactions includes every class of lock in `row_locks`
(two nights, so that their order matters; one user for two bookings, so that the coins are shared), starvation
in a job needs one more candidate than its batch, and an overlap at sign-in is one of two requests. The clocks run past every timer twice: a hold, its extension, its expiry and a late payment fit
into `two_guests`; claim, stale takeover and answer into `redelivery`; sweep and re-claim into
`booking_claims`. Payments, handlers, guests and transactions are interchangeable where the `.cfg` says so
(`SYMMETRY`, in runs without liveness only). Four runs have a `CONSTRAINT`, defined and explained in the
`MC` module: `TwoAtATime` keeps to two processes that have something read and not written yet, since every
overlap the properties speak of is one of two (a third may have finished, or not begun); `ShortStatement` keeps the
redemption, refund and credit of two bookings to five rows; `InTheWay` has the shorter booking of `row_locks` compete for
nights and coins only, one transaction at a time, and `TwoClerks` leaves one of the three transactions to guests, jobs and
notifications. A state beyond a constraint is itself still checked. Bounds are named in the modules (`MaxTime`, `MaxFailures`, `MaxEdits`,
`MaxAdjusted`, `MaxViewed`, `MaxCodes`, `MaxTokens`, `Sessions`, `Handlers`, `Clerks`). Where a theorem exists, it has no such bound.

**Fairness.** `FairSpec` of `BookingPayments`: time passes and both jobs are started again and
again (cron); weak fairness of a job's next step; strong fairness of a job that expires, or completes,
*some* candidate, because a run that fails is repeated, and failures are bounded
(`MaxFailures`). No candidate is promised its turn: that each gets it is what the run shows, from the
`ORDER BY` of the batch. A handler is not stuck for ever (the transaction's timeout); the payment
service redelivers an event until it is answered, and every delivery has a chance. The last is
an assumption about the sender, which the code's comments share ("stop retrying"). Guests and
payments are under no fairness. `FairSpec` of `BookingClaims`: time passes and the clean-up job
runs; requests may die at any point. The other modules state safety only.

Type invariants are stated where a proof rests on them (`BookingPayments`, `StayLedger`, `BookingClaims`,
`Wallet`, `RowLocks`, `SignIn`, `Capacity`; for `Checkout` and `Memberships` in their proof modules), and proved there; no run spends a property on them.

## 4. Theorems

Assumptions: only the `ASSUME`s of the modules (sets of anything, durations in `Nat`, `None`
outside the sets it stands beside, in a selection at least one adult and one room, as its DTO demands, and nights the calendar has). No bound on guests, nights, payments, handlers or delays.

| Theorem | Says | Argument |
|---|---|---|
| `TypeCorrect` (`BookingPaymentsProofs`) | `TypeOK` | strengthened with the foreign keys: whoever names a payment names one that has a reservation |
| `LedgerImplemented` | `ImplementsLedger` | every action is a ledger step or a stutter; needs that hold rows exist exactly while pending, and that a sold reservation has its rooms counted |
| `LedgerCorrect`, `LedgerMovesLegally` | the abstract ledger counts rooms right and moves along the lifecycle | `LedgerInv`, inductive in `StayLedger` read with the columns of the bookings (`Ledger!`, where any set of reservations can be the held ones); the sum over stays by lemmas on the cardinality of the set of rooms |
| `SoldIsWhatIsSold`, `RowsOnlyWhilePending` | `SoldMatchesStays`, `RowsExactlyWhilePending` | carried down from the ledger's invariant through the refinement |
| `AttemptsStayApart`, `NoMoneyUnexplained` | `OneLiveAttempt`, `CapturedMoneyExplained` | inductive with the type invariant, one step per action |
| `MoneyBeatsFailures` | `CapturedStays` | every writer of a payment's status looks at it under the lock or in the statement's own condition |
| `AcceptedMeansCaptured` | `AcceptedSuccessIsCaptured` | an acknowledged success was decided in the transaction that captured its payment, and `MoneyBeatsFailures` keeps it so |
| `LocksPreventOverselling` | `OversellingNeedsLapsedHold` | as long as no lapsed hold is used, a hold that was live when a transaction read the clock stays counted until it is sold, so what the locked transaction sees free is free |
| `DeskCorrect` (`BookingPaymentsProofs`) | types, foreign keys and the checks each task in flight has passed, with an administrator at work | `DeskInv`; every step is one of `BookingPayments`, which keeps its part of it, or a clerk's; deleted bookings and refunded payments widen the types of `TypeCorrect`, so the lemmas on types are stated for any larger set of statuses (`Typed`) |
| `BalanceCorrect`, `BooksAreBalanced` | `BooksBalance` | `Balanced`: rows exactly while pending, no-shows stay no-shows until deleted, `soldRooms` counts the occupants. A clerk's operation on a view that is still true is one of six moves of one stay (`DeskMove`), each of which keeps the balance |
| `DeskLegal` | `DeskMovesLegally`: statuses move along the lifecycle's edges, and only what is over is deleted | each `DeskMove` is such an edge, because the task's check was made on the status it still has |
| `ManagedLedgerImplemented` | `DeskKeepsTheLedger` | a step of the ledger, or a `DeskMove`, is a move of `ManagedLedger`. Rows that exist exactly while pending make a deletion leave the holds alone; rooms that were counted make `GREATEST(soldRooms - quantity, 0)` the difference, which is all `TakeBack` allows |
| `ManagedLedgerCorrect`, `ManagedMovesLegally` | in `ManagedLedger` holds are those of the stays that wait, the rooms of every stay on file are counted (`StaysHaveRooms`), and statuses move legally | `ManagedInv`; "at least" and not "exactly", since an erased no-show leaves its rooms counted |
| `DeskKeepsAttemptsApart`, `OnlyRefundsTakeMoneyBack` | `OneLiveAttempt` with an administrator; a captured payment stays captured until a refund | of a clerk's steps only `RefundPayment` writes payments (`DeskPayments`), the others' steps are those of `AttemptsStayApart` and `MoneyBeatsFailures`; needs no condition on views |
| `DeskLocksPreventOverselling` | `DeskOversellingExplained` | the moves but acceptance free rooms; acceptance turns a hold still counted into a sale, as `LocksPreventOverselling` says of a payment |
| `RefundsStayWithin` | `RefundsWithinPayment` | a refund takes at most what its view left, and the view is that of the row |
| `LostMoneyGoesBack` | `LostStaysAreRefunded` | a sold stay is given up by a clerk only, in the step that marks or waives its payments; a payment captured for a stay that is not sold is marked when it is captured |
| `AnsweredMoneyIsOnFile` | `PaidIsOnFileOrOver` | a success is answered in the transaction that captures its payment or on a status read under the lock; what is over then is over for good (`TurnedAwayStep`), and of what was captured a refund leaves a trace (`MoneyOnRecord`) that a late failure report does not remove |
| `MembershipsInvHolds` (`MembershipsProofs`) | types, who works on what, memberships last | `MembershipsInv`: what a success saw of the membership it replaces has since only been extended or ended |
| `CapturedHolds` | `CapturedIsActivated` | only the transaction that inserts the membership, the unique `purchaseId` and the refund of a membership write CAPTURED or REFUNDED |
| `EndedStay` | `EndedStaysEnded` | every writer of a membership moves it onward, and the unique `purchaseId` keeps a second success from inserting it again |
| `ValueIsKept` | `NoValueLost` | the bonus `(days * old price * new duration) div (old duration * new price)` loses less than a day and the days left are rounded up (`BonusCovers`, for all naturals); a floating-point rate takes a day off only where the quotient is whole, and then nothing else is lost |
| `ProfileProper` | `ProfileShowsNoEndedOne` | `ProfileInv`: what somebody has read and not written, and what the profile shows, has not been cancelled or replaced, or has while it was read and not written (`overtaken`); a transaction reads after its own write, and whoever ends a membership other than by the clock reads again before its commit |
| `OneActiveHolds` | `OneActive` | `Alone` and `AtMostOne`: while a success is under way, a membership that has become replaceable beside the one it saw was activated later, so that the success that finds one has found all, or is recorded as outdated |
| `BookingsKeepTheirClaims`, `KeysBookOnce`, `ReplaysShowTheirOwnBooking` (`BookingClaimsProofs`) | `BookingKeepsItsClaim`, `OneBookingPerKey`, `ReplayIsOwnBooking` | `ClaimsInv`: a claim is its owner's, who has not booked before completing it, and earlier bookings of the key are past their life |
| `RegisterImplemented` (`BookingClaimsProofs`) | `ImplementsRegister`: every step of `BookingClaims` is a step of the register or none. The key turns nobody away whom it could show a booking; the quote may. A safety property: it promises nobody an answer | a completed claim is the register's entry; a request that owns its claim has an incomplete one, so that its key answers with nothing when it books; nobody has been shown anything before the end of a request (`Untold`) |
| `RegisterCorrect` (`BookingClaimsProofs`) | in `KeyRegister` nobody is shown a booking but their own or one made for their key from their body, and who was turned away has none | inductive as it stands |
| `QuotesAreSpentOnce` (`BookingClaimsProofs`) | `QuoteSpentOnce` | `QuotesInv`: a quote is marked consumed exactly when a booking of it has committed, and a request that holds one loaded it while it was not |
| `EditsKeepTheCount`, `EditsLeaveRoom` (`CapacityProofs`) | `SoldIsCounted`, `RoomsSuffice` | `CapacityInv`: what a pending edit checked still holds of what it saw, and a hold stands on rows that are there; a write that overlooks nothing finds the night as it saw it, without a hold |
| `WalletTypeCorrect`, `StatementCorrect` (`WalletProofs`) | `TypeOK` (balances never negative), `StatementAddsUp` | `WalletTyped`: what a running transaction will write is not negative, from its own read |
| `CoinsOncePerBooking`, `CoinsFollow` (`WalletProofs`) | `OncePerBooking`, `CoinsFollowTheStay` | `CoinsInv`: what a transaction saw of its booking's coins still holds when it commits (row lock, or one of its kind at a time), and a booking's status says which rows it has, unless a late payment revived it or an administrator wrote it from an old view |
| `CheckoutTypeCorrect` (`CheckoutProofs`) | every amount, count of rooms and price is a natural number | sums over nights (`SumOfNaturals`), `QuoteOfAStay`: discount and coins never exceed what they are taken from |
| `BookingsAreAsQuoted` (`CheckoutProofs`) | `BookedAsQuoted` | `QuoteInv`: what a request has loaded is already as quoted, unless a change of price or membership since the quote was recorded in `repriced` |
| `BrowsingNeverDrifts` (`CheckoutProofs`) | `BrowsingAgreesWithBooking` | the list minimises over more plans than the page, rounding keeps the order and is off by at most half a unit (`RoundedKeepsOrder`, `RoundedBounds`), and free rooms are the minimum over the same nights (`RoomsRemain`) |
| `NoDeadlockInOrder` (`RowLocksProofs`) | `DeadlocksNeedOneOutOfOrder` | of transactions in order that wait in a circle, none waits for a payment (payments come last); none for a guest or a hold row, since who wants one has the reservation locked, and so has who holds one (`UnderTheReservation`); hence none for coins, none for the last of the nights waited for, so none for a night, and then none for the booking. The credit of coins breaks the order and is harmless: its booking is completed, and whoever holds such a row waits for nothing but payments |
| `DecisionsUnderLockHold` (`RowLocksProofs`) | `DecisionsHold` | `StatusInv`: whoever writes a status has the row locked by the time it commits, and a row locked `FOR UPDATE` is one transaction's |
| `GuessesAreBounded` (`SignInProofs`) | `GuessesBounded` | `GuessesCounted`: the guesses counted and the requests still comparing stay within the bound, since each was let through below the limit |
| `CodesAreSpentOnce` (`SignInProofs`) | `CodeSpentOnce` | `SpentBySigning`: a code nobody looked up again is one request's alone until it is consumed |
| `HitsAreBounded` (`SignInProofs`) | `HitsBounded` | `HitsCounted`: what passed since the window opened is its count, what passed after its first hit is less, and what passed before it opened is less than a full window, because the first hit of the window before is as long ago as a window lasts |
| `LoginsHaveOneToken` (`SignInProofs`) | `OneTokenPerLogin` | `OneHolder`: a login has a live token or one request about to issue it, and never two of either |

None of the invariants is inductive alone: each speaks of committed rows, while a step that
breaks it would come from a request in flight, so the strengthening always says what a request
in flight may still rely on.

**`outdated = {}`.** The properties of the front desk, and two of memberships, are about behaviours
without a transaction that committed on an outdated view; their invariants carry the same condition,
and a step that would break them is shown to add to `outdated`. What needs no condition
(`DeskCorrect`, `DeskKeepsAttemptsApart`, `OnlyRefundsTakeMoneyBack`, `CapturedHolds`, `EndedStay`) is
proved without. `ProfileProper` and `CoinsFollow` have no condition on the whole behaviour: they
except the one membership, or booking, that was overtaken.

**Sums and minima.** The library's induction theorems take an operator as a parameter, which the
installed provers cannot instantiate. What `CheckoutProofs` needs of sums and minima over sets of nights it
takes from the least element of a set of naturals (`LeastNatural`, by well-foundedness) and from a *set* of naturals that has 0
and every successor (`SetOfAllNaturals`). So the sets may be of any size, and no fold is declared `RECURSIVE`.

**Only model-checked.** Liveness and everything under fairness (`jobs_progress` and the clean-up of
`booking_claims`), which the prover cannot reach. Every invariant and every action property that a
passing run checks is also stated by a theorem; `DeskMovesLegally` and `ReplayIsOwnBooking` are proved and no
longer run by themselves, since the refinements the runs check say more.

## 5. What the code does otherwise than its text says

One has a run of its own (`oversell_extension`; see the findings in `PROJECT.json`): the extension of
a hold that has lapsed. Others met while modelling, which the models reproduce and the properties
except by name:

*Against a comment, a test or the schema:*

* two requests that both loaded a quote before either booked it both book it: `markQuoteConsumed`
  (`quotes.service.ts:185`) does not look at `consumedAt` again, the check (`:134`) was outside the
  transaction. `QuoteSpentOnce` says that this overlap is the only way;
* a retry after a lost response is answered 409 for the quote its own booking consumed, before its key
  is looked at (`bookings.service.ts:135`, `quotes.service.ts:132`), where
  `test/bookings.idempotency.e2e-spec.ts:94-118` expects the booking. `KeyRegister` says what the key
  itself does, and that the quote may come before it;
* a success for a booking that is cancelled, completed or a no-show is answered 422 and its charge recorded
  nowhere (`payment-confirmation.service.ts:282-290`), where the comment on `captureForRefund`
  (`:468-471`) calls captured with `refundRequired` the honest state. `PaidIsOnFileOrOver` names this case
  as its one exception;
* a failure reported after a partial refund turns the payment FAILED: `applyFailure` spares only
  CAPTURED (`payment-confirmation.service.ts:238-240`), though its comment says that money in hand beats a
  later failure report;
* a one-time code is looked up, compared and consumed in separate statements, and consumed last
  (`auth.service.ts`, `verifyOtp`), so a code that was verified and not yet consumed can be used again,
  against `prisma/schema.prisma:130-131`; `CodeSpentOnce` says that only such overlaps can. A
  comparison whose request dies before its increment is not counted;
* the price is resolved before the transaction, not in it (`bookings.service.ts:126-128`); a
  rate change in between is booked at the old price, which is the quoted one or the one `LoadQuote` saw.

*Bookings and payments:*

* a confirmation whose wait for its lock outlasts the hold converts it as live
  (`payment-confirmation.service.ts:164`): the second way to a used lapsed hold, beside the extension;
* a claim is released after a COMMIT whose answer was lost, and the key can book again
  (`booking-idempotency.service.ts:150`): `forgotten`;
* a job's batch is the 100 oldest candidates and a failing one stays a candidate
  (`bookings.service.ts:481-495`): a hundred bookings whose transaction *always* fails would keep the rest from
  being reached. The fairness of `jobs_progress` (failures end) excludes this;
* two redeliveries that take over the same stalled claim both decide the event (`payment-confirmation.service.ts:144`).

*The administrator*, whose operations check a status or an amount before their transaction (`outdated`, `careless`):

* `accept` and `markNoShow` write the status whatever it has become (`admin-bookings.service.ts:166-194`,
  `:334-352`): a cancelled or expired booking whose coins are back is confirmed, a no-show is written over a
  completed stay whose coins are credited; two cancellations of one view give rooms back twice (`:200`);
* two refunds that overlap can exceed the payment (`:270`);
* an edit or deletion of inventory rows writes over the holds and sales that came after its check
  (`admin-inventory.service.ts:56`, `:146`);
* `update`, `accept`, `cancel`, `refundPayment` and `deleteRange` lock in orders of their own (`update`: the guest,
  then the reservation, against the cascade of `remove`), and so does `tryExtendHold`'s `updateMany` of the hold
  rows (`bookings.service.ts:103-106`) against the `deleteMany` of `releaseHolds`
  (`booking-inventory.service.ts:304`), each in the order of its scan. A deadlock among them is one that PostgreSQL breaks by
  failing one of the transactions.

*Coins and memberships:*

* two transactions on one balance that overlap lose an update (`alter-cash.service.ts:108`);
* a credit of coins that fails after the completion is never made up for (`bookings.service.ts:556`);
* a booking paid after it expired keeps the coins it was given back (`alter-cash.service.ts:137`): `revived`;
* the job refreshes the profile in two statements outside a transaction (`membership.service.ts:138-154`,
  `:166-178`), and every other refresh reads before it writes: a membership that ends in between stays on
  the profile until the next refresh (`overtaken`);
* floating-point rates can lose a whole day of an upgrade (`membership.utils.ts:15-17`, `:36-40`): 49 days at
  1 / 49 come out as 0.99... days and are floored to none;
* a failure report and a success that overlap turn a captured purchase FAILED, with its membership in force
  (`membership-payment-confirmation.service.ts:78`);
* two successes that overlap leave two memberships live, and so does the extension of one that had lapsed
  (`admin-memberships.service.ts:100`);
* a success reported so late that its buyer has bought again meanwhile can find two memberships to
  replace, one of them lapsed and not swept, and `findFirst` takes the one activated last
  (`membership-payment-confirmation.service.ts:156-164`). The proof of `OneActive` asked for this case; it
  takes more purchases than the run has;
* a success for a membership purchase that was expired or closed is answered 422
  (`membership-payment-confirmation.service.ts:125`): the text of the answer says so, and nothing promises more.

*Signing in and searching:*

* two refreshes of one token that overlap both succeed and leave two live tokens (`auth.service.ts:302`), a
  refresh that overlaps a logout undoes it, and one that dies half way leaves the login with none;
* list and page may show totals that differ by a rounding (`search.service.ts`); `BrowsingAgreesWithBooking` bounds the difference.

## 6. Not modelled

Of authentication: the profile but for its password, the record of logins, saved guests, the tokens'
signatures and the messages' delivery. Signatures and HTTP mapping, uploads, images, reviews, filters and sorting, the catalogue's single-statement editing, booking numbers
(a unique index with retries), wording of answers, audit rows, currency and tax columns beyond
`Pricing`. PostgreSQL itself is taken at its word: READ COMMITTED, row locks, unique indexes
and foreign keys.

## 7. Plan

Done, in the order of the table in section 2: bookings and payments first, because every
other component meets there; then claims, the front desk, memberships, the smaller
components, the row locks they all share, and signing in. What is left, in order:

1. **Models.** `Wallet` composed with `BookingPayments`, so that the coins meet the real expiry, late
   payment and completion; several room types in one reservation; `Capacity` composed with `Bookings`.
2. **Abstract specifications.** A membership ledger (bought, replaced, ended) implemented by
   `Memberships`; a counted room implemented by `Capacity`.
3. **Theorems.** Those abstract specifications implemented, step by step.
