---------------------------- MODULE BookingClaims ---------------------------
(***************************************************************************)
(* One booking per Idempotency-Key and per quote: createBooking of         *)
(* bookings/bookings.service.ts with the claims of                         *)
(* booking-idempotency.service.ts and the quotes of quotes.service.ts.     *)
(*                                                                         *)
(* All requests are one user's (claims and quotes are looked up by user).  *)
(* A body stands for its hash, and names its quote.  Requests for the same *)
(* key are retries, early or late: they run side by side.  Whether the     *)
(* rooms are free is the business of Bookings; here a transaction may fail *)
(* for any reason.                                                         *)
(***************************************************************************)
EXTENDS Naturals

CONSTANTS
  Requests, Keys, Bodies, Quotes,
  KeyOf, BodyOf,     \* what each request carries
  QuoteOf,           \* the quote each body names
  QuoteTTL,          \* BOOKING_QUOTE_TTL_MINUTES
  ClaimTTL,          \* IDEMPOTENCY_TTL_MS
  StaleClaim,        \* IDEMPOTENCY_STALE_MS
  MaxTime,           \* bound: the last instant of the model's clock
  None               \* no request

ASSUME ClaimsAssumption ==
  /\ None \notin Requests
  /\ KeyOf \in [Requests -> Keys]
  /\ BodyOf \in [Requests -> Bodies]
  /\ QuoteOf \in [Bodies -> Quotes]
  /\ QuoteTTL \in Nat \ {0}
  /\ ClaimTTL \in Nat
  /\ StaleClaim \in Nat
  /\ MaxTime \in Nat

VARIABLES
  now,
  quoteExpires,   \* booking_quotes.expiresAt, 0 before the quote is issued
  consumed,       \* quotes with consumedAt set
  claim,          \* booking_idempotency: by key, the row there is, if any
  step,           \* how far each request has come
  answer,         \* what it was told
  claimedAt,      \* history: when it took its key
  booked,         \* the requests whose reservation committed
  forgotten,      \* history: committed bookings whose claim was released
  earlier         \* history: what was booked when a request loaded its quote

vars == <<now, quoteExpires, consumed, claim, step, answer, claimedAt, booked,
          forgotten, earlier>>

NoClaim == [owner |-> None, status |-> "ABSENT"]

Steps == { "new", "loaded", "clashed", "claimed", "failed", "ended" }

\* What a request is told, and the booking it is shown.
Told(kind, booking) == [kind |-> kind, booking |-> booking]

Kinds == { "NOTHING", "BOOKED", "REPLAY", "QUOTE_USED", "QUOTE_EXPIRED",
           "OTHER_BODY", "RETRY", "ERROR" }

\* The refusals (409): of the quote, and of the key.
QuoteRefusals == { "QUOTE_USED", "QUOTE_EXPIRED" }
KeyRefusals == { "OTHER_BODY", "RETRY" }

key(r) == KeyOf[r]
quote(r) == QuoteOf[BodyOf[r]]

\* The claim r inserted is still there.
Owns(r) == claim[key(r)].owner = r

Init ==
  /\ now = 1
  /\ quoteExpires = [q \in Quotes |-> 0]
  /\ consumed = {}
  /\ claim = [k \in Keys |-> NoClaim]
  /\ step = [r \in Requests |-> "new"]
  /\ answer = [r \in Requests |-> Told("NOTHING", None)]
  /\ claimedAt = [r \in Requests |-> 0]
  /\ booked = {}
  /\ forgotten = {}
  /\ earlier = [r \in Requests |-> {}]

End(r, kind, booking) ==
  /\ step' = [step EXCEPT ![r] = "ended"]
  /\ answer' = [answer EXCEPT ![r] = Told(kind, booking)]

Tick ==
  /\ now < MaxTime
  /\ now' = now + 1
  /\ UNCHANGED <<quoteExpires, consumed, claim, step, answer, claimedAt, booked,
                 forgotten, earlier>>

\* createIntent.
CreateIntent(q) ==
  /\ quoteExpires[q] = 0
  /\ quoteExpires' = [quoteExpires EXCEPT ![q] = now + QuoteTTL]
  /\ UNCHANGED <<now, consumed, claim, step, answer, claimedAt, booked, forgotten, earlier>>

-----------------------------------------------------------------------------
(* createBooking.                                                          *)

\* loadConsumableQuote, before the key is looked at.
LoadQuote(r) ==
  /\ step[r] = "new"
  /\ quoteExpires[quote(r)] # 0
  /\ \/ /\ quote(r) \in consumed
        /\ End(r, "QUOTE_USED", None)
        /\ UNCHANGED earlier
     \/ /\ quote(r) \notin consumed
        /\ quoteExpires[quote(r)] <= now
        /\ End(r, "QUOTE_EXPIRED", None)
        /\ UNCHANGED earlier
     \/ /\ quote(r) \notin consumed
        /\ quoteExpires[quote(r)] > now
        /\ step' = [step EXCEPT ![r] = "loaded"]
        /\ earlier' = [earlier EXCEPT ![r] = booked]
        /\ UNCHANGED answer
  /\ UNCHANGED <<now, quoteExpires, consumed, claim, claimedAt, booked, forgotten>>

\* claim: the INSERT wins, or the unique index turns it down.
Claim(r) ==
  /\ step[r] = "loaded"
  /\ claim[key(r)] = NoClaim
  /\ claim' = [claim EXCEPT ![key(r)] = [owner |-> r, status |-> "IN_PROGRESS"]]
  /\ claimedAt' = [claimedAt EXCEPT ![r] = now]
  /\ step' = [step EXCEPT ![r] = "claimed"]
  /\ UNCHANGED <<now, quoteExpires, consumed, answer, booked, forgotten, earlier>>

Clash(r) ==
  /\ step[r] = "loaded"
  /\ claim[key(r)] # NoClaim
  /\ step' = [step EXCEPT ![r] = "clashed"]
  /\ UNCHANGED <<now, quoteExpires, consumed, claim, answer, claimedAt, booked,
                 forgotten, earlier>>

\* Mutant: the stored hash is not compared.
ReplayAnyBody(r) ==
  LET owner == claim[key(r)].owner IN
  /\ step[r] = "clashed"
  /\ \/ /\ claim[key(r)].status = "COMPLETED"
        /\ End(r, "REPLAY", owner)
     \/ /\ claim[key(r)].status # "COMPLETED"
        /\ End(r, "RETRY", None)
  /\ UNCHANGED <<now, quoteExpires, consumed, claim, claimedAt, booked, forgotten, earlier>>

\* resolveExistingClaim reads the row again: it may be gone by now.
ResolveExistingClaim(r) ==
  LET owner == claim[key(r)].owner IN
  /\ step[r] = "clashed"
  /\ \/ /\ claim[key(r)] = NoClaim
        /\ End(r, "RETRY", None)
     \/ /\ claim[key(r)] # NoClaim
        /\ BodyOf[owner] # BodyOf[r]
        /\ End(r, "OTHER_BODY", None)
     \/ /\ claim[key(r)] # NoClaim
        /\ BodyOf[owner] = BodyOf[r]
        /\ \/ /\ claim[key(r)].status = "COMPLETED"
              /\ End(r, "REPLAY", owner)
           \/ /\ claim[key(r)].status = "IN_PROGRESS"
              /\ End(r, "RETRY", None)
  /\ UNCHANGED <<now, quoteExpires, consumed, claim, claimedAt, booked, forgotten, earlier>>

\* Mutant: a claim that was swept meanwhile does not stop the booking
\* (updateMany instead of update).
MarkCompletedIfThere(r) ==
  claim' = [k \in Keys |->
              IF k = key(r) /\ claim[k].owner = r
              THEN [claim[k] EXCEPT !.status = "COMPLETED"]
              ELSE claim[k]]

\* The update by claim id fails, and the transaction with it, when the row is
\* gone.
MarkCompleted(r) ==
  /\ Owns(r)
  /\ claim' = [claim EXCEPT ![key(r)] = [owner |-> r, status |-> "COMPLETED"]]

\* Mutant: the quote is not marked.
LeaveQuote(r) == UNCHANGED consumed

\* markQuoteConsumed, whatever became of the quote since it was loaded.
MarkQuoteConsumed(r) == consumed' = consumed \cup {quote(r)}

\* createInTransaction: the reservation, the claim and the quote, all or none.
\* The connection may break after the COMMIT, and the caller sees an error.
Commit(r) ==
  /\ step[r] = "claimed"
  /\ MarkCompleted(r)
  /\ booked' = booked \cup {r}
  /\ MarkQuoteConsumed(r)
  /\ \/ End(r, "BOOKED", r)
     \/ step' = [step EXCEPT ![r] = "failed"] /\ UNCHANGED answer
  /\ UNCHANGED <<now, quoteExpires, claimedAt, forgotten, earlier>>

RollBack(r) ==
  /\ step[r] = "claimed"
  /\ step' = [step EXCEPT ![r] = "failed"]
  /\ UNCHANGED <<now, quoteExpires, consumed, claim, answer, claimedAt, booked,
                 forgotten, earlier>>

\* release, best effort: the claim is deleted by its id, whatever its status.
Release(r) ==
  /\ step[r] = "failed"
  /\ End(r, "ERROR", None)
  /\ \/ /\ claim' = [k \in Keys |->
                       IF claim[k].owner = r THEN NoClaim ELSE claim[k]]
        /\ forgotten' = forgotten \cup (booked \cap {r})
     \/ UNCHANGED <<claim, forgotten>>
  /\ UNCHANGED <<now, quoteExpires, consumed, claimedAt, booked, earlier>>

\* The process serving the request dies.
Die(r) ==
  /\ step[r] \in {"loaded", "clashed", "claimed", "failed"}
  /\ End(r, "NOTHING", None)
  /\ UNCHANGED <<now, quoteExpires, consumed, claim, claimedAt, booked, forgotten, earlier>>

-----------------------------------------------------------------------------
(* The clean-up job.                                                       *)

\* Mutants: the sweep looks at the age only; it keeps the claims it should
\* free.
FreeableByAge(k) == claimedAt[claim[k].owner] + StaleClaim < now
FreeableWhileYoung(k) ==
  /\ claim[k] # NoClaim
  /\ IF claim[k].status = "COMPLETED"
     THEN claimedAt[claim[k].owner] + ClaimTTL < now
     ELSE claimedAt[claim[k].owner] + StaleClaim > now

Freeable(k) ==
  \/ /\ claim[k].status = "COMPLETED"
     /\ claimedAt[claim[k].owner] + ClaimTTL < now
  \/ /\ claim[k].status = "IN_PROGRESS"
     /\ claimedAt[claim[k].owner] + StaleClaim < now

Cleanup ==
  /\ \E k \in Keys : claim[k] # NoClaim /\ Freeable(k)
  /\ claim' = [k \in Keys |->
                 IF claim[k] # NoClaim /\ Freeable(k) THEN NoClaim ELSE claim[k]]
  /\ UNCHANGED <<now, quoteExpires, consumed, step, answer, claimedAt, booked,
                 forgotten, earlier>>

-----------------------------------------------------------------------------
Handle(r) ==
  \/ LoadQuote(r)
  \/ Claim(r)
  \/ Clash(r)
  \/ ResolveExistingClaim(r)
  \/ Commit(r)
  \/ RollBack(r)
  \/ Release(r)
  \/ Die(r)

Next ==
  \/ Tick
  \/ \E q \in Quotes : CreateIntent(q)
  \/ \E r \in Requests : Handle(r)
  \/ Cleanup

Spec == Init /\ [][Next]_vars

\* Time passes and the clean-up job keeps running.
FairSpec == Spec /\ WF_vars(Tick) /\ WF_vars(Cleanup)

-----------------------------------------------------------------------------
(* Properties.                                                             *)

\* Type invariant.
TypeOK ==
  /\ now \in Nat
  /\ quoteExpires \in [Quotes -> Nat]
  /\ consumed \subseteq Quotes
  /\ claim \in [Keys -> [owner : Requests, status : {"IN_PROGRESS", "COMPLETED"}]
                          \cup {NoClaim}]
  /\ step \in [Requests -> Steps]
  /\ answer \in [Requests -> [kind : Kinds, booking : Requests \cup {None}]]
  /\ claimedAt \in [Requests -> Nat]
  /\ booked \subseteq Requests
  /\ forgotten \subseteq booked
  /\ earlier \in [Requests -> SUBSET Requests]

\* "A committed booking always has a committed claim pointing at it": until the
\* claim expires, whatever is swept, retried or dies, unless the booking's own
\* request released it after a COMMIT it took for a failure.
BookingKeepsItsClaim ==
  \A r \in booked \ forgotten :
    \/ claim[key(r)] = [owner |-> r, status |-> "COMPLETED"]
    \/ claimedAt[r] + ClaimTTL < now

\* A key books once in the life of a claim, however slow, repeated, swept or
\* interrupted its requests are; the exception is a booking whose claim was
\* released after it had committed.
OneBookingPerKey ==
  \A r, s \in booked :
    r # s /\ KeyOf[r] = KeyOf[s] /\ claimedAt[r] <= claimedAt[s]
      => {r, s} \cap forgotten # {} \/ claimedAt[r] + ClaimTTL < claimedAt[s]

\* What a retry is shown is the booking made for the same key from the same body.
ReplayIsOwnBooking ==
  \A r \in Requests :
    answer[r].kind = "REPLAY"
      => /\ answer[r].booking \in booked
         /\ KeyOf[answer[r].booking] = KeyOf[r]
         /\ BodyOf[answer[r].booking] = BodyOf[r]

\* However requests for a key are retried, interrupted, swept and raced, the user sees
\* a register: nobody books with a key that answers with a booking, until it has been
\* forgotten; a booking is shown only to its own request or to one with the same key
\* and body, while the key answers with it; a request that was turned away has made no
\* booking and makes none later, and the key turns nobody away whom it could show one.
\* It is not said that a retry is shown the booking: one whose response was lost is
\* turned away for the quote its own booking consumed, against
\* test/bookings.idempotency.e2e-spec.ts:94-118.
Register ==
  INSTANCE KeyRegister
    WITH made <- booked,
         register <- [ k \in Keys |-> IF claim[k].status = "COMPLETED"
                                      THEN claim[k].owner ELSE None ],
         shown <- [ r \in Requests |-> answer[r].booking ],
         atTheKey <- { r \in Requests : answer[r].kind \in KeyRefusals },
         atTheQuote <- { r \in Requests : answer[r].kind \in QuoteRefusals }

ImplementsRegister == Register!RegisterSpec

\* A key whose request died comes free again: a claim is not in progress for
\* ever.  (The bound on the clock only leaves out claims made too late in it.)
ClaimsComeFree ==
  \A k \in Keys :
    (claim[k].status = "IN_PROGRESS"
       /\ claimedAt[claim[k].owner] + StaleClaim < MaxTime)
      ~> claim[k].status # "IN_PROGRESS"

\* "This checkout session has already been used": nobody is turned away for a
\* quote that no booking spent, and a quote is spent a second time only by a
\* request that had loaded it before the first booking committed.
QuoteSpentOnce ==
  /\ \A r \in Requests :
       answer[r].kind = "QUOTE_USED" => \E s \in booked : quote(s) = quote(r)
  /\ \A r \in booked : \A s \in earlier[r] : quote(s) # quote(r)
=============================================================================
