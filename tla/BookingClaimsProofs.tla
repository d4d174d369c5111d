------------------------- MODULE BookingClaimsProofs ------------------------
(***************************************************************************)
(* Theorems about BookingClaims.  The invariant says of every claim who    *)
(* made it and that the earlier bookings of its key are out of its way, so *)
(* that a request which still owns its claim may book.  From it follow     *)
(* the properties, and that the claims implement KeyRegister.              *)
(***************************************************************************)
EXTENDS BookingClaims, TLAPS

\* A request that has not come to its transaction has neither booked nor, before
\* it claims, a claim.
NotYetBooked ==
  /\ \A r \in booked : step[r] \in {"failed", "ended"}
  /\ \A k \in Keys : claim[k] # NoClaim
                       => step[claim[k].owner] \in {"claimed", "failed", "ended"}

ClaimsAreTheirOwners ==
  \A k \in Keys :
    claim[k] # NoClaim
      => /\ KeyOf[claim[k].owner] = k
         /\ claim[k].status = "COMPLETED" => claim[k].owner \in booked

\* Whoever owns the claim of a key, the earlier bookings of the key are past their
\* life or forgotten.
OwnerComesLater ==
  \A k \in Keys, r \in booked \ forgotten :
    claim[k] # NoClaim /\ KeyOf[r] = k /\ claim[k].owner # r
      => claimedAt[r] + ClaimTTL < claimedAt[claim[k].owner]

\* The quotes consumed are those of the bookings.  What a request found booked
\* when it loaded its quote stays booked, and had another quote.
QuotesInv ==
  /\ consumed = { quote(r) : r \in booked }
  /\ \A r \in Requests : earlier[r] \subseteq booked
  /\ \A r \in Requests : \A s \in earlier[r] : quote(s) # quote(r)
  /\ \A r \in Requests : answer[r].kind = "QUOTE_USED" => quote(r) \in consumed

ClaimsInv ==
  /\ TypeOK
  /\ NotYetBooked
  /\ ClaimsAreTheirOwners
  /\ OwnerComesLater
  /\ BookingKeepsItsClaim
  /\ OneBookingPerKey
  /\ ReplayIsOwnBooking
  /\ QuotesInv

LEMMA ClaimsTypeStep == TypeOK /\ [Next]_vars => TypeOK'
<1> USE ClaimsAssumption DEF TypeOK, End, Told, Kinds, Steps, NoClaim, key, quote
<1> SUFFICES ASSUME TypeOK, [Next]_vars
             PROVE  TypeOK'
  OBVIOUS
<1>1. CASE Tick
  BY <1>1 DEF Tick
<1>2. ASSUME NEW q \in Quotes, CreateIntent(q)
      PROVE  TypeOK'
  BY <1>2 DEF CreateIntent
<1>3. ASSUME NEW r \in Requests, Handle(r)
      PROVE  TypeOK'
  <2>1. CASE LoadQuote(r)
    <3>1. UNCHANGED <<now, quoteExpires, consumed, claim, claimedAt, booked, forgotten>>
      BY <2>1 DEF LoadQuote
    <3>2. CASE /\ End(r, "QUOTE_USED", None) \/ End(r, "QUOTE_EXPIRED", None)
               /\ UNCHANGED earlier
      BY <3>1, <3>2
    <3>3. CASE /\ step' = [step EXCEPT ![r] = "loaded"]
               /\ earlier' = [earlier EXCEPT ![r] = booked]
               /\ UNCHANGED answer
      BY <3>1, <3>3
    <3> QED  BY <2>1, <3>2, <3>3 DEF LoadQuote
  <2>2. CASE Claim(r)
    BY <2>2 DEF Claim
  <2>3. CASE Clash(r)
    BY <2>3 DEF Clash
  <2>4. CASE ResolveExistingClaim(r)
    BY <2>4, SMTT(30) DEF ResolveExistingClaim
  <2>5. CASE Commit(r)
    <3>1. claim[KeyOf[r]] \in [owner : Requests, status : {"IN_PROGRESS", "COMPLETED"}]
      BY <2>5 DEF Commit, MarkCompleted, Owns
    <3>2. claim' = [claim EXCEPT ![KeyOf[r]] = [owner |-> r, status |-> "COMPLETED"]]
      BY <2>5 DEF Commit, MarkCompleted
    <3>3. UNCHANGED <<now, quoteExpires, claimedAt, forgotten, earlier>>
      BY <2>5 DEF Commit
    <3>4. /\ step' \in [Requests -> Steps]
          /\ answer' \in [Requests -> [kind : Kinds, booking : Requests \cup {None}]]
      <4>1. \/ End(r, "BOOKED", r)
            \/ step' = [step EXCEPT ![r] = "failed"] /\ UNCHANGED answer
        BY <2>5 DEF Commit
      <4>2. CASE End(r, "BOOKED", r)
        BY <4>2
      <4>3. CASE step' = [step EXCEPT ![r] = "failed"] /\ UNCHANGED answer
        BY <4>3
      <4> QED  BY <4>1, <4>2, <4>3
    <3>5. /\ booked' = booked \cup {r}
          /\ consumed' \subseteq Quotes
      BY <2>5 DEF Commit, MarkQuoteConsumed
    <3> QED  BY <3>1, <3>2, <3>3, <3>4, <3>5
  <2>6. CASE RollBack(r)
    BY <2>6 DEF RollBack
  <2>7. CASE Release(r)
    BY <2>7 DEF Release
  <2>8. CASE Die(r)
    BY <2>8 DEF Die
  <2> QED  BY <1>3, <2>1, <2>2, <2>3, <2>4, <2>5, <2>6, <2>7, <2>8 DEF Handle
<1>4. CASE Cleanup
  BY <1>4 DEF Cleanup
<1>5. CASE UNCHANGED vars
  BY <1>5 DEF vars
<1> QED  BY <1>1, <1>2, <1>3, <1>4, <1>5 DEF Next

\* What a request is told changes only when it ends, and it is told of a booking
\* only by the claim of its own key and body.
LEMMA ReplayStep ==
  TypeOK /\ ClaimsAreTheirOwners /\ ReplayIsOwnBooking /\ [Next]_vars
    => ReplayIsOwnBooking'
<1> USE ClaimsAssumption DEF TypeOK, End, Told, Kinds, key
<1> SUFFICES ASSUME TypeOK, ClaimsAreTheirOwners, ReplayIsOwnBooking, [Next]_vars
             PROVE  ReplayIsOwnBooking'
  OBVIOUS
<1>1. booked \subseteq booked'
  BY DEF Next, vars, Tick, CreateIntent, Handle, LoadQuote, Claim, Clash,
         ResolveExistingClaim, Commit, RollBack, Release, Die, Cleanup
<1>2. CASE UNCHANGED answer
  BY <1>1, <1>2 DEF ReplayIsOwnBooking
<1>3. ASSUME NEW r \in Requests, NEW kind \in Kinds \ {"REPLAY"},
             NEW booking \in Requests \cup {None}, End(r, kind, booking)
      PROVE  ReplayIsOwnBooking'
  BY <1>1, <1>3 DEF ReplayIsOwnBooking
<1>4. ASSUME NEW r \in Requests, ResolveExistingClaim(r)
      PROVE  ReplayIsOwnBooking'
  <2>1. CASE End(r, "RETRY", None) \/ End(r, "OTHER_BODY", None)
    BY <1>3, <2>1
  <2>2. CASE /\ claim[KeyOf[r]] # NoClaim
             /\ BodyOf[claim[KeyOf[r]].owner] = BodyOf[r]
             /\ claim[KeyOf[r]].status = "COMPLETED"
             /\ End(r, "REPLAY", claim[KeyOf[r]].owner)
    BY <1>1, <2>2 DEF ReplayIsOwnBooking, ClaimsAreTheirOwners
  <2> QED  BY <1>4, <2>1, <2>2 DEF ResolveExistingClaim
<1>5. ASSUME NEW r \in Requests, Handle(r)
      PROVE  ReplayIsOwnBooking'
  BY <1>2, <1>3, <1>4, <1>5 DEF Handle, LoadQuote, Claim, Clash, Commit, RollBack,
     Release, Die
<1> QED  BY <1>2, <1>5 DEF Next, vars, Tick, CreateIntent, Cleanup

\* Only a commit consumes a quote, and only where it books.
LEMMA QuoteStep ==
  TypeOK /\ QuotesInv /\ [Next]_vars => QuotesInv'
<1> USE ClaimsAssumption DEF TypeOK, End, Told, Kinds, quote
<1> SUFFICES ASSUME TypeOK, QuotesInv, [Next]_vars
             PROVE  QuotesInv'
  OBVIOUS
<1>1. ASSUME UNCHANGED <<consumed, booked, earlier>>,
             \A r \in Requests : answer'[r].kind = "QUOTE_USED"
                                 => answer[r].kind = "QUOTE_USED"
      PROVE  QuotesInv'
  BY <1>1 DEF QuotesInv
<1>2. ASSUME NEW r \in Requests, LoadQuote(r)
      PROVE  QuotesInv'
  <2>1. UNCHANGED <<consumed, booked>>
    BY <1>2 DEF LoadQuote
  <2>2. \A t \in Requests : answer'[t].kind = "QUOTE_USED" =>
          answer[t].kind = "QUOTE_USED" \/ quote(t) \in consumed
    BY <1>2 DEF LoadQuote
  <2>3. CASE UNCHANGED earlier
    BY <2>1, <2>2, <2>3 DEF QuotesInv
  <2>4. CASE quote(r) \notin consumed /\ earlier' = [earlier EXCEPT ![r] = booked]
    <3>1. \A t \in Requests : earlier'[t] = IF t = r THEN booked ELSE earlier[t]
      BY <2>4
    <3>2. \A s \in booked : quote(s) # quote(r)
      BY <2>4 DEF QuotesInv
    <3> QED  BY <2>1, <2>2, <3>1, <3>2 DEF QuotesInv
  <2> QED  BY <1>2, <2>3, <2>4 DEF LoadQuote
<1>3. ASSUME NEW r \in Requests, Commit(r)
      PROVE  QuotesInv'
  <2>1. /\ booked' = booked \cup {r}
        /\ consumed' = consumed \cup {quote(r)}
        /\ UNCHANGED earlier
    BY <1>3 DEF Commit, MarkQuoteConsumed
  <2>2. \A t \in Requests : answer'[t].kind = "QUOTE_USED" => answer[t].kind = "QUOTE_USED"
    <3>1. End(r, "BOOKED", r) \/ UNCHANGED answer
      BY <1>3 DEF Commit
    <3> QED  BY <3>1, SMTT(30)
  <2> QED  BY <2>1, <2>2 DEF QuotesInv
<1>4. ASSUME NEW r \in Requests, Handle(r)
      PROVE  QuotesInv'
  <2>1. CASE Claim(r) \/ Clash(r) \/ ResolveExistingClaim(r)
    BY <1>1, <2>1 DEF Claim, Clash, ResolveExistingClaim
  <2>2. CASE RollBack(r) \/ Release(r) \/ Die(r)
    BY <1>1, <2>2 DEF RollBack, Release, Die
  <2> QED  BY <1>2, <1>3, <1>4, <2>1, <2>2 DEF Handle
<1> QED  BY <1>1, <1>4 DEF Next, vars, Tick, CreateIntent, Cleanup

LEMMA BookingStep ==
  ClaimsInv /\ [Next]_vars
    => /\ NotYetBooked'
       /\ ClaimsAreTheirOwners'
       /\ OwnerComesLater'
       /\ BookingKeepsItsClaim'
       /\ OneBookingPerKey'
<1> DEFINE Goal == /\ NotYetBooked
                   /\ ClaimsAreTheirOwners
                   /\ OwnerComesLater
                   /\ BookingKeepsItsClaim
                   /\ OneBookingPerKey
<1> USE ClaimsAssumption
    DEF TypeOK, NotYetBooked, ClaimsAreTheirOwners, OwnerComesLater,
        BookingKeepsItsClaim, OneBookingPerKey, NoClaim, key
<1> SUFFICES ASSUME ClaimsInv, [Next]_vars, TypeOK'
             PROVE  Goal'
  BY ClaimsTypeStep DEF ClaimsInv
<1> USE DEF ClaimsInv
<1>1. CASE UNCHANGED <<claim, claimedAt, booked, forgotten>> /\ now' >= now
           /\ \A r \in Requests :
                step[r] \in {"claimed", "failed", "ended"} =>
                  \/ step'[r] = step[r]
                  \/ step'[r] \in {"failed", "ended"}
  BY <1>1
<1>2. ASSUME NEW r \in Requests, Claim(r)
      PROVE  Goal'
  <2>1. /\ step[r] = "loaded"
        /\ claim[KeyOf[r]] = NoClaim
        /\ claim' = [claim EXCEPT ![KeyOf[r]] = [owner |-> r, status |-> "IN_PROGRESS"]]
        /\ claimedAt' = [claimedAt EXCEPT ![r] = now]
        /\ step' = [step EXCEPT ![r] = "claimed"]
        /\ UNCHANGED <<now, booked, forgotten>>
    BY <1>2 DEF Claim
  <2>2. r \notin booked
    BY <2>1
  <2>3. /\ NotYetBooked'
        /\ ClaimsAreTheirOwners'
    BY <2>1, <2>2
  <2>4. \A s \in booked : claimedAt'[s] = claimedAt[s]
    BY <2>1, <2>2
  <2>5. \A k \in Keys : claim[k] # NoClaim =>
          claimedAt'[claim[k].owner] = claimedAt[claim[k].owner]
    BY <2>1
  <2>6. \A s \in booked \ forgotten :
          KeyOf[s] = KeyOf[r] => claimedAt[s] + ClaimTTL < now
    <3>1. ASSUME NEW s \in booked \ forgotten, KeyOf[s] = KeyOf[r]
          PROVE  claimedAt[s] + ClaimTTL < now
      <4>1. claim[KeyOf[s]] # [owner |-> s, status |-> "COMPLETED"]
        BY <2>1, <3>1
      <4> QED  BY <3>1, <4>1
    <3> QED  BY <3>1
  <2>7. OwnerComesLater'
    BY <2>1, <2>4, <2>5, <2>6
  <2>8. BookingKeepsItsClaim' /\ OneBookingPerKey'
    BY <2>1, <2>2, <2>4, <2>6
  <2> QED  BY <2>3, <2>7, <2>8
<1>3. ASSUME NEW r \in Requests, Commit(r)
      PROVE  Goal'
  <2>1. /\ step[r] = "claimed"
        /\ claim[KeyOf[r]].owner = r
        /\ claim' = [claim EXCEPT ![KeyOf[r]] = [owner |-> r, status |-> "COMPLETED"]]
        /\ booked' = booked \cup {r}
        /\ step' \in {[step EXCEPT ![r] = "ended"], [step EXCEPT ![r] = "failed"]}
        /\ UNCHANGED <<now, claimedAt, forgotten>>
    BY <1>3 DEF Commit, MarkCompleted, Owns, End
  <2>2. claim[KeyOf[r]] # NoClaim
    BY <2>1
  <2>3. \A k \in Keys : /\ claim'[k].owner = claim[k].owner
                        /\ k # KeyOf[r] => claim'[k] = claim[k]
                        /\ claim'[k] = NoClaim <=> claim[k] = NoClaim
    BY <2>1, <2>2
  <2>4. claim'[KeyOf[r]] = [owner |-> r, status |-> "COMPLETED"]
    BY <2>1, <2>2
  <2>5. NotYetBooked' /\ ClaimsAreTheirOwners' /\ BookingKeepsItsClaim'
    <3>1. NotYetBooked'
      BY <2>1, <2>2, <2>3, <2>4
    <3>2. ClaimsAreTheirOwners'
      <4>1. ASSUME NEW k \in Keys, claim'[k] # NoClaim, k # KeyOf[r]
            PROVE  /\ KeyOf[claim'[k].owner] = k
                   /\ claim'[k].status = "COMPLETED" => claim'[k].owner \in booked'
        BY <2>1, <2>3, <4>1
      <4>2. claim'[KeyOf[r]].owner = r /\ r \in booked'
        BY <2>1, <2>4
      <4> QED  BY <4>1, <4>2
    <3>3. ASSUME NEW s \in booked' \ forgotten', ~(claimedAt'[s] + ClaimTTL < now')
          PROVE  claim'[KeyOf[s]] = [owner |-> s, status |-> "COMPLETED"]
      <4>1. CASE s = r
        BY <2>4, <4>1
      <4>2. CASE s # r
        <5>1. claim[KeyOf[s]] = [owner |-> s, status |-> "COMPLETED"]
          BY <2>1, <3>3, <4>2
        <5>2. KeyOf[s] # KeyOf[r]
          BY <2>1, <4>2, <5>1
        <5>3. KeyOf[s] \in Keys
          BY <3>3
        <5> QED  BY <2>3, <5>1, <5>2, <5>3
      <4> QED  BY <4>1, <4>2
    <3> QED  BY <3>1, <3>2, <3>3
  <2>6. \A k \in Keys : claim[k] # NoClaim /\ KeyOf[r] = k => claim[k].owner = r
    BY <2>1
  <2>7. OwnerComesLater'
    BY <2>1, <2>3, <2>6
  <2>8. \A s \in booked \ forgotten :
          s # r /\ KeyOf[s] = KeyOf[r] => claimedAt[s] + ClaimTTL < claimedAt[r]
    BY <2>1, <2>2
  <2>9. OneBookingPerKey'
    <3>1. ASSUME NEW s \in booked', NEW t \in booked', s # t, KeyOf[s] = KeyOf[t],
                 claimedAt[s] <= claimedAt[t], {s, t} \cap forgotten = {}
          PROVE  claimedAt[s] + ClaimTTL < claimedAt[t]
      <4>1. CASE s \in booked /\ t \in booked
        BY <3>1, <4>1
      <4>2. CASE t = r
        BY <2>1, <2>8, <3>1, <4>2
      <4>3. CASE s = r
        <5>1. t \in booked \ forgotten
          BY <2>1, <3>1, <4>3
        <5>2. claimedAt[t] + ClaimTTL < claimedAt[r]
          BY <2>8, <3>1, <4>3, <5>1
        <5> QED  BY <3>1, <4>3, <5>1, <5>2
      <4> QED  BY <2>1, <3>1, <4>1, <4>2, <4>3
    <3> QED  BY <2>1, <3>1
  <2> QED  BY <2>5, <2>7, <2>9
<1>4. ASSUME NEW r \in Requests, Release(r)
      PROVE  Goal'
  <2>1. /\ step[r] = "failed"
        /\ step' = [step EXCEPT ![r] = "ended"]
        /\ UNCHANGED <<now, claimedAt, booked>>
    BY <1>4 DEF Release, End
  <2>2. CASE UNCHANGED <<claim, forgotten>>
    <3>1. /\ UNCHANGED <<claim, claimedAt, booked, forgotten>>
          /\ now' >= now
      BY <2>1, <2>2
    <3>2. \A q \in Requests : step'[q] = step[q] \/ step'[q] = "ended"
      BY <2>1
    <3> HIDE DEF Goal
    <3> QED  BY <1>1, <3>1, <3>2
  <2>3. CASE /\ claim' = [k \in Keys |->
                         IF claim[k].owner = r THEN NoClaim ELSE claim[k]]
             /\ forgotten' = forgotten \cup (booked \cap {r})
    <3>1. \A k \in Keys : \/ claim'[k] = NoClaim
                          \/ claim'[k] = claim[k] /\ claim[k].owner # r
      BY <2>3
    <3>2. \A s \in booked' \ forgotten' : s \in booked \ forgotten /\ s # r
      BY <2>1, <2>3
    <3>3. NotYetBooked' /\ ClaimsAreTheirOwners'
      BY <2>1, <3>1
    <3>4. OwnerComesLater'
      BY <2>1, <3>1, <3>2
    <3>5. BookingKeepsItsClaim'
      <4>1. ASSUME NEW s \in booked' \ forgotten',
                   claim[KeyOf[s]] = [owner |-> s, status |-> "COMPLETED"]
            PROVE  claim'[KeyOf[s]] = claim[KeyOf[s]]
        BY <2>1, <2>3, <3>2, <4>1
      <4> QED  BY <2>1, <3>2, <4>1
    <3>6. OneBookingPerKey'
      <4>1. forgotten \subseteq forgotten'
        BY <2>3
      <4> QED  BY <2>1, <4>1
    <3> QED  BY <3>3, <3>4, <3>5, <3>6
  <2> QED  BY <1>4, <2>2, <2>3 DEF Release
<1>5. CASE Cleanup
  <2>1. /\ UNCHANGED <<now, claimedAt, booked, forgotten, step>>
        /\ \A k \in Keys : claim'[k] = claim[k] \/ (Freeable(k) /\ claim'[k] = NoClaim)
    BY <1>5 DEF Cleanup
  <2>2. NotYetBooked' /\ ClaimsAreTheirOwners'
    BY <2>1
  <2>3. OwnerComesLater' /\ OneBookingPerKey'
    BY <2>1
  <2>4. BookingKeepsItsClaim'
    <3> SUFFICES ASSUME NEW s \in booked \ forgotten, ~(claimedAt[s] + ClaimTTL < now)
                 PROVE  claim'[KeyOf[s]] = [owner |-> s, status |-> "COMPLETED"]
      BY <2>1
    <3>1. claim[KeyOf[s]] = [owner |-> s, status |-> "COMPLETED"] /\ KeyOf[s] \in Keys
      OBVIOUS
    <3>2. ~Freeable(KeyOf[s])
      BY <3>1 DEF Freeable
    <3> QED  BY <2>1, <3>1, <3>2
  <2> QED  BY <2>2, <2>3, <2>4
<1>6. ASSUME NEW r \in Requests, Handle(r)
      PROVE  Goal'
  <2>1. CASE LoadQuote(r) \/ Clash(r) \/ ResolveExistingClaim(r)
    <3>1. /\ UNCHANGED <<now, claim, claimedAt, booked, forgotten>>
          /\ step[r] \notin {"claimed", "failed", "ended"}
      BY <2>1 DEF LoadQuote, Clash, ResolveExistingClaim
    <3>2. \A q \in Requests : q # r => step'[q] = step[q]
      BY <2>1 DEF LoadQuote, Clash, ResolveExistingClaim, End
    <3> HIDE DEF Goal
    <3> QED  BY <1>1, <3>1, <3>2
  <2>2. CASE RollBack(r) \/ Die(r)
    BY <1>1, <2>2 DEF RollBack, Die, End
  <2> QED  BY <1>2, <1>3, <1>4, <1>6, <2>1, <2>2 DEF Handle
<1> QED  BY <1>1, <1>5, <1>6 DEF Next, vars, Tick, CreateIntent

LEMMA ClaimsCorrect == Spec => []ClaimsInv
<1>1. Init => ClaimsInv
  BY ClaimsAssumption
  DEF Init, ClaimsInv, TypeOK, NotYetBooked, ClaimsAreTheirOwners,
      OwnerComesLater, BookingKeepsItsClaim, OneBookingPerKey,
      ReplayIsOwnBooking, QuotesInv, NoClaim, Told, Kinds, Steps
<1>2. ClaimsInv /\ [Next]_vars => ClaimsInv'
  BY ClaimsTypeStep, BookingStep, ReplayStep, QuoteStep DEF ClaimsInv
<1> QED  BY <1>1, <1>2, PTL DEF Spec

\* For any requests, retries, crashes and clean-ups: a booking keeps its claim for
\* the life of the claim, unless its own request released it.
THEOREM BookingsKeepTheirClaims == Spec => []BookingKeepsItsClaim
BY ClaimsCorrect, PTL DEF ClaimsInv

\* A key books once in the life of its claim (with the same exception), though the
\* clean-up job may delete the claim of a request that is still at work.
THEOREM KeysBookOnce == Spec => []OneBookingPerKey
BY ClaimsCorrect, PTL DEF ClaimsInv

\* A replay shows the booking of the same key and the same body.
THEOREM ReplaysShowTheirOwnBooking == Spec => []ReplayIsOwnBooking
BY ClaimsCorrect, PTL DEF ClaimsInv

\* A quote is spent a second time only by a request that had loaded it before, and
\* nobody is turned away for a quote that was not spent.
THEOREM QuotesAreSpentOnce == Spec => []QuoteSpentOnce
<1>1. ClaimsInv => QuoteSpentOnce
  BY DEF ClaimsInv, QuotesInv, QuoteSpentOnce, TypeOK, quote
<1> QED  BY ClaimsCorrect, <1>1, PTL

-----------------------------------------------------------------------------
(* The refinement of KeyRegister, and what KeyRegister promises.           *)

\* Nobody has been told anything before the end of the request.
Untold == \A r \in Requests : step[r] # "ended" => answer[r] = Told("NOTHING", None)

LEMMA UntoldStep == TypeOK /\ Untold /\ [Next]_vars => Untold'
<1> USE DEF TypeOK, Untold, End, Told
<1> SUFFICES ASSUME TypeOK, Untold, [Next]_vars
             PROVE  Untold'
  OBVIOUS
<1>1. CASE UNCHANGED <<step, answer>>
  BY <1>1
<1>2. ASSUME NEW r \in Requests, Handle(r)
      PROVE  Untold'
  BY <1>2 DEF Handle, LoadQuote, Claim, Clash, ResolveExistingClaim, Commit, RollBack,
     Release, Die
<1> QED  BY <1>1, <1>2 DEF Next, vars, Tick, CreateIntent, Cleanup

LEMMA UntoldHolds == Spec => [](ClaimsInv /\ Untold)
<1>1. Init => Untold
  BY DEF Init, Untold, Told
<1>2. ClaimsInv /\ Untold /\ [Next]_vars => Untold'
  BY UntoldStep DEF ClaimsInv
<1> QED  BY <1>1, <1>2, ClaimsCorrect, PTL DEF Spec

\* The booking a key answers with, the booking a request was shown, and whether and
\* by whom it was turned away.
Answering(k) == IF claim[k].status = "COMPLETED" THEN claim[k].owner ELSE None
ShownTo(r) == answer[r].booking
RefusedAtKey(r) == answer[r].kind \in KeyRefusals
RefusedAtQuote(r) == answer[r].kind \in QuoteRefusals
Refused(r) == <<RefusedAtKey(r), RefusedAtQuote(r)>>

\* A step that tells nobody anything.
LEMMA NobodyTold ==
  ASSUME UNCHANGED answer
  PROVE  /\ \A r \in Requests : ShownTo(r)' = ShownTo(r)
         /\ \A r \in Requests : Refused(r)' = Refused(r)
BY DEF ShownTo, Refused, RefusedAtKey, RefusedAtQuote

\* Who was turned away stays who was turned away.
LEMMA RefusalsKept ==
  ASSUME \A r \in Requests : Refused(r)' = Refused(r)
  PROVE  /\ { r \in Requests : RefusedAtKey(r)' } = { r \in Requests : RefusedAtKey(r) }
         /\ { r \in Requests : RefusedAtQuote(r)' } = { r \in Requests : RefusedAtQuote(r) }
<1>1. \A r \in Requests : /\ RefusedAtKey(r)' = RefusedAtKey(r)
                          /\ RefusedAtQuote(r)' = RefusedAtQuote(r)
  BY DEF Refused
<1> QED  BY <1>1

LEMMA RefusalsSame ==
  ASSUME { r \in Requests : RefusedAtKey(r)' } = { r \in Requests : RefusedAtKey(r) },
         { r \in Requests : RefusedAtQuote(r)' } = { r \in Requests : RefusedAtQuote(r) }
  PROVE  \A r \in Requests : /\ RefusedAtKey(r)' <=> RefusedAtKey(r)
                             /\ RefusedAtQuote(r)' <=> RefusedAtQuote(r)
<1> QED  OBVIOUS

\* A step that writes nothing of the register's.
LEMMA RegisterStutters ==
  ASSUME UNCHANGED booked, \A k \in Keys : Answering(k)' = Answering(k),
         \A r \in Requests : ShownTo(r)' = ShownTo(r),
         \A r \in Requests : Refused(r)' = Refused(r)
  PROVE  UNCHANGED Register!registerVars
BY RefusalsKept DEF Register!registerVars, Answering, ShownTo, RefusedAtKey, RefusedAtQuote

\* A step that only deletes claims.
LEMMA RegisterForgets ==
  ASSUME NEW gone \in SUBSET Keys, UNCHANGED booked,
         claim' = [k \in Keys |-> IF k \in gone THEN NoClaim ELSE claim[k]],
         \A r \in Requests : ShownTo(r)' = ShownTo(r),
         \A r \in Requests : Refused(r)' = Refused(r)
  PROVE  Register!RegisterNext
<1>1. \A k \in Keys : Answering(k)' = IF k \in gone THEN None ELSE Answering(k)
  BY DEF Answering, NoClaim
<1>2. Register!Forget(gone)
  BY <1>1, RefusalsKept
     DEF Register!Forget, Answering, ShownTo, RefusedAtKey, RefusedAtQuote
<1> QED  BY <1>2 DEF Register!RegisterNext

\* A request that ends with a refusal.
LEMMA RegisterTurnsAway ==
  ASSUME ClaimsInv, Untold, UNCHANGED <<claim, booked>>,
         NEW r \in Requests, r \notin booked, step[r] # "ended",
         NEW kind \in KeyRefusals \cup QuoteRefusals, End(r, kind, None),
         kind \in KeyRefusals
           => \/ Answering(KeyOf[r]) = None
              \/ BodyOf[Answering(KeyOf[r])] # BodyOf[r]
  PROVE  Register!RegisterNext
<1> USE DEF KeyRefusals, QuoteRefusals
<1>1. answer \in [Requests -> [kind : Kinds, booking : Requests \cup {None}]]
  BY DEF ClaimsInv, TypeOK
<1>2. answer[r] = Told("NOTHING", None)
  BY DEF Untold
<1>3. \A t \in Requests : ShownTo(t)' = ShownTo(t)
  BY <1>1, <1>2 DEF End, Told, ShownTo
<1>4. ShownTo(r) = None /\ ~RefusedAtKey(r) /\ ~RefusedAtQuote(r)
  BY <1>2 DEF Told, ShownTo, RefusedAtKey, RefusedAtQuote
<1>5. KeyOf[r] \in Keys
  BY ClaimsAssumption
<1>6. CASE kind \in KeyRefusals
  <2>1. /\ \A t \in Requests : RefusedAtKey(t)' <=> (RefusedAtKey(t) \/ t = r)
        /\ \A t \in Requests : RefusedAtQuote(t)' <=> RefusedAtQuote(t)
    BY <1>1, <1>4, <1>6 DEF End, Told, RefusedAtKey, RefusedAtQuote
  <2>2. /\ { t \in Requests : RefusedAtKey(t)' } = { t \in Requests : RefusedAtKey(t) } \cup {r}
        /\ { t \in Requests : RefusedAtQuote(t)' } = { t \in Requests : RefusedAtQuote(t) }
    BY <2>1
  <2>3. Register!TurnAwayAtTheKey(r)
    BY <1>3, <1>4, <1>5, <1>6, <2>2
       DEF Register!TurnAwayAtTheKey, Register!Unanswered, Register!turnedAway, Answering,
           ShownTo, RefusedAtKey, RefusedAtQuote
  <2> QED  BY <2>3 DEF Register!RegisterNext
<1>7. CASE kind \in QuoteRefusals
  <2>1. /\ \A t \in Requests : RefusedAtQuote(t)' <=> (RefusedAtQuote(t) \/ t = r)
        /\ \A t \in Requests : RefusedAtKey(t)' <=> RefusedAtKey(t)
    BY <1>1, <1>4, <1>7 DEF End, Told, RefusedAtKey, RefusedAtQuote
  <2>2. /\ { t \in Requests : RefusedAtQuote(t)' } = { t \in Requests : RefusedAtQuote(t) } \cup {r}
        /\ { t \in Requests : RefusedAtKey(t)' } = { t \in Requests : RefusedAtKey(t) }
    BY <2>1
  <2>3. Register!TurnAwayAtTheQuote(r)
    BY <1>3, <1>4, <2>2
       DEF Register!TurnAwayAtTheQuote, Register!Unanswered, Register!turnedAway, Answering,
           ShownTo, RefusedAtKey, RefusedAtQuote
  <2> QED  BY <2>3 DEF Register!RegisterNext
<1> QED  BY <1>6, <1>7

LEMMA RegisterSteps ==
  ASSUME ClaimsInv, Untold, [Next]_vars
  PROVE  [Register!RegisterNext]_(Register!registerVars)
<1> DEFINE Goal == [Register!RegisterNext]_(Register!registerVars)
<1>0. /\ TypeOK /\ NotYetBooked /\ ClaimsAreTheirOwners
      /\ None \notin Requests
      /\ claim \in [Keys -> [owner : Requests, status : {"IN_PROGRESS", "COMPLETED"}]
                              \cup {NoClaim}]
      /\ answer \in [Requests -> [kind : Kinds, booking : Requests \cup {None}]]
      /\ step \in [Requests -> Steps]
      /\ KeyOf \in [Requests -> Keys]
  BY ClaimsAssumption DEF ClaimsInv, TypeOK
<1>1. CASE UNCHANGED <<claim, answer, booked>>
  <2>1. UNCHANGED Register!registerVars
    BY <1>1, NobodyTold, RegisterStutters DEF Answering
  <2> QED  BY <2>1
<1>2. ASSUME NEW r \in Requests, step[r] # "ended",
             NEW kind \in {"NOTHING", "ERROR"}, End(r, kind, None)
      PROVE  /\ \A t \in Requests : ShownTo(t)' = ShownTo(t)
             /\ \A t \in Requests : Refused(t)' = Refused(t)
  <2>1. answer[r] = Told("NOTHING", None)
    BY <1>2 DEF Untold
  <2> QED  BY <1>0, <1>2, <2>1 DEF End, Told, ShownTo, Refused, RefusedAtKey, RefusedAtQuote,
         KeyRefusals, QuoteRefusals
<1>3. ASSUME NEW r \in Requests, LoadQuote(r) \/ Die(r)
      PROVE  Goal
  <2>1. step[r] # "ended" /\ UNCHANGED <<claim, booked>>
    BY <1>3 DEF LoadQuote, Die
  <2>2. CASE UNCHANGED answer
    BY <1>1, <2>1, <2>2
  <2>3. CASE step[r] = "new" /\ \E kind \in QuoteRefusals : End(r, kind, None)
    <3>1. r \notin booked
      BY <2>3 DEF ClaimsInv, NotYetBooked
    <3>2. KeyRefusals \cap QuoteRefusals = {}
      BY DEF KeyRefusals, QuoteRefusals
    <3> QED  BY <2>1, <2>3, <3>1, <3>2, RegisterTurnsAway
  <2>4. CASE End(r, "NOTHING", None)
    <3>1. /\ \A t \in Requests : ShownTo(t)' = ShownTo(t)
          /\ \A t \in Requests : Refused(t)' = Refused(t)
      BY <1>2, <2>1, <2>4
    <3>2. UNCHANGED Register!registerVars
      BY <2>1, <3>1, RegisterStutters DEF Answering
    <3> QED  BY <3>2
  <2> QED  BY <1>3, <2>2, <2>3, <2>4 DEF LoadQuote, Die, QuoteRefusals
<1>4. ASSUME NEW r \in Requests, Claim(r)
      PROVE  Goal
  <2>1. UNCHANGED <<booked, answer>>
    BY <1>4 DEF Claim
  <2>2. \A k \in Keys : Answering(k)' = Answering(k)
    BY <1>0, <1>4 DEF Claim, Answering, NoClaim, key
  <2>3. UNCHANGED Register!registerVars
    BY <2>1, <2>2, NobodyTold, RegisterStutters
  <2> QED  BY <2>3
<1>5. ASSUME NEW r \in Requests, ResolveExistingClaim(r)
      PROVE  Goal
  <2> DEFINE owner == claim[key(r)].owner
  <2>1. step[r] = "clashed" /\ UNCHANGED <<claim, booked>>
    BY <1>5 DEF ResolveExistingClaim
  <2>2. CASE /\ End(r, "RETRY", None) \/ End(r, "OTHER_BODY", None)
             /\ \/ claim[key(r)].status # "COMPLETED"
                \/ BodyOf[owner] # BodyOf[r]
    <3>1. r \notin booked /\ step[r] # "ended"
      BY <2>1 DEF ClaimsInv, NotYetBooked
    <3>2. Answering(KeyOf[r]) = None \/ BodyOf[Answering(KeyOf[r])] # BodyOf[r]
      BY <2>2 DEF Answering, key
    <3>3. "RETRY" \in KeyRefusals /\ "OTHER_BODY" \in KeyRefusals
      BY DEF KeyRefusals
    <3> QED  BY <2>1, <2>2, <3>1, <3>2, <3>3, RegisterTurnsAway
  <2>3. CASE /\ claim[key(r)] # NoClaim
             /\ BodyOf[owner] = BodyOf[r]
             /\ claim[key(r)].status = "COMPLETED"
             /\ End(r, "REPLAY", owner)
    <3>1. r \notin booked /\ ShownTo(r) = None /\ ~RefusedAtKey(r) /\ ~RefusedAtQuote(r)
      BY <2>1 DEF ClaimsInv, NotYetBooked, Untold, Told, ShownTo, Refused, RefusedAtKey, RefusedAtQuote,
         KeyRefusals, QuoteRefusals
    <3>2. Answering(KeyOf[r]) = owner /\ owner \in Requests
      BY <1>0, <2>3 DEF Answering, key
    <3>3. \A t \in Requests : ShownTo(t)' = IF t = r THEN owner ELSE ShownTo(t)
      BY <1>0, <2>3 DEF End, Told, ShownTo
    <3>4. \A t \in Requests : Refused(t)' = Refused(t)
      BY <1>0, <2>3, <3>1 DEF End, Told, Refused, RefusedAtKey, RefusedAtQuote,
         KeyRefusals, QuoteRefusals
    <3>5. Register!Replay(r)
      BY <1>0, <2>1, <2>3, <3>1, <3>2, <3>3, <3>4
         DEF Register!Replay, Register!Unanswered, Register!turnedAway,
             Answering, ShownTo, Refused, RefusedAtKey, RefusedAtQuote
    <3> QED  BY <3>5 DEF Register!RegisterNext
  <2> QED  BY <1>5, <2>2, <2>3 DEF ResolveExistingClaim, NoClaim
<1>6. ASSUME NEW r \in Requests, Commit(r)
      PROVE  Goal
  <2>1. /\ step[r] = "claimed"
        /\ claim[key(r)].owner = r
        /\ claim' = [claim EXCEPT ![key(r)] = [owner |-> r, status |-> "COMPLETED"]]
        /\ booked' = booked \cup {r}
        /\ End(r, "BOOKED", r) \/ UNCHANGED answer
    BY <1>6 DEF Commit, MarkCompleted, Owns
  <2>2. r \notin booked /\ ShownTo(r) = None /\ ~RefusedAtKey(r) /\ ~RefusedAtQuote(r)
    BY <2>1 DEF ClaimsInv, NotYetBooked, Untold, Told, ShownTo, Refused, RefusedAtKey, RefusedAtQuote,
         KeyRefusals, QuoteRefusals
  <2>3. Answering(KeyOf[r]) = None
    BY <1>0, <2>1, <2>2 DEF ClaimsAreTheirOwners, Answering, key, NoClaim
  <2>4. \A k \in Keys : Answering(k)' = IF k = KeyOf[r] THEN r ELSE Answering(k)
    BY <1>0, <2>1 DEF Answering, key
  <2>5. \/ \A t \in Requests : ShownTo(t)' = IF t = r THEN r ELSE ShownTo(t)
        \/ \A t \in Requests : ShownTo(t)' = ShownTo(t)
    BY <1>0, <2>1 DEF End, Told, ShownTo
  <2>6. \A t \in Requests : Refused(t)' = Refused(t)
    BY <1>0, <2>1, <2>2 DEF End, Told, Refused, RefusedAtKey, RefusedAtQuote,
         KeyRefusals, QuoteRefusals
  <2>7. Register!Book(r)
    BY <1>0, <2>1, <2>2, <2>3, <2>4, <2>5, <2>6
       DEF Register!Book, Register!Unanswered, Register!turnedAway,
             Answering, ShownTo, Refused, RefusedAtKey, RefusedAtQuote
  <2> QED  BY <2>7 DEF Register!RegisterNext
<1>7. ASSUME NEW r \in Requests, Release(r)
      PROVE  Goal
  <2>1. /\ \A t \in Requests : ShownTo(t)' = ShownTo(t)
        /\ \A t \in Requests : Refused(t)' = Refused(t)
    BY <1>2, <1>7 DEF Release
  <2>2. CASE UNCHANGED claim
    <3>1. UNCHANGED Register!registerVars
      BY <1>7, <2>1, <2>2, RegisterStutters DEF Answering, Release
    <3> QED  BY <3>1
  <2>3. CASE claim' = [k \in Keys |-> IF claim[k].owner = r THEN NoClaim ELSE claim[k]]
    <3> DEFINE gone == { k \in Keys : claim[k].owner = r }
    <3>1. claim' = [k \in Keys |-> IF k \in gone THEN NoClaim ELSE claim[k]]
      BY <2>3
    <3>2. gone \in SUBSET Keys /\ UNCHANGED booked
      BY <1>7 DEF Release
    <3> QED  BY <2>1, <3>1, <3>2, RegisterForgets
  <2> QED  BY <1>7, <2>2, <2>3 DEF Release
<1>8. CASE Cleanup
  <2> DEFINE gone == { k \in Keys : claim[k] # NoClaim /\ Freeable(k) }
  <2>1. claim' = [k \in Keys |-> IF k \in gone THEN NoClaim ELSE claim[k]]
    BY <1>8 DEF Cleanup
  <2>2. gone \in SUBSET Keys /\ UNCHANGED <<booked, answer>>
    BY <1>8 DEF Cleanup
  <2> QED  BY <2>1, <2>2, NobodyTold, RegisterForgets
<1>9. CASE \E r \in Requests : Clash(r) \/ RollBack(r)
  BY <1>1, <1>9 DEF Clash, RollBack
<1>10. CASE Tick \/ (\E q \in Quotes : CreateIntent(q)) \/ UNCHANGED vars
  BY <1>1, <1>10 DEF Tick, CreateIntent, vars
<1> QED  BY <1>3, <1>4, <1>5, <1>6, <1>7, <1>8, <1>9, <1>10 DEF Next, Handle

\* Every behaviour of requests, retries, crashes, broken connections and clean-ups is
\* one of the register.
THEOREM RegisterImplemented == Spec => ImplementsRegister
<1>1. Init => Register!RegisterInit
  BY DEF Init, Register!RegisterInit, NoClaim, Told, KeyRefusals, QuoteRefusals
<1> QED  BY <1>1, RegisterSteps, UntoldHolds, PTL
         DEF Spec, ImplementsRegister, Register!RegisterSpec

\* The register's words, in those of the bookings.
AnsweredTruly ==
  /\ \A k \in Keys : Answering(k) # None => Answering(k) \in booked /\ KeyOf[Answering(k)] = k
  /\ \A r \in Requests :
       ShownTo(r) # None
         => /\ ShownTo(r) \in booked
            /\ KeyOf[ShownTo(r)] = KeyOf[r]
            /\ BodyOf[ShownTo(r)] = BodyOf[r]
            /\ r \in booked => ShownTo(r) = r
  /\ \A r \in Requests : RefusedAtKey(r) \/ RefusedAtQuote(r) => r \notin booked

LEMMA RegisterWords ==
  /\ Register!AnswersAreTrue <=> AnsweredTruly
  /\ Register!AnswersAreTrue' <=> AnsweredTruly'
BY DEF Register!AnswersAreTrue, Register!turnedAway, AnsweredTruly, Answering, ShownTo,
       RefusedAtKey, RefusedAtQuote

\* In the register, a key answers with a booking made with it, and nobody is shown a
\* booking but their own or one made for their key from their body, and who was turned
\* away has none.
THEOREM RegisterCorrect == Register!RegisterSpec => []Register!AnswersAreTrue
<1>1. Register!RegisterInit => Register!AnswersAreTrue
  BY DEF Register!RegisterInit, Register!AnswersAreTrue
<1>2. Register!AnswersAreTrue /\ [Register!RegisterNext]_(Register!registerVars)
        => Register!AnswersAreTrue'
  <2> SUFFICES ASSUME AnsweredTruly, [Register!RegisterNext]_(Register!registerVars)
               PROVE  AnsweredTruly'
    BY RegisterWords
  <2>0. KeyOf \in [Requests -> Keys] /\ None \notin Requests
    BY ClaimsAssumption
  <2>1. ASSUME NEW r \in Requests, Register!Book(r)
        PROVE  AnsweredTruly'
    <3>1. r \notin booked /\ ShownTo(r) = None /\ Answering(KeyOf[r]) = None
      BY <2>0, <2>1 DEF Register!Book, Register!Unanswered, Answering, ShownTo
    <3>6. ~RefusedAtKey(r) /\ ~RefusedAtQuote(r)
      BY <2>1 DEF Register!Book, Register!Unanswered, Register!turnedAway,
                  RefusedAtKey, RefusedAtQuote
    <3>2. booked' = booked \cup {r}
      BY <2>1 DEF Register!Book
    <3>3. \A k \in Keys : Answering(k)' = IF k = KeyOf[r] THEN r ELSE Answering(k)
      BY <2>0, <2>1 DEF Register!Book, Answering
    <3>4. \/ \A t \in Requests : ShownTo(t)' = IF t = r THEN r ELSE ShownTo(t)
          \/ \A t \in Requests : ShownTo(t)' = ShownTo(t)
      BY <2>1 DEF Register!Book, ShownTo
    <3>5. \A t \in Requests : /\ RefusedAtKey(t)' <=> RefusedAtKey(t)
                              /\ RefusedAtQuote(t)' <=> RefusedAtQuote(t)
      <4>1. /\ { t \in Requests : RefusedAtKey(t)' } = { t \in Requests : RefusedAtKey(t) }
            /\ { t \in Requests : RefusedAtQuote(t)' }
                 = { t \in Requests : RefusedAtQuote(t) }
        BY <2>1 DEF Register!Book, RefusedAtKey, RefusedAtQuote
      <4> QED  BY <4>1, RefusalsSame
    <3>7. \A t \in Requests : RefusedAtKey(t)' \/ RefusedAtQuote(t)' => t \notin booked'
      BY <3>2, <3>5, <3>6 DEF AnsweredTruly
    <3>8. /\ \A k \in Keys : Answering(k)' # None
                              => Answering(k)' \in booked' /\ KeyOf[Answering(k)'] = k
          /\ \A t \in Requests :
               ShownTo(t)' # None
                 => /\ ShownTo(t)' \in booked'
                    /\ KeyOf[ShownTo(t)'] = KeyOf[t]
                    /\ BodyOf[ShownTo(t)'] = BodyOf[t]
                    /\ t \in booked' => ShownTo(t)' = t
      BY <2>0, <3>1, <3>2, <3>3, <3>4 DEF AnsweredTruly
    <3> QED  BY <3>7, <3>8 DEF AnsweredTruly
  <2>2. ASSUME NEW r \in Requests, Register!Replay(r)
        PROVE  AnsweredTruly'
    <3> DEFINE booking == Answering(KeyOf[r])
    <3>1. /\ r \notin booked
          /\ booking # None
          /\ BodyOf[booking] = BodyOf[r]
          /\ UNCHANGED booked
      BY <2>0, <2>2 DEF Register!Replay, Answering
    <3>2. \A k \in Keys : Answering(k)' = Answering(k)
      BY <2>2 DEF Register!Replay, Answering
    <3>3. \A t \in Requests : ShownTo(t)' = IF t = r THEN booking ELSE ShownTo(t)
      BY <2>0, <2>2 DEF Register!Replay, ShownTo, Answering
    <3>4. \A t \in Requests : /\ RefusedAtKey(t)' <=> RefusedAtKey(t)
                              /\ RefusedAtQuote(t)' <=> RefusedAtQuote(t)
      BY <2>2 DEF Register!Replay, RefusedAtKey, RefusedAtQuote
    <3>5. /\ \A k \in Keys : Answering(k)' # None
                              => Answering(k)' \in booked' /\ KeyOf[Answering(k)'] = k
          /\ \A t \in Requests :
               ShownTo(t)' # None
                 => /\ ShownTo(t)' \in booked'
                    /\ KeyOf[ShownTo(t)'] = KeyOf[t]
                    /\ BodyOf[ShownTo(t)'] = BodyOf[t]
                    /\ t \in booked' => ShownTo(t)' = t
      BY <2>0, <3>1, <3>2, <3>3 DEF AnsweredTruly
    <3> QED  BY <3>1, <3>4, <3>5 DEF AnsweredTruly
  <2>3. ASSUME NEW gone \in SUBSET Keys, Register!Forget(gone)
        PROVE  AnsweredTruly'
    <3>1. /\ UNCHANGED booked
          /\ \A t \in Requests : ShownTo(t)' = ShownTo(t)
          /\ { t \in Requests : RefusedAtKey(t)' } = { t \in Requests : RefusedAtKey(t) }
          /\ { t \in Requests : RefusedAtQuote(t)' }
               = { t \in Requests : RefusedAtQuote(t) }
      BY <2>3 DEF Register!Forget, ShownTo, RefusedAtKey, RefusedAtQuote
    <3>2. \A k \in Keys : Answering(k)' = IF k \in gone THEN None ELSE Answering(k)
      BY <2>3 DEF Register!Forget, Answering
    <3> QED  BY <3>1, <3>2, RefusalsSame DEF AnsweredTruly
  <2>4. CASE UNCHANGED Register!registerVars
    <3>1. /\ UNCHANGED booked
          /\ \A t \in Requests : ShownTo(t)' = ShownTo(t)
          /\ \A k \in Keys : Answering(k)' = Answering(k)
          /\ { t \in Requests : RefusedAtKey(t)' } = { t \in Requests : RefusedAtKey(t) }
          /\ { t \in Requests : RefusedAtQuote(t)' }
               = { t \in Requests : RefusedAtQuote(t) }
      BY <2>4 DEF Register!registerVars, Answering, ShownTo, RefusedAtKey, RefusedAtQuote
    <3> QED  BY <3>1, RefusalsSame DEF AnsweredTruly
  <2>5. ASSUME NEW r \in Requests,
               Register!TurnAwayAtTheKey(r) \/ Register!TurnAwayAtTheQuote(r)
        PROVE  AnsweredTruly'
    <3>1. /\ r \notin booked
          /\ UNCHANGED booked
          /\ \A t \in Requests : ShownTo(t)' = ShownTo(t)
          /\ \A k \in Keys : Answering(k)' = Answering(k)
      BY <2>5 DEF Register!TurnAwayAtTheKey, Register!TurnAwayAtTheQuote, Answering, ShownTo
    <3>2. \A t \in Requests :
            RefusedAtKey(t)' \/ RefusedAtQuote(t)'
              => RefusedAtKey(t) \/ RefusedAtQuote(t) \/ t = r
      BY <2>5 DEF Register!TurnAwayAtTheKey, Register!TurnAwayAtTheQuote,
                  RefusedAtKey, RefusedAtQuote
    <3> QED  BY <3>1, <3>2 DEF AnsweredTruly
  <2> QED  BY <2>1, <2>2, <2>3, <2>4, <2>5 DEF Register!RegisterNext
<1> QED  BY <1>1, <1>2, PTL DEF Register!RegisterSpec
=============================================================================
