----------------------------- MODULE KeyRegister ----------------------------
(***************************************************************************)
(* What an Idempotency-Key is good for (bookings.service.ts,               *)
(* booking-idempotency.service.ts): a key answers with one booking at a    *)
(* time, and with nothing until one is made.  Whoever books finds its key  *)
(* answering with nothing; whoever is shown a booking is shown its own, or *)
(* the one its key answers with, made from the same body; whoever is       *)
(* turned away (409) has made none and makes none.  The key itself turns   *)
(* nobody away whom it could show a booking.                               *)
(*                                                                         *)
(* Nobody is promised to be shown anything: createBooking looks at the     *)
(* quote before it looks at the key, and the quote can turn away whom the  *)
(* key would answer.  A retry after a lost response is told that its quote *)
(* is used, where test/bookings.idempotency.e2e-spec.ts:94-118 expects the *)
(* booking.                                                                *)
(***************************************************************************)
CONSTANTS
  Requests, Keys,
  KeyOf, BodyOf,  \* what each request carries
  None            \* no booking

VARIABLES
  made,      \* the requests that made a booking; a booking is known by its request
  register,  \* the booking each key answers with
  shown,     \* the booking each request has been shown
  atTheKey,  \* the requests turned away when their key was looked at
  atTheQuote \* those turned away before, when their quote was

turnedAway == atTheKey \cup atTheQuote

registerVars == <<made, register, shown, atTheKey, atTheQuote>>

RegisterInit ==
  /\ made = {}
  /\ register = [k \in Keys |-> None]
  /\ shown = [r \in Requests |-> None]
  /\ atTheKey = {}
  /\ atTheQuote = {}

Unanswered(r) == shown[r] = None /\ r \notin turnedAway

\* The response with the booking may be lost.
Book(r) ==
  /\ r \notin made
  /\ Unanswered(r)
  /\ register[KeyOf[r]] = None
  /\ made' = made \cup {r}
  /\ register' = [register EXCEPT ![KeyOf[r]] = r]
  /\ shown' = [shown EXCEPT ![r] = r] \/ UNCHANGED shown
  /\ UNCHANGED <<atTheKey, atTheQuote>>

Replay(r) ==
  LET booking == register[KeyOf[r]] IN
  /\ r \notin made
  /\ Unanswered(r)
  /\ booking # None
  /\ BodyOf[booking] = BodyOf[r]
  /\ shown' = [shown EXCEPT ![r] = booking]
  /\ UNCHANGED <<made, register, atTheKey, atTheQuote>>

\* Its key answers with nothing yet, or with a booking made from another body.
TurnAwayAtTheKey(r) ==
  LET booking == register[KeyOf[r]] IN
  /\ r \notin made
  /\ Unanswered(r)
  /\ booking = None \/ BodyOf[booking] # BodyOf[r]
  /\ atTheKey' = atTheKey \cup {r}
  /\ UNCHANGED <<made, register, shown, atTheQuote>>

\* Whatever its key answers with.
TurnAwayAtTheQuote(r) ==
  /\ r \notin made
  /\ Unanswered(r)
  /\ atTheQuote' = atTheQuote \cup {r}
  /\ UNCHANGED <<made, register, shown, atTheKey>>

Forget(gone) ==
  /\ register' = [k \in Keys |-> IF k \in gone THEN None ELSE register[k]]
  /\ UNCHANGED <<made, shown, atTheKey, atTheQuote>>

RegisterNext ==
  \/ \E r \in Requests : \/ Book(r)
                         \/ Replay(r)
                         \/ TurnAwayAtTheKey(r)
                         \/ TurnAwayAtTheQuote(r)
  \/ \E gone \in SUBSET Keys : Forget(gone)

RegisterSpec == RegisterInit /\ [][RegisterNext]_registerVars

-----------------------------------------------------------------------------
\* A key answers with a booking that was made with it, what a request has been
\* shown is its own booking or one made for its key from its body, and who was turned
\* away has no booking.
AnswersAreTrue ==
  /\ \A k \in Keys :
       register[k] # None => register[k] \in made /\ KeyOf[register[k]] = k
  /\ \A r \in Requests :
       shown[r] # None
         => /\ shown[r] \in made
            /\ KeyOf[shown[r]] = KeyOf[r]
            /\ BodyOf[shown[r]] = BodyOf[r]
            /\ r \in made => shown[r] = r
  /\ turnedAway \cap made = {}
=============================================================================
