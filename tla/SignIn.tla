------------------------------- MODULE SignIn -------------------------------
(***************************************************************************)
(* Signing in with one phone number: auth/auth.service.ts and              *)
(* auth/rate-limit/rate-limit.service.ts.  One-time codes with their       *)
(* attempt counter, the account they register, refresh tokens and their    *)
(* rotation, and the windows that limit requests, kept in the memory of    *)
(* the process.                                                            *)
(*                                                                         *)
(* No request uses a transaction: each statement is a step, and a request  *)
(* may die between any two.                                                *)
(***************************************************************************)
EXTENDS Integers, Sequences, FiniteSets

CONSTANTS
  Handlers,          \* requests that can be under way at once
  OTP_MAX_ATTEMPTS,
  OTP_TTL,
  Limit,             \* Limit[key]: hits of a rate-limit key per window
  Window,
  MaxCodes,          \* bound: codes created
  MaxTokens          \* bound: refresh tokens issued

Keys == {"otp", "password"}

ASSUME SignInAssumption ==
  /\ IsFiniteSet(Handlers)
  /\ {OTP_MAX_ATTEMPTS, OTP_TTL, Window} \subseteq Nat \ {0}
  /\ Limit \in [Keys -> Nat \ {0}]
  /\ {MaxCodes, MaxTokens} \subseteq Nat

VARIABLES
  buckets,    \* the rate limiter's windows: hits, and time left to resetAt
  codes,      \* otp_verifications of the phone, oldest first
  account,    \* whether the phone has a users row
  password,   \* whether that has a passwordHash
  tokens,     \* refresh_tokens, oldest first
  handler,    \* what each handler works on
  grants,     \* history: hits let through in the last i instants
  guesses,    \* history: wrong codes compared with each code
  spent,      \* history: logins each code was good for
  exposed,    \* history: codes looked up again before they were consumed
  over,       \* history: logins logged out, or whose rotation died half way
  forked      \* history: logins rotated from a token already revoked

database == <<codes, account, password, tokens>>
history == <<grants, guesses, spent, exposed, over, forked>>
vars == <<buckets, database, handler, history>>

Idle == [pc |-> "idle"]
NoBucket == [count |-> 0, left |-> 0]
NoHits == [i \in 1 .. Window |-> 0]

Init ==
  /\ buckets = [key \in Keys |-> NoBucket]
  /\ codes = <<>>
  /\ account \in BOOLEAN
  /\ password = FALSE
  /\ tokens = <<>>
  /\ handler = [h \in Handlers |-> Idle]
  /\ grants = [key \in Keys |-> NoHits]
  /\ guesses = <<>>
  /\ spent = <<>>
  /\ exposed = {}
  /\ over = {}
  /\ forked = {}

Goto(h, state) == handler' = [handler EXCEPT ![h] = state]
Done(h) == Goto(h, Idle)

-----------------------------------------------------------------------------
(* The rate limiter.                                                       *)

\* Mutant: one hit too many passes.
FullLate(key) == buckets[key].count > Limit[key]

Full(key) == buckets[key].count >= Limit[key]

Fresh(key) == buckets[key].left = 0

\* RateLimitService.consume where it does not throw.
consume(key) ==
  /\ Fresh(key) \/ ~Full(key)
  /\ buckets' = [buckets EXCEPT ![key] =
       IF Fresh(key) THEN [count |-> 1, left |-> Window]
                     ELSE [count |-> @.count + 1, left |-> @.left]]
  /\ grants' = [grants EXCEPT ![key] = [i \in 1 .. Window |-> @[i] + 1]]

-----------------------------------------------------------------------------
(* requestOtp.                                                             *)

\* The limit per address may still refuse what the limit per phone let pass.
RequestOtp(h) ==
  /\ handler[h] = Idle
  /\ consume("otp")
  /\ \/ Len(codes) < MaxCodes /\ Goto(h, [pc |-> "requesting"])
     \/ Done(h)
  /\ UNCHANGED <<database, guesses, spent, exposed, over, forked>>

\* The row is written before the message is sent, and stays if that fails.
CreateCode(h) ==
  /\ handler[h].pc = "requesting"
  /\ Len(codes) < MaxCodes
  /\ codes' = Append(codes, [left |-> OTP_TTL, attempts |-> 0, consumed |-> FALSE])
  /\ guesses' = Append(guesses, 0)
  /\ spent' = Append(spent, 0)
  /\ Done(h)
  /\ UNCHANGED <<buckets, account, password, tokens, grants, exposed, over, forked>>

-----------------------------------------------------------------------------
(* verifyOtp.                                                              *)

\* Mutant: a consumed code is found again.
UsableAgain == { c \in DOMAIN codes : codes[c].left > 0 }

Usable == { c \in DOMAIN codes : ~codes[c].consumed /\ codes[c].left > 0 }

\* Mutant: the attempts are not looked at.
AlwaysTry(c) == TRUE

AttemptsLeft(c) == codes[c].attempts < OTP_MAX_ATTEMPTS

Working(c) ==
  { h \in Handlers : /\ handler[h].pc \in {"comparing", "registering", "signing", "consuming"}
                     /\ handler[h].code = c }

\* findFirst, the latest first; too many attempts are refused.
LookUpCode(h) ==
  /\ handler[h] = Idle
  /\ \E c \in Usable :
       /\ \A d \in Usable : d <= c
       /\ AttemptsLeft(c)
       /\ Goto(h, [pc |-> "comparing", code |-> c])
       /\ exposed' = exposed \cup
            (IF Working(c) # {} \/ (spent[c] > 0 /\ ~codes[c].consumed) THEN {c} ELSE {})
  /\ UNCHANGED <<buckets, database, grants, guesses, spent, over, forked>>

\* { increment: 1 }, in the database.
WrongCode(h) ==
  /\ handler[h].pc = "comparing"
  /\ codes' = [codes EXCEPT ![handler[h].code].attempts = @ + 1]
  /\ guesses' = [guesses EXCEPT ![handler[h].code] = @ + 1]
  /\ Done(h)
  /\ UNCHANGED <<buckets, account, password, tokens, grants, spent, exposed, over,
                 forked>>

\* The code is right: the user is looked up.
FindUser(h) ==
  /\ handler[h].pc = "comparing"
  /\ Goto(h, [handler[h] EXCEPT !.pc = IF account THEN "signing" ELSE "registering"])
  /\ UNCHANGED <<buckets, database, history>>

\* users.phone is unique: the second of two registrations fails.
Register(h) ==
  /\ handler[h].pc = "registering"
  /\ account' = TRUE
  /\ IF account THEN Done(h) ELSE Goto(h, [handler[h] EXCEPT !.pc = "signing"])
  /\ UNCHANGED <<buckets, codes, password, tokens, history>>

-----------------------------------------------------------------------------
(* issueTokens, and the end of both ways to sign in.                       *)

NoCode == 0

Issue(login) ==
  /\ Len(tokens) < MaxTokens
  /\ tokens' = Append(tokens, [login |-> login, revoked |-> FALSE])

\* A login is known by its first token.
SignInUser(h) ==
  /\ handler[h].pc = "signing"
  /\ Issue(Len(tokens) + 1)
  /\ IF handler[h].code = NoCode
     THEN Done(h) /\ UNCHANGED spent
     ELSE /\ Goto(h, [handler[h] EXCEPT !.pc = "consuming"])
          /\ spent' = [spent EXCEPT ![handler[h].code] = @ + 1]
  /\ UNCHANGED <<buckets, codes, account, password, grants, guesses, exposed, over,
                 forked>>

ConsumeCode(h) ==
  /\ handler[h].pc = "consuming"
  /\ codes' = [codes EXCEPT ![handler[h].code].consumed = TRUE]
  /\ Done(h)
  /\ UNCHANGED <<buckets, account, password, tokens, history>>

\* loginWithPassword: a wrong password costs a hit of the window.
LogInWithPassword(h) ==
  /\ handler[h] = Idle
  /\ consume("password")
  /\ \/ account /\ password /\ Goto(h, [pc |-> "signing", code |-> NoCode])
     \/ Done(h)
  /\ UNCHANGED <<database, guesses, spent, exposed, over, forked>>

\* updateProfile with a password.
SetPassword ==
  /\ account /\ tokens # <<>>
  /\ ~password
  /\ password' = TRUE
  /\ UNCHANGED <<buckets, codes, account, tokens, handler, history>>

-----------------------------------------------------------------------------
(* refresh and logout.                                                     *)

\* A token that has expired, or whose user is suspended, is refused too, which
\* changes nothing: it is one that is not read.
Valid(k) == ~tokens[k].revoked

ReadToken(h, k) ==
  /\ handler[h] = Idle
  /\ Valid(k)
  /\ Goto(h, [pc |-> "rotating", token |-> k])
  /\ UNCHANGED <<buckets, database, history>>

\* Mutant: all the user's tokens are revoked.
RotateAway(k) == DOMAIN tokens

\* UPDATE by id, whatever became of the token since it was read.
RevokedBy(k) == {k}

RevokeToken(h) ==
  /\ handler[h].pc = "rotating"
  /\ LET k == handler[h].token IN
       /\ tokens' = [i \in DOMAIN tokens |->
                       IF i \in RevokedBy(k) THEN [tokens[i] EXCEPT !.revoked = TRUE]
                                             ELSE tokens[i]]
       /\ Goto(h, [pc |-> "reissuing", login |-> tokens[k].login])
       /\ forked' = forked \cup (IF tokens[k].revoked THEN {tokens[k].login} ELSE {})
  /\ UNCHANGED <<buckets, codes, account, password, grants, guesses, spent, exposed, over>>

ReissueToken(h) ==
  /\ handler[h].pc = "reissuing"
  /\ Issue(handler[h].login)
  /\ Done(h)
  /\ UNCHANGED <<buckets, codes, account, password, history>>

\* One statement: it matches the token or nothing.
Logout(k) ==
  /\ ~tokens[k].revoked
  /\ tokens' = [tokens EXCEPT ![k].revoked = TRUE]
  /\ over' = over \cup {tokens[k].login}
  /\ UNCHANGED <<buckets, codes, account, password, handler, grants, guesses, spent,
                 exposed, forked>>

-----------------------------------------------------------------------------
(* Failures and time.                                                      *)

Reissuing == { h \in Handlers : handler[h].pc = "reissuing" }

CutShort(H) ==
  over' = over \cup { handler[h].login : h \in H \cap Reissuing }

\* A statement fails, or the connection to the database does.
Fail(h) ==
  /\ handler[h] # Idle
  /\ CutShort({h})
  /\ Done(h)
  /\ UNCHANGED <<buckets, database, grants, guesses, spent, exposed, forked>>

\* The process restarts: its requests die, and the windows are forgotten.
Restart ==
  /\ CutShort(Handlers)
  /\ handler' = [h \in Handlers |-> Idle]
  /\ buckets' = [key \in Keys |-> NoBucket]
  /\ grants' = [key \in Keys |-> NoHits]
  /\ UNCHANGED <<database, guesses, spent, exposed, forked>>

Later(left) == IF left = 0 THEN 0 ELSE left - 1

\* Minutes go by.  An entry whose window is over is as good as none.
Tick ==
  /\ buckets' = [key \in Keys |-> IF buckets[key].left <= 1 THEN NoBucket
                                  ELSE [buckets[key] EXCEPT !.left = @ - 1]]
  /\ codes' = [c \in DOMAIN codes |-> [codes[c] EXCEPT !.left = Later(@)]]
  /\ grants' = [key \in Keys |-> [i \in 1 .. Window |->
                                  IF i = 1 THEN 0 ELSE grants[key][i - 1]]]
  /\ UNCHANGED <<account, password, tokens, handler, guesses, spent, exposed, over, forked>>

Next ==
  \/ \E h \in Handlers :
       \/ RequestOtp(h) \/ CreateCode(h)
       \/ LookUpCode(h) \/ WrongCode(h) \/ FindUser(h) \/ Register(h)
       \/ SignInUser(h) \/ ConsumeCode(h) \/ LogInWithPassword(h)
       \/ \E k \in DOMAIN tokens : ReadToken(h, k)
       \/ RevokeToken(h) \/ ReissueToken(h)
       \/ Fail(h)
  \/ SetPassword
  \/ \E k \in DOMAIN tokens : Logout(k)
  \/ Restart
  \/ Tick

Spec == Init /\ [][Next]_vars

-----------------------------------------------------------------------------
\* The counter is checked when the code is looked up and incremented after the
\* comparison, several awaits later: what requests under way at once can gain
\* is one guess each, and no increment is lost (verifyOtp).
GuessesBounded ==
  \A c \in DOMAIN codes :
    guesses[c] <= OTP_MAX_ATTEMPTS + Cardinality(Handlers) - 1

\* "A verified-but-unconsumed OTP must not be replayable" (schema.prisma,
\* OtpVerification): a code is good for one login, unless it was looked up
\* again before the first login consumed it, or that died before it did.
CodeSpentOnce ==
  \A c \in DOMAIN codes : c \notin exposed => spent[c] <= 1

\* A fixed window that opens with its first hit lets at most two windows'
\* worth less one through in any stretch as long as a window, as long as the
\* process lives (RateLimitService.consume).
HitsBounded ==
  \A key \in Keys : grants[key][Window] <= 2 * Limit[key] - 1

LiveTokens(login) ==
  { k \in DOMAIN tokens : tokens[k].login = login /\ ~tokens[k].revoked }

\* Rotation (refresh, logout): a login has one token at a time, until it is
\* logged out or a rotation dies half way.  The exception is a refresh that
\* overlapped another or a logout, and revoked a token that was revoked already.
OneTokenPerLogin ==
  \A login \in { tokens[k].login : k \in DOMAIN tokens } \ forked :
    /\ Cardinality(LiveTokens(login)) <= 1
    /\ LiveTokens(login) = {} =>
         \/ login \in over
         \/ \E h \in Reissuing : handler[h].login = login
=============================================================================
