---------------------------- MODULE SignInProofs ----------------------------
(***************************************************************************)
(* Theorems about SignIn, for any number of requests under way at once, of *)
(* codes, tokens and attempts, and for windows of any length and limits.   *)
(***************************************************************************)
EXTENDS SignIn, FiniteSetTheorems, SequenceTheorems, TLAPS

Code == [left : Nat, attempts : Nat, consumed : BOOLEAN]
Token == [login : Nat, revoked : BOOLEAN]

OnCode == {"comparing", "registering", "signing", "consuming"}

HandlerState ==
  {Idle} \cup [pc : {"requesting"}]
         \cup [pc : OnCode, code : Nat]
         \cup [pc : {"rotating"}, token : Nat]
         \cup [pc : {"reissuing"}, login : Nat]

TypeInv ==
  /\ codes \in Seq(Code)
  /\ tokens \in Seq(Token)
  /\ guesses \in [DOMAIN codes -> Nat]
  /\ spent \in [DOMAIN codes -> Nat]
  /\ account \in BOOLEAN
  /\ password \in BOOLEAN
  /\ handler \in [Handlers -> HandlerState]

\* Rows are never deleted, so what a request works on is there.
WorksOn(x, C, T) ==
  /\ x.pc \in OnCode => x.code \in C \cup {NoCode}
  /\ x.pc \in OnCode \ {"signing"} => x.code \in C
  /\ x.pc = "rotating" => x.token \in T
  /\ x.pc = "reissuing" => x.login \in T

RowsThere ==
  /\ \A h \in Handlers : WorksOn(handler[h], DOMAIN codes, DOMAIN tokens)
  /\ \A k \in DOMAIN tokens : tokens[k].login \in 1 .. k

SignInInv == TypeInv /\ RowsThere

\* A code that is tried or consumed is one.
LEMMA CodeStep ==
  ASSUME NEW x \in Code
  PROVE  /\ [x EXCEPT !.attempts = @ + 1] \in Code
         /\ [x EXCEPT !.consumed = TRUE] \in Code
<1>1. x.attempts + 1 \in Nat
  BY DEF Code
<1>2. [x EXCEPT !.attempts = x.attempts + 1] \in Code
  BY <1>1, Zenon DEF Code
<1>3. [x EXCEPT !.consumed = TRUE] \in Code
  BY DEF Code
<1> QED  BY <1>2, <1>3

\* A sequence is a function on an interval.
LEMMA SeqOf ==
  ASSUME NEW S, NEW n \in Nat, NEW f \in [1 .. n -> S]
  PROVE  f \in Seq(S) /\ Len(f) = n
<1>1. f \in Seq(S)
  BY SeqDef
<1> QED  BY <1>1, LenProperties

LEMMA SeqAppend ==
  ASSUME NEW S, NEW s \in Seq(S), NEW x \in S
  PROVE  /\ Append(s, x) \in Seq(S)
         /\ DOMAIN Append(s, x) = DOMAIN s \cup {Len(s) + 1}
         /\ DOMAIN s = 1 .. Len(s)
         /\ Len(s) \in Nat
         /\ \A i \in DOMAIN s : Append(s, x)[i] = s[i]
         /\ Append(s, x)[Len(s) + 1] = x
<1>1. Len(s) \in Nat /\ DOMAIN s = 1 .. Len(s)
  BY LenProperties
<1>2. Append(s, x) \in Seq(S) /\ Len(Append(s, x)) = Len(s) + 1
  OBVIOUS
<1>3. DOMAIN Append(s, x) = 1 .. Len(s) + 1
  BY <1>2, LenProperties
<1> QED  BY <1>1, <1>2, <1>3

-----------------------------------------------------------------------------
(* Types.                                                                  *)

\* A handler's state by its pc.
LEMMA StateShape ==
  ASSUME NEW x \in HandlerState
  PROVE  /\ x.pc \in OnCode => x \in [pc : OnCode, code : Nat]
         /\ x.pc = "rotating" => x \in [pc : {"rotating"}, token : Nat]
         /\ x.pc = "reissuing" => x \in [pc : {"reissuing"}, login : Nat]
BY DEF HandlerState, OnCode, Idle

\* Whatever a handler goes on to, the others stay as they are.
LEMMA GotoStep ==
  ASSUME SignInInv, NEW h \in Handlers, NEW x \in HandlerState, Goto(h, x),
         DOMAIN codes \subseteq DOMAIN codes', DOMAIN tokens \subseteq DOMAIN tokens',
         WorksOn(x, DOMAIN codes', DOMAIN tokens')
  PROVE  /\ handler' \in [Handlers -> HandlerState]
         /\ \A g \in Handlers : WorksOn(handler'[g], DOMAIN codes', DOMAIN tokens')
<1>1. handler' = [handler EXCEPT ![h] = x]
  BY DEF Goto
<1>2. handler' \in [Handlers -> HandlerState]
  BY <1>1 DEF SignInInv, TypeInv
<1>3. \A g \in Handlers : handler'[g] = IF g = h THEN x ELSE handler[g]
  BY <1>1 DEF SignInInv, TypeInv
<1>4. \A g \in Handlers : WorksOn(handler[g], DOMAIN codes', DOMAIN tokens')
  BY DEF SignInInv, RowsThere, WorksOn
<1> QED  BY <1>2, <1>3, <1>4

LEMMA SignInStep == SignInInv /\ [Next]_vars => SignInInv'
<1> SUFFICES ASSUME SignInInv, [Next]_vars
             PROVE  SignInInv'
  OBVIOUS
<1>0. /\ Idle \in HandlerState /\ WorksOn(Idle, DOMAIN codes', DOMAIN tokens')
      /\ [pc |-> "requesting"] \in HandlerState
      /\ WorksOn([pc |-> "requesting"], DOMAIN codes', DOMAIN tokens')
  BY DEF HandlerState, WorksOn, Idle, OnCode
<1>1. ASSUME NEW h \in Handlers, NEW x \in HandlerState, Goto(h, x),
             WorksOn(x, DOMAIN codes', DOMAIN tokens'),
             UNCHANGED <<codes, tokens, guesses, spent>>,
             account' \in BOOLEAN, password' \in BOOLEAN
      PROVE  SignInInv'
  BY <1>1, GotoStep DEF SignInInv, TypeInv, RowsThere
<1>2. ASSUME NEW h \in Handlers, RequestOtp(h) \/ Fail(h)
      PROVE  SignInInv'
  BY <1>0, <1>1, <1>2 DEF RequestOtp, Fail, Done, database, SignInInv, TypeInv
<1>3. ASSUME NEW h \in Handlers, CreateCode(h)
      PROVE  SignInInv'
  <2> DEFINE new == [left |-> OTP_TTL, attempts |-> 0, consumed |-> FALSE]
  <2>1. new \in Code
    BY SignInAssumption DEF Code
  <2>2. codes \in Seq(Code) /\ codes' = Append(codes, new)
    BY <1>3 DEF CreateCode, SignInInv, TypeInv
  <2>3. /\ codes' \in Seq(Code)
        /\ DOMAIN codes' = DOMAIN codes \cup {Len(codes) + 1}
        /\ DOMAIN codes = 1 .. Len(codes)
        /\ Len(codes) \in Nat
    <3> HIDE DEF new
    <3> QED  BY <2>1, <2>2, SeqAppend
  <2>4. ASSUME NEW f \in [DOMAIN codes -> Nat], NEW g, g = Append(f, 0)
        PROVE  g \in [DOMAIN codes' -> Nat]
    <3>1. f \in Seq(Nat) /\ Len(f) = Len(codes)
      BY <2>3, <2>4, SeqOf
    <3>2. g \in Seq(Nat) /\ DOMAIN g = DOMAIN codes'
      BY <2>3, <2>4, <3>1, SeqAppend
    <3> QED  BY <3>2, LenProperties
  <2>5. guesses' \in [DOMAIN codes' -> Nat] /\ spent' \in [DOMAIN codes' -> Nat]
    BY <1>3, <2>4 DEF CreateCode, SignInInv, TypeInv
  <2>6. /\ handler' \in [Handlers -> HandlerState]
        /\ \A g \in Handlers : WorksOn(handler'[g], DOMAIN codes', DOMAIN tokens')
    BY <1>0, <1>3, <2>3, GotoStep DEF CreateCode, Done
  <2> QED  BY <1>3, <2>3, <2>5, <2>6 DEF CreateCode, SignInInv, TypeInv, RowsThere
<1>4. ASSUME NEW h \in Handlers, LookUpCode(h)
      PROVE  SignInInv'
  <2>1. PICK c \in Usable : Goto(h, [pc |-> "comparing", code |-> c])
    BY <1>4 DEF LookUpCode
  <2>2. c \in DOMAIN codes /\ c \in Nat
    BY LenProperties DEF Usable, SignInInv, TypeInv
  <2>3. /\ [pc |-> "comparing", code |-> c] \in HandlerState
        /\ codes' = codes
    BY <1>4, <2>2 DEF HandlerState, OnCode, LookUpCode, database
  <2>4. WorksOn([pc |-> "comparing", code |-> c], DOMAIN codes', DOMAIN tokens')
    BY <2>2, <2>3 DEF WorksOn
  <2> QED  BY <1>1, <1>4, <2>1, <2>3, <2>4 DEF LookUpCode, database, SignInInv, TypeInv
\* One code changes, and keeps being one.
<1>5. ASSUME NEW c \in DOMAIN codes, NEW x \in Code, codes' = [codes EXCEPT ![c] = x],
             NEW h \in Handlers, Done(h), UNCHANGED <<tokens, account, password>>,
             guesses' \in [DOMAIN codes -> Nat], spent' = spent
      PROVE  SignInInv'
  <2>1. codes' \in Seq(Code) /\ DOMAIN codes' = DOMAIN codes
    BY <1>5, ExceptSeq, LenProperties DEF SignInInv, TypeInv
  <2>2. /\ handler' \in [Handlers -> HandlerState]
        /\ \A g \in Handlers : WorksOn(handler'[g], DOMAIN codes', DOMAIN tokens')
    BY <1>0, <1>5, <2>1, GotoStep DEF Done
  <2> QED  BY <1>5, <2>1, <2>2 DEF SignInInv, TypeInv, RowsThere
<1>6. ASSUME NEW h \in Handlers, WrongCode(h) \/ ConsumeCode(h)
      PROVE  SignInInv'
  <2> DEFINE c == handler[h].code
  <2>1. c \in DOMAIN codes
    BY <1>6 DEF WrongCode, ConsumeCode, SignInInv, RowsThere, WorksOn, OnCode
  <2>2. codes[c] \in Code /\ guesses[c] \in Nat
    BY <2>1, ElementOfSeq, LenProperties DEF SignInInv, TypeInv
  <2>3. /\ [codes[c] EXCEPT !.attempts = @ + 1] \in Code
        /\ [codes[c] EXCEPT !.consumed = TRUE] \in Code
        /\ [guesses EXCEPT ![c] = @ + 1] \in [DOMAIN codes -> Nat]
    <3>1. guesses \in [DOMAIN codes -> Nat]
      BY DEF SignInInv, TypeInv
    <3> DEFINE D == DOMAIN codes
    <3>2. /\ [codes[c] EXCEPT !.attempts = @ + 1] \in Code
          /\ [codes[c] EXCEPT !.consumed = TRUE] \in Code
      BY <2>2, CodeStep
    <3>3. [guesses EXCEPT ![c] = @ + 1] \in [D -> Nat]
      <4>1. guesses \in [D -> Nat] /\ c \in D
        BY <2>1, <3>1
      <4> HIDE DEF D, c
      <4> QED  BY <4>1
    <3> QED  BY <3>2, <3>3
  <2>4. CASE WrongCode(h)
    <3>1. codes' = [codes EXCEPT ![c] = [codes[c] EXCEPT !.attempts = @ + 1]]
      BY <2>4 DEF WrongCode
    <3>2. guesses' \in [DOMAIN codes -> Nat] /\ spent' = spent /\ Done(h)
          /\ UNCHANGED <<tokens, account, password>>
      BY <2>3, <2>4 DEF WrongCode
    <3> QED  BY <1>5, <2>1, <2>3, <3>1, <3>2
  <2>5. CASE ConsumeCode(h)
    <3>1. codes' = [codes EXCEPT ![c] = [codes[c] EXCEPT !.consumed = TRUE]]
      BY <2>5 DEF ConsumeCode
    <3>2. guesses' \in [DOMAIN codes -> Nat] /\ spent' = spent /\ Done(h)
          /\ UNCHANGED <<tokens, account, password>>
      BY <2>5 DEF ConsumeCode, history, SignInInv, TypeInv
    <3> QED  BY <1>5, <2>1, <2>3, <3>1, <3>2
  <2> QED  BY <1>6, <2>4, <2>5
\* The pc moves on, the code stays.
<1>7. ASSUME NEW h \in Handlers, handler[h].pc \in OnCode \ {"signing"}, NEW p \in OnCode
      PROVE  /\ [handler[h] EXCEPT !.pc = p] \in HandlerState
             /\ [handler[h] EXCEPT !.pc = p].code = handler[h].code
             /\ WorksOn([handler[h] EXCEPT !.pc = p], DOMAIN codes, DOMAIN tokens)
  <2>1. handler[h] \in [pc : OnCode, code : Nat] /\ handler[h].code \in DOMAIN codes
    BY <1>7, StateShape DEF SignInInv, TypeInv, RowsThere, WorksOn
  <2> QED  BY <1>7, <2>1 DEF HandlerState, WorksOn, OnCode
<1>8. ASSUME NEW h \in Handlers, FindUser(h) \/ Register(h)
      PROVE  SignInInv'
  <2>1. handler[h].pc \in OnCode \ {"signing"} /\ UNCHANGED <<codes, tokens, guesses, spent>>
        /\ account' \in BOOLEAN /\ password' \in BOOLEAN
    BY <1>8 DEF FindUser, Register, OnCode, database, history, SignInInv, TypeInv
  <2>2. \/ Done(h)
        \/ \E p \in OnCode : Goto(h, [handler[h] EXCEPT !.pc = p])
    BY <1>8 DEF FindUser, Register, OnCode
  <2> QED  BY <1>0, <1>1, <1>7, <2>1, <2>2 DEF Done
<1>9. ASSUME NEW l \in 1 .. Len(tokens) + 1, Issue(l), UNCHANGED <<codes, guesses, account, password>>,
             spent' \in [DOMAIN codes -> Nat],
             NEW h \in Handlers, NEW x \in HandlerState, Goto(h, x),
             WorksOn(x, DOMAIN codes, {})
      PROVE  SignInInv'
  <2> DEFINE new == [login |-> l, revoked |-> FALSE]
  <2>1. new \in Token /\ tokens \in Seq(Token) /\ tokens' = Append(tokens, new)
    BY <1>9, LenProperties DEF Token, Issue, SignInInv, TypeInv
  <2>2. /\ tokens' \in Seq(Token)
        /\ DOMAIN tokens' = DOMAIN tokens \cup {Len(tokens) + 1}
        /\ DOMAIN tokens = 1 .. Len(tokens)
        /\ Len(tokens) \in Nat
        /\ \A i \in DOMAIN tokens : tokens'[i] = tokens[i]
        /\ tokens'[Len(tokens) + 1] = new
    <3> HIDE DEF new
    <3> QED  BY <2>1, SeqAppend
  <2>3. \A k \in DOMAIN tokens' : tokens'[k].login \in 1 .. k
    BY <1>9, <2>2 DEF SignInInv, RowsThere
  <2>4. /\ handler' \in [Handlers -> HandlerState]
        /\ \A g \in Handlers : WorksOn(handler'[g], DOMAIN codes', DOMAIN tokens')
    <3>1. WorksOn(x, DOMAIN codes', DOMAIN tokens')
      BY <1>9 DEF WorksOn
    <3> QED  BY <1>9, <2>2, <3>1, GotoStep
  <2> QED  BY <1>9, <2>2, <2>3, <2>4 DEF SignInInv, TypeInv, RowsThere
<1>10. ASSUME NEW h \in Handlers, SignInUser(h)
       PROVE  SignInInv'
  <2> DEFINE l == Len(tokens) + 1
  <2>1. l \in 1 .. Len(tokens) + 1 /\ Issue(l) /\ UNCHANGED <<codes, guesses, account, password>>
    BY <1>10, LenProperties DEF SignInUser, SignInInv, TypeInv
  <2>2. handler[h] \in [pc : OnCode, code : Nat] /\ handler[h].code \in DOMAIN codes \cup {NoCode}
    BY <1>10, StateShape DEF SignInUser, OnCode, SignInInv, TypeInv, RowsThere, WorksOn
  <2>3. CASE handler[h].code = NoCode
    BY <1>0, <1>9, <1>10, <2>1, <2>3 DEF SignInUser, Done, SignInInv, TypeInv, WorksOn, Idle, OnCode
  <2>4. CASE handler[h].code # NoCode
    <3> DEFINE x == [handler[h] EXCEPT !.pc = "consuming"]
    <3>1. x \in HandlerState /\ WorksOn(x, DOMAIN codes, {})
      BY <2>2, <2>4 DEF HandlerState, WorksOn, OnCode
    <3>2. spent' \in [DOMAIN codes -> Nat] /\ Goto(h, x)
      BY <1>10, <2>2, <2>4 DEF SignInUser, SignInInv, TypeInv
    <3> HIDE DEF x
    <3> QED  BY <1>9, <2>1, <3>1, <3>2
  <2> QED  BY <2>3, <2>4
<1>11. ASSUME NEW h \in Handlers, ReissueToken(h)
       PROVE  SignInInv'
  <2>1. handler[h].login \in 1 .. Len(tokens) + 1
    BY <1>11, LenProperties DEF ReissueToken, SignInInv, TypeInv, RowsThere, WorksOn
  <2>2. WorksOn(Idle, DOMAIN codes, {})
    BY DEF WorksOn, Idle, OnCode
  <2> QED  BY <1>0, <1>9, <1>11, <2>1, <2>2 DEF ReissueToken, Done, history, SignInInv, TypeInv
<1>12. ASSUME NEW h \in Handlers, LogInWithPassword(h)
       PROVE  SignInInv'
  <2>1. /\ [pc |-> "signing", code |-> NoCode] \in HandlerState
        /\ WorksOn([pc |-> "signing", code |-> NoCode], DOMAIN codes', DOMAIN tokens')
    BY DEF HandlerState, WorksOn, OnCode, NoCode
  <2> QED  BY <1>0, <1>1, <1>12, <2>1 DEF LogInWithPassword, Done, database, SignInInv, TypeInv
<1>13. ASSUME NEW h \in Handlers, NEW k \in DOMAIN tokens, ReadToken(h, k)
       PROVE  SignInInv'
  <2>1. /\ [pc |-> "rotating", token |-> k] \in HandlerState /\ tokens' = tokens
    BY <1>13, LenProperties DEF HandlerState, ReadToken, database, SignInInv, TypeInv
  <2>2. WorksOn([pc |-> "rotating", token |-> k], DOMAIN codes', DOMAIN tokens')
    BY <1>13, <2>1 DEF WorksOn, OnCode
  <2> QED  BY <1>1, <1>13, <2>1, <2>2 DEF ReadToken, database, history, SignInInv, TypeInv
<1>14. ASSUME NEW T \in [DOMAIN tokens -> Token], tokens' = T,
              \A k \in DOMAIN tokens : T[k].login = tokens[k].login
       PROVE  /\ tokens' \in Seq(Token) /\ DOMAIN tokens' = DOMAIN tokens
              /\ \A k \in DOMAIN tokens' : tokens'[k].login \in 1 .. k
  <2>1. DOMAIN tokens = 1 .. Len(tokens) /\ Len(tokens) \in Nat
    BY LenProperties DEF SignInInv, TypeInv
  <2>2. tokens' \in Seq(Token) /\ DOMAIN tokens' = DOMAIN tokens
    BY <1>14, <2>1, SeqOf
  <2> QED  BY <1>14, <2>2 DEF SignInInv, RowsThere
<1>15. \A k \in DOMAIN tokens : tokens[k] \in Token
  BY ElementOfSeq, LenProperties DEF SignInInv, TypeInv
<1>16. ASSUME NEW h \in Handlers, RevokeToken(h)
       PROVE  SignInInv'
  <2> DEFINE k == handler[h].token
             T == [i \in DOMAIN tokens |->
                     IF i \in RevokedBy(k) THEN [tokens[i] EXCEPT !.revoked = TRUE]
                                           ELSE tokens[i]]
             x == [pc |-> "reissuing", login |-> tokens[k].login]
  <2>1. k \in DOMAIN tokens
    BY <1>16 DEF RevokeToken, SignInInv, RowsThere, WorksOn
  <2>2. T \in [DOMAIN tokens -> Token] /\ \A i \in DOMAIN tokens : T[i].login = tokens[i].login
    BY <1>15 DEF Token
  <2>3. tokens' = T /\ Goto(h, x) /\ UNCHANGED <<codes, guesses, spent, account, password>>
    BY <1>16 DEF RevokeToken
  <2>4. /\ tokens' \in Seq(Token) /\ DOMAIN tokens' = DOMAIN tokens
        /\ \A i \in DOMAIN tokens' : tokens'[i].login \in 1 .. i
    <3> HIDE DEF T
    <3> QED  BY <1>14, <2>2, <2>3
  <2>5. tokens[k].login \in 1 .. k /\ k \in 1 .. Len(tokens)
    BY <2>1, LenProperties DEF SignInInv, TypeInv, RowsThere
  <2>6. tokens[k].login \in DOMAIN tokens /\ tokens[k].login \in Nat
    BY <2>5, LenProperties DEF SignInInv, TypeInv
  <2>7. x \in HandlerState /\ WorksOn(x, DOMAIN codes', DOMAIN tokens')
    BY <2>4, <2>6 DEF HandlerState, WorksOn, OnCode
  <2> HIDE DEF x, T
  <2>8. /\ handler' \in [Handlers -> HandlerState]
        /\ \A g \in Handlers : WorksOn(handler'[g], DOMAIN codes', DOMAIN tokens')
    BY <2>3, <2>4, <2>7, GotoStep
  <2> QED  BY <2>3, <2>4, <2>8 DEF SignInInv, TypeInv, RowsThere
<1>17. ASSUME NEW k \in DOMAIN tokens, Logout(k)
       PROVE  SignInInv'
  <2> DEFINE T == [tokens EXCEPT ![k].revoked = TRUE]
  <2>1. T \in [DOMAIN tokens -> Token] /\ \A i \in DOMAIN tokens : T[i].login = tokens[i].login
    BY <1>15, LenProperties DEF Token, SignInInv, TypeInv
  <2>2. tokens' = T /\ UNCHANGED <<codes, guesses, spent, account, password, handler>>
    BY <1>17 DEF Logout
  <2>3. /\ tokens' \in Seq(Token) /\ DOMAIN tokens' = DOMAIN tokens
        /\ \A i \in DOMAIN tokens' : tokens'[i].login \in 1 .. i
    <3> HIDE DEF T
    <3> QED  BY <1>14, <2>1, <2>2
  <2> QED  BY <2>2, <2>3 DEF SignInInv, TypeInv, RowsThere
<1>18. CASE Restart
  BY <1>0, <1>18 DEF Restart, database, SignInInv, TypeInv, RowsThere
<1>19. CASE Tick
  <2> DEFINE C == [c \in DOMAIN codes |-> [codes[c] EXCEPT !.left = Later(@)]]
  <2>1. \A c \in DOMAIN codes : codes[c] \in Code
    BY ElementOfSeq, LenProperties DEF SignInInv, TypeInv
  <2>2. C \in [DOMAIN codes -> Code]
    BY <2>1 DEF Later, Code
  <2>3. codes' = C
    BY <1>19 DEF Tick
  <2>4. DOMAIN codes = 1 .. Len(codes) /\ Len(codes) \in Nat
    BY LenProperties DEF SignInInv, TypeInv
  <2> HIDE DEF C
  <2>5. codes' \in Seq(Code) /\ DOMAIN codes' = DOMAIN codes
    BY <2>2, <2>3, <2>4, SeqOf
  <2> QED  BY <1>19, <2>5 DEF Tick, SignInInv, TypeInv, RowsThere
<1>20. CASE SetPassword \/ UNCHANGED vars
  BY <1>20 DEF SetPassword, vars, database, history, SignInInv, TypeInv, RowsThere
<1> QED  BY <1>2, <1>3, <1>4, <1>6, <1>8, <1>10, <1>11, <1>12, <1>13, <1>16, <1>17, <1>18,
            <1>19, <1>20 DEF Next

LEMMA SignInTyped == Spec => []SignInInv
<1>1. Init => SignInInv
  <2> SUFFICES ASSUME Init
               PROVE  SignInInv
    OBVIOUS
  <2>1. /\ codes \in Seq(Code) /\ DOMAIN codes = {}
        /\ tokens \in Seq(Token) /\ DOMAIN tokens = {}
    BY EmptySeq, LenProperties DEF Init
  <2>2. guesses \in [DOMAIN codes -> Nat] /\ spent \in [DOMAIN codes -> Nat]
    BY <2>1 DEF Init
  <2>3. \A h \in Handlers : handler[h] = Idle
    BY DEF Init
  <2>4. Idle \in HandlerState /\ WorksOn(Idle, DOMAIN codes, DOMAIN tokens)
    BY DEF HandlerState, WorksOn, Idle, OnCode
  <2>5. handler \in [Handlers -> HandlerState] /\ account \in BOOLEAN /\ password \in BOOLEAN
    BY <2>4 DEF Init
  <2> QED  BY <2>1, <2>2, <2>3, <2>4, <2>5 DEF SignInInv, TypeInv, RowsThere
<1> QED  BY <1>1, SignInStep, PTL DEF Spec

-----------------------------------------------------------------------------
(* One-time codes.                                                         *)

\* What a step may make of a handler, as far as codes go: it starts on the
\* code it looked up, goes on with the code it has, or stops.
Moved(g) ==
  \/ handler'[g] = handler[g]
  \/ handler'[g].pc \notin OnCode
  \/ handler'[g].pc = "signing" /\ handler'[g].code = NoCode
  \/ /\ handler[g].pc \in {"comparing", "registering"}
     /\ handler'[g].pc \in {"registering", "signing"}
     /\ handler'[g].code = handler[g].code
  \/ /\ SignInUser(g)
     /\ handler'[g].pc = "consuming"
     /\ handler'[g].code = handler[g].code
  \/ LookUpCode(g)

LEMMA Moves == SignInInv /\ [Next]_vars => \A g \in Handlers : Moved(g)
<1> SUFFICES ASSUME SignInInv, [Next]_vars
             PROVE  \A g \in Handlers : Moved(g)
  OBVIOUS
<1>1. ASSUME NEW h \in Handlers, NEW x, Goto(h, x)
      PROVE  \A g \in Handlers : handler'[g] = IF g = h THEN x ELSE handler[g]
  BY <1>1 DEF Goto, SignInInv, TypeInv
<1>2. ASSUME NEW h \in Handlers, NEW x, Goto(h, x), x.pc \notin OnCode
      PROVE  \A g \in Handlers : Moved(g)
  BY <1>1, <1>2 DEF Moved
<1>3. Idle.pc \notin OnCode
  BY DEF Idle, OnCode
<1>4. ASSUME NEW h \in Handlers, Done(h)
      PROVE  \A g \in Handlers : Moved(g)
  BY <1>2, <1>3, <1>4 DEF Done
<1>5. ASSUME NEW h \in Handlers, RequestOtp(h) \/ CreateCode(h) \/ WrongCode(h)
                                 \/ ConsumeCode(h) \/ ReissueToken(h) \/ Fail(h)
      PROVE  \A g \in Handlers : Moved(g)
  BY <1>2, <1>4, <1>5 DEF RequestOtp, CreateCode, WrongCode, ConsumeCode, ReissueToken,
      Fail, OnCode
<1>6. ASSUME NEW h \in Handlers, LookUpCode(h)
      PROVE  \A g \in Handlers : Moved(g)
  <2>1. PICK c : Goto(h, [pc |-> "comparing", code |-> c])
    BY <1>6 DEF LookUpCode
  <2> QED  BY <1>1, <1>6, <2>1 DEF Moved
<1>7. ASSUME NEW h \in Handlers, FindUser(h) \/ Register(h)
      PROVE  \A g \in Handlers : Moved(g)
  <2>1. handler[h] \in [pc : OnCode, code : Nat]
    BY <1>7, StateShape DEF FindUser, Register, OnCode, SignInInv, TypeInv
  <2>2. \/ Done(h)
        \/ \E p \in {"registering", "signing"} : Goto(h, [handler[h] EXCEPT !.pc = p])
    BY <1>7 DEF FindUser, Register
  <2>3. handler[h].pc \in {"comparing", "registering"}
    BY <1>7 DEF FindUser, Register
  <2>4. ASSUME NEW p \in {"registering", "signing"}, Goto(h, [handler[h] EXCEPT !.pc = p])
        PROVE  \A g \in Handlers : Moved(g)
    BY <1>1, <2>1, <2>3, <2>4 DEF Moved
  <2> QED  BY <1>4, <2>2, <2>4
<1>8. ASSUME NEW h \in Handlers, SignInUser(h)
      PROVE  \A g \in Handlers : Moved(g)
  <2>1. handler[h] \in [pc : OnCode, code : Nat]
    BY <1>8, StateShape DEF SignInUser, OnCode, SignInInv, TypeInv
  <2>2. Done(h) \/ Goto(h, [handler[h] EXCEPT !.pc = "consuming"])
    BY <1>8 DEF SignInUser
  <2>3. ASSUME Goto(h, [handler[h] EXCEPT !.pc = "consuming"])
        PROVE  \A g \in Handlers : Moved(g)
    BY <1>1, <1>8, <2>1, <2>3 DEF Moved
  <2> QED  BY <1>4, <2>2, <2>3
<1>9. ASSUME NEW h \in Handlers, LogInWithPassword(h)
      PROVE  \A g \in Handlers : Moved(g)
  <2>1. Done(h) \/ Goto(h, [pc |-> "signing", code |-> NoCode])
    BY <1>9 DEF LogInWithPassword
  <2>2. ASSUME Goto(h, [pc |-> "signing", code |-> NoCode])
        PROVE  \A g \in Handlers : Moved(g)
    BY <1>1, <2>2 DEF Moved
  <2> QED  BY <1>4, <2>1, <2>2
<1>10. ASSUME NEW h \in Handlers, \/ \E k \in DOMAIN tokens : ReadToken(h, k)
                                  \/ RevokeToken(h)
       PROVE  \A g \in Handlers : Moved(g)
  BY <1>2, <1>10 DEF ReadToken, RevokeToken, OnCode
<1>11. CASE Restart
  BY <1>3, <1>11 DEF Restart, Moved
<1>12. CASE SetPassword \/ (\E k \in DOMAIN tokens : Logout(k)) \/ Tick \/ UNCHANGED vars
  BY <1>12 DEF SetPassword, Logout, Tick, vars, Moved
<1> QED  BY <1>5, <1>6, <1>7, <1>8, <1>9, <1>10, <1>11, <1>12 DEF Next

\* What a step may do to the codes.
CodesKept ==
  /\ DOMAIN codes' = DOMAIN codes
  /\ \A c \in DOMAIN codes : codes'[c].attempts = codes[c].attempts

LEMMA CodesStep ==
  SignInInv /\ [Next]_vars =>
    \/ \E h \in Handlers : CreateCode(h)
    \/ \E h \in Handlers : WrongCode(h)
    \/ CodesKept /\ guesses' = guesses
<1> SUFFICES ASSUME SignInInv, [Next]_vars,
                    ~ \E h \in Handlers : CreateCode(h) \/ WrongCode(h)
             PROVE  CodesKept /\ guesses' = guesses
  OBVIOUS
<1>1. ASSUME UNCHANGED <<codes, guesses>>
      PROVE  CodesKept /\ guesses' = guesses
  BY <1>1 DEF CodesKept
<1>2. \A c \in DOMAIN codes : codes[c] \in Code
  BY ElementOfSeq, LenProperties DEF SignInInv, TypeInv
<1>3. ASSUME NEW h \in Handlers, ConsumeCode(h)
      PROVE  CodesKept /\ guesses' = guesses
  <2> DEFINE c == handler[h].code
  <2>1. c \in DOMAIN codes
    BY <1>3 DEF ConsumeCode, SignInInv, RowsThere, WorksOn, OnCode
  <2>2. codes' = [codes EXCEPT ![c] = [codes[c] EXCEPT !.consumed = TRUE]]
    BY <1>3 DEF ConsumeCode
  <2>3. [codes[c] EXCEPT !.consumed = TRUE].attempts = codes[c].attempts
    BY <1>2, <2>1 DEF Code
  <2>4. [codes[c] EXCEPT !.consumed = TRUE] \in Code
    BY <1>2, <2>1, CodeStep
  <2>5. /\ DOMAIN codes' = DOMAIN codes
        /\ \A d \in DOMAIN codes :
             codes'[d] = IF d = c THEN [codes[c] EXCEPT !.consumed = TRUE] ELSE codes[d]
    <3> DEFINE x == [codes[c] EXCEPT !.consumed = TRUE]
    <3>1. x \in Code /\ codes' = [codes EXCEPT ![c] = x] /\ codes \in Seq(Code)
      BY <2>2, <2>4 DEF SignInInv, TypeInv
    <3> HIDE DEF x
    <3>2. codes' \in Seq(Code) /\ Len(codes') = Len(codes)
          /\ \A d \in 1 .. Len(codes) : codes'[d] = IF d = c THEN x ELSE codes[d]
      BY <2>1, <3>1, ExceptSeq, LenProperties
    <3> QED  BY <3>1, <3>2, LenProperties DEF x
  <2> QED  BY <1>3, <2>3, <2>5 DEF ConsumeCode, history, CodesKept
<1>4. CASE Tick
  BY <1>2, <1>4 DEF Tick, CodesKept, Code
<1>5. ASSUME NEW h \in Handlers,
             \/ RequestOtp(h) \/ LookUpCode(h) \/ FindUser(h) \/ Register(h) \/ SignInUser(h)
             \/ LogInWithPassword(h) \/ RevokeToken(h) \/ ReissueToken(h) \/ Fail(h)
             \/ \E k \in DOMAIN tokens : ReadToken(h, k)
      PROVE  CodesKept /\ guesses' = guesses
  BY <1>1, <1>5 DEF RequestOtp, LookUpCode, FindUser, Register, SignInUser, LogInWithPassword,
      RevokeToken, ReissueToken, Fail, ReadToken, database, history
<1>6. CASE SetPassword \/ (\E k \in DOMAIN tokens : Logout(k)) \/ Restart \/ UNCHANGED vars
  BY <1>1, <1>6 DEF SetPassword, Logout, Restart, vars, database, history
<1> QED  BY <1>3, <1>4, <1>5, <1>6 DEF Next

Comparing(c) == { h \in Handlers : handler[h].pc = "comparing" /\ handler[h].code = c }

\* A handler that compares was let through below the limit, so a wrong guess
\* that is still to be counted stays within one per handler.
GuessesCounted ==
  \A c \in DOMAIN codes :
    /\ guesses[c] = codes[c].attempts
    /\ guesses[c] + Cardinality(Comparing(c)) <= OTP_MAX_ATTEMPTS + Cardinality(Handlers) - 1

LEMMA FewerHandlers ==
  ASSUME NEW H \in SUBSET Handlers, NEW G \in SUBSET H
  PROVE  /\ Cardinality(G) \in Nat /\ Cardinality(H) \in Nat /\ Cardinality(Handlers) \in Nat
         /\ Cardinality(G) <= Cardinality(H)
         /\ Cardinality(H) <= Cardinality(Handlers)
<1>1. IsFiniteSet(Handlers) /\ IsFiniteSet(H) /\ IsFiniteSet(G)
  BY SignInAssumption, FS_Subset
<1> QED  BY <1>1, FS_Subset, FS_CardinalityType

LEMMA GuessStep == SignInInv /\ GuessesCounted /\ [Next]_vars => GuessesCounted'
<1> SUFFICES ASSUME SignInInv, GuessesCounted, [Next]_vars
             PROVE  GuessesCounted'
  OBVIOUS
<1>0. OTP_MAX_ATTEMPTS \in Nat \ {0}
  BY SignInAssumption
<1>1. \A c : Comparing(c) \in SUBSET Handlers
  BY DEF Comparing
<1>2. \A c \in DOMAIN codes : guesses[c] \in Nat
  BY DEF SignInInv, TypeInv
<1>3. ASSUME NEW c \in DOMAIN codes, Comparing(c)' \subseteq Comparing(c),
             guesses'[c] = guesses[c]
      PROVE  guesses'[c] + Cardinality(Comparing(c)')
               <= OTP_MAX_ATTEMPTS + Cardinality(Handlers) - 1
  <2>1. /\ Cardinality(Comparing(c)') \in Nat /\ Cardinality(Comparing(c)) \in Nat
        /\ Cardinality(Handlers) \in Nat
        /\ Cardinality(Comparing(c)') <= Cardinality(Comparing(c))
    BY <1>1, <1>3, FewerHandlers
  <2>2. guesses[c] + Cardinality(Comparing(c)) <= OTP_MAX_ATTEMPTS + Cardinality(Handlers) - 1
    BY DEF GuessesCounted
  <2> QED  BY <1>0, <1>2, <1>3, <2>1, <2>2
<1>4. ASSUME NEW c, \A g \in Handlers : ~LookUpCode(g)
      PROVE  Comparing(c)' \subseteq Comparing(c)
  <2>1. \A g \in Handlers : Moved(g)
    BY Moves
  <2> QED  BY <1>4, <2>1 DEF Moved, Comparing, OnCode
<1>5. ASSUME NEW h \in Handlers, CreateCode(h)
      PROVE  GuessesCounted'
  <2>0. PICK n : n = Len(codes) + 1
    OBVIOUS
  <2> DEFINE new == [left |-> OTP_TTL, attempts |-> 0, consumed |-> FALSE]
  <2>1. new \in Code /\ codes \in Seq(Code) /\ codes' = Append(codes, new)
    BY <1>5, SignInAssumption DEF Code, CreateCode, SignInInv, TypeInv
  <2>2. new.attempts = 0
    OBVIOUS
  <2>3. /\ DOMAIN codes' = DOMAIN codes \cup {n} /\ DOMAIN codes = 1 .. Len(codes)
        /\ Len(codes) \in Nat
        /\ codes'[n] = new /\ \A c \in DOMAIN codes : codes'[c] = codes[c]
    <3> HIDE DEF new
    <3> QED  BY <2>0, <2>1, SeqAppend
  <2>4. guesses'[n] = 0 /\ \A c \in DOMAIN codes : guesses'[c] = guesses[c]
    <3>1. guesses \in Seq(Nat) /\ Len(guesses) = Len(codes) /\ guesses' = Append(guesses, 0)
      BY <1>5, <2>3, SeqOf DEF CreateCode, SignInInv, TypeInv
    <3> QED  BY <2>0, <2>3, <3>1, SeqAppend
  <2>5. n \notin DOMAIN codes
    BY <2>0, <2>3
  <2>6. \A c : Comparing(c)' \subseteq Comparing(c)
    <3>1. \A g \in Handlers : handler'[g] = IF g = h THEN Idle ELSE handler[g]
      BY <1>5 DEF CreateCode, Done, Goto, SignInInv, TypeInv
    <3> QED  BY <3>1 DEF Comparing, Idle
  <2>7. Comparing(n)' = {}
    <3>1. \A g \in Handlers : handler[g].pc = "comparing" => handler[g].code \in DOMAIN codes
      BY DEF SignInInv, RowsThere, WorksOn, OnCode
    <3> QED  BY <2>5, <2>6, <3>1 DEF Comparing
  <2>8. guesses'[n] + Cardinality(Comparing(n)') <= OTP_MAX_ATTEMPTS + Cardinality(Handlers) - 1
    <3>1. Cardinality(Comparing(n)') = 0
      BY <2>7, FS_EmptySet
    <3>2. Cardinality(Handlers) \in Nat
      BY SignInAssumption, FS_CardinalityType
    <3> QED  BY <1>0, <2>4, <3>1, <3>2
  <2>9. \A c \in DOMAIN codes' : guesses'[c] = codes'[c].attempts
    BY <2>2, <2>3, <2>4 DEF GuessesCounted
  <2>10. \A c \in DOMAIN codes' :
           guesses'[c] + Cardinality(Comparing(c)') <= OTP_MAX_ATTEMPTS + Cardinality(Handlers) - 1
    BY <1>3, <2>3, <2>4, <2>6, <2>8
  <2> QED  BY <2>9, <2>10 DEF GuessesCounted, Comparing
<1>6. ASSUME NEW h \in Handlers, LookUpCode(h)
      PROVE  GuessesCounted'
  <2>1. PICK c \in DOMAIN codes : AttemptsLeft(c) /\ Goto(h, [pc |-> "comparing", code |-> c])
    BY <1>6 DEF LookUpCode, Usable
  <2>2. codes' = codes /\ guesses' = guesses
    BY <1>6 DEF LookUpCode, database
  <2>3. \A g \in Handlers :
          handler'[g] = IF g = h THEN [pc |-> "comparing", code |-> c] ELSE handler[g]
    BY <2>1 DEF Goto, SignInInv, TypeInv
  <2>4. \A d \in DOMAIN codes \ {c} : Comparing(d)' \subseteq Comparing(d)
    BY <2>3 DEF Comparing
  <2>5. guesses'[c] + Cardinality(Comparing(c)') <= OTP_MAX_ATTEMPTS + Cardinality(Handlers) - 1
    <3>1. /\ Cardinality(Comparing(c)') \in Nat /\ Cardinality(Handlers) \in Nat
          /\ Cardinality(Comparing(c)') <= Cardinality(Handlers)
      <4>1. Comparing(c)' \in SUBSET Handlers
        BY DEF Comparing
      <4> QED  BY <4>1, FewerHandlers
    <3>2. guesses[c] < OTP_MAX_ATTEMPTS
      BY <2>1 DEF AttemptsLeft, GuessesCounted
    <3> QED  BY <1>0, <1>2, <2>2, <3>1, <3>2
  <2>6. \A d \in DOMAIN codes :
          guesses'[d] + Cardinality(Comparing(d)') <= OTP_MAX_ATTEMPTS + Cardinality(Handlers) - 1
    BY <1>3, <2>2, <2>4, <2>5
  <2> QED  BY <2>2, <2>6 DEF GuessesCounted, Comparing
<1>7. ASSUME NEW h \in Handlers, WrongCode(h)
      PROVE  GuessesCounted'
  <2>0. PICK c : c = handler[h].code
    OBVIOUS
  <2> DEFINE x == [codes[c] EXCEPT !.attempts = codes[c].attempts + 1]
  <2>1. c \in DOMAIN codes /\ h \in Comparing(c)
    BY <1>7, <2>0 DEF WrongCode, SignInInv, RowsThere, WorksOn, OnCode, Comparing
  <2>2. codes[c] \in Code /\ codes \in Seq(Code)
    BY <2>1, ElementOfSeq, LenProperties DEF SignInInv, TypeInv
  <2>3. x \in Code /\ x.attempts = codes[c].attempts + 1
    BY <2>2, CodeStep DEF Code
  <2>4. codes' = [codes EXCEPT ![c] = x]
    BY <1>7, <2>0 DEF WrongCode
  <2>5. /\ DOMAIN codes' = DOMAIN codes
        /\ \A d \in DOMAIN codes : codes'[d] = IF d = c THEN x ELSE codes[d]
    <3> HIDE DEF x
    <3>1. codes' \in Seq(Code) /\ Len(codes') = Len(codes)
          /\ \A d \in 1 .. Len(codes) : codes'[d] = IF d = c THEN x ELSE codes[d]
      BY <2>1, <2>2, <2>3, <2>4, ExceptSeq, LenProperties
    <3> QED  BY <2>2, <3>1, LenProperties
  <2>6. \A d \in DOMAIN codes : guesses'[d] = IF d = c THEN guesses[c] + 1 ELSE guesses[d]
    <3> DEFINE D == DOMAIN codes
    <3>1. guesses \in [D -> Nat] /\ guesses' = [guesses EXCEPT ![c] = guesses[c] + 1]
      BY <1>7, <2>0 DEF WrongCode, SignInInv, TypeInv
    <3> HIDE DEF D
    <3>2. \A d \in D : guesses'[d] = IF d = c THEN guesses[c] + 1 ELSE guesses[d]
      BY <3>1
    <3> QED  BY <3>2 DEF D
  <2>7. \A g \in Handlers : handler'[g] = IF g = h THEN Idle ELSE handler[g]
    BY <1>7 DEF WrongCode, Done, Goto, SignInInv, TypeInv
  <2>8. /\ Comparing(c)' = Comparing(c) \ {h}
        /\ \A d \in DOMAIN codes \ {c} : Comparing(d)' \subseteq Comparing(d)
    BY <2>0, <2>7 DEF Comparing, Idle
  <2>9. guesses'[c] + Cardinality(Comparing(c)') <= OTP_MAX_ATTEMPTS + Cardinality(Handlers) - 1
    <3>1. Cardinality(Comparing(c)') = Cardinality(Comparing(c)) - 1
      <4>1. IsFiniteSet(Comparing(c))
        BY <1>1, SignInAssumption, FS_Subset
      <4> QED  BY <2>1, <2>8, <4>1, FS_RemoveElement
    <3>2. Cardinality(Comparing(c)) \in Nat /\ Cardinality(Handlers) \in Nat
      BY <1>1, FewerHandlers
    <3>3. guesses[c] + Cardinality(Comparing(c)) <= OTP_MAX_ATTEMPTS + Cardinality(Handlers) - 1
      BY <2>1 DEF GuessesCounted
    <3>4. guesses'[c] = guesses[c] + 1 /\ guesses[c] \in Nat
      BY <1>2, <2>1, <2>6
    <3> QED  BY <1>0, <3>1, <3>2, <3>3, <3>4
  <2>10. \A d \in DOMAIN codes :
           guesses'[d] + Cardinality(Comparing(d)') <= OTP_MAX_ATTEMPTS + Cardinality(Handlers) - 1
    BY <1>3, <2>6, <2>8, <2>9
  <2>11. \A d \in DOMAIN codes : guesses'[d] = codes'[d].attempts
    BY <2>1, <2>3, <2>5, <2>6 DEF GuessesCounted
  <2> QED  BY <2>5, <2>10, <2>11 DEF GuessesCounted, Comparing
<1>8. CASE CodesKept /\ guesses' = guesses /\ \A g \in Handlers : ~LookUpCode(g)
  BY <1>3, <1>4, <1>8, ZenonT(30) DEF GuessesCounted, CodesKept, Comparing
<1> QED  BY <1>5, <1>6, <1>7, <1>8, CodesStep

\* However many requests guess at once, a code takes its attempts and at most
\* one guess more for every further request.
THEOREM GuessesAreBounded == Spec => []GuessesBounded
<1>1. Init => GuessesCounted
  <2>1. Init => DOMAIN codes = {}
    BY EmptySeq, LenProperties DEF Init
  <2> QED  BY <2>1 DEF GuessesCounted
<1>2. SignInInv /\ GuessesCounted => GuessesBounded
  <2> SUFFICES ASSUME SignInInv, GuessesCounted, NEW c \in DOMAIN codes
               PROVE  guesses[c] <= OTP_MAX_ATTEMPTS + Cardinality(Handlers) - 1
    BY DEF GuessesBounded
  <2>1. Comparing(c) \in SUBSET Handlers
    BY DEF Comparing
  <2>2. Cardinality(Comparing(c)) \in Nat /\ Cardinality(Handlers) \in Nat
    BY <2>1, FewerHandlers
  <2>3. guesses[c] \in Nat /\ OTP_MAX_ATTEMPTS \in Nat
    BY SignInAssumption DEF SignInInv, TypeInv
  <2> QED  BY <2>2, <2>3 DEF GuessesCounted
<1> QED  BY <1>1, <1>2, GuessStep, SignInTyped, PTL DEF Spec

\* A code that was never looked up again is one request's alone, and was good
\* for nothing before that request signs in.
SpentBySigning ==
  \A c \in DOMAIN codes \ exposed :
    /\ spent[c] <= 1
    /\ \A g, h \in Working(c) : g = h
    /\ \A h \in Working(c) : handler[h].pc # "consuming" => spent[c] = 0

LEMMA SpentStep == SignInInv /\ SpentBySigning /\ [Next]_vars => SpentBySigning'
<1> SUFFICES ASSUME SignInInv, SpentBySigning, [Next]_vars
             PROVE  SpentBySigning'
  OBVIOUS
<1>0. \A g \in Handlers : Moved(g)
  BY Moves
<1>1. ASSUME NEW c \in DOMAIN codes, c # NoCode, \A g \in Handlers : ~LookUpCode(g)
      PROVE  /\ Working(c)' \subseteq Working(c)
             /\ \A g \in Working(c)' :
                  handler'[g].pc # "consuming" => handler[g].pc # "consuming"
  BY <1>0, <1>1 DEF Moved, Working, OnCode, SignInUser
<1>2. \A c \in DOMAIN codes : c # NoCode
  BY LenProperties DEF NoCode, SignInInv, TypeInv
<1>3. ASSUME DOMAIN codes' = DOMAIN codes, UNCHANGED <<spent, exposed>>,
             \A g \in Handlers : ~LookUpCode(g)
      PROVE  SpentBySigning'
  BY <1>1, <1>2, <1>3 DEF SpentBySigning
<1>4. ASSUME NEW h \in Handlers, CreateCode(h)
      PROVE  SpentBySigning'
  <2>0. PICK n : n = Len(codes) + 1
    OBVIOUS
  <2> DEFINE new == [left |-> OTP_TTL, attempts |-> 0, consumed |-> FALSE]
  <2>1. new \in Code /\ codes \in Seq(Code) /\ codes' = Append(codes, new)
    BY <1>4, SignInAssumption DEF Code, CreateCode, SignInInv, TypeInv
  <2>2. /\ DOMAIN codes' = DOMAIN codes \cup {n} /\ DOMAIN codes = 1 .. Len(codes)
        /\ Len(codes) \in Nat
    <3> HIDE DEF new
    <3> QED  BY <2>0, <2>1, SeqAppend
  <2>3. spent'[n] = 0 /\ \A c \in DOMAIN codes : spent'[c] = spent[c]
    <3>1. spent \in Seq(Nat) /\ Len(spent) = Len(codes) /\ spent' = Append(spent, 0)
      BY <1>4, <2>2, SeqOf DEF CreateCode, SignInInv, TypeInv
    <3> QED  BY <2>0, <2>2, <3>1, SeqAppend
  <2>4. \A g \in Handlers : handler'[g] = IF g = h THEN Idle ELSE handler[g]
    BY <1>4 DEF CreateCode, Done, Goto, SignInInv, TypeInv
  <2>5. \A c : /\ Working(c)' \subseteq Working(c)
               /\ \A g \in Working(c)' : handler'[g] = handler[g]
    BY <2>4 DEF Working, Idle
  <2>6. Working(n) = {}
    <3>1. n \notin DOMAIN codes /\ n # NoCode
      BY <2>0, <2>2 DEF NoCode
    <3> QED  BY <3>1 DEF Working, SignInInv, RowsThere, WorksOn, OnCode
  <2>7. exposed' = exposed
    BY <1>4 DEF CreateCode
  <2> QED  BY <2>2, <2>3, <2>5, <2>6, <2>7 DEF SpentBySigning
<1>5. ASSUME NEW h \in Handlers, LookUpCode(h)
      PROVE  SpentBySigning'
  <2>1. PICK c \in Usable :
          /\ Goto(h, [pc |-> "comparing", code |-> c])
          /\ exposed' = exposed \cup
               (IF Working(c) # {} \/ (spent[c] > 0 /\ ~codes[c].consumed) THEN {c} ELSE {})
    BY <1>5 DEF LookUpCode
  <2>2. codes' = codes /\ spent' = spent
    BY <1>5 DEF LookUpCode, database
  <2>3. c \in DOMAIN codes /\ ~codes[c].consumed
    BY DEF Usable
  <2>4. /\ handler[h] = Idle
        /\ \A g \in Handlers :
             handler'[g] = IF g = h THEN [pc |-> "comparing", code |-> c] ELSE handler[g]
    BY <1>5, <2>1 DEF LookUpCode, Goto, SignInInv, TypeInv
  <2>5. ASSUME NEW d \in DOMAIN codes, d # c
        PROVE  Working(d)' = Working(d) /\ \A g \in Working(d) : handler'[g] = handler[g]
    BY <2>4, <2>5 DEF Working, Idle
  <2>6. CASE c \in exposed'
    BY <2>1, <2>2, <2>5, <2>6 DEF SpentBySigning
  <2>7. CASE c \notin exposed'
    <3>1. Working(c) = {} /\ ~(spent[c] > 0)
      BY <2>1, <2>3, <2>7
    <3>2. spent[c] = 0
      BY <2>3, <3>1 DEF SignInInv, TypeInv
    <3>3. Working(c)' = {h}
      BY <2>4, <3>1 DEF Working
    <3>4. exposed' = exposed
      BY <2>1, <2>7
    <3> QED  BY <2>2, <2>5, <3>2, <3>3, <3>4 DEF SpentBySigning
  <2> QED  BY <2>6, <2>7
<1>6. ASSUME NEW h \in Handlers, SignInUser(h)
      PROVE  SpentBySigning'
  <2>0. PICK c : c = handler[h].code
    OBVIOUS
  <2>1. codes' = codes /\ exposed' = exposed /\ handler[h].pc = "signing"
        /\ \A g \in Handlers : ~LookUpCode(g)
    BY <1>6 DEF SignInUser, LookUpCode, Issue, database, SignInInv, TypeInv
  <2>2. CASE c = NoCode
    BY <1>3, <1>6, <2>0, <2>1, <2>2 DEF SignInUser
  <2>3. CASE c # NoCode
    <3>1. c \in DOMAIN codes /\ handler[h] \in [pc : OnCode, code : Nat]
      BY <2>0, <2>1, <2>3, StateShape DEF SignInInv, TypeInv, RowsThere, WorksOn, OnCode
    <3>2. /\ Goto(h, [handler[h] EXCEPT !.pc = "consuming"])
          /\ spent' = [spent EXCEPT ![c] = @ + 1]
      BY <1>6, <2>0, <2>3 DEF SignInUser
    <3>3. handler'[h].pc = "consuming" /\ h \in Working(c)
      BY <2>0, <2>1, <3>1, <3>2 DEF Goto, Working, SignInInv, TypeInv
    <3>4. \A d \in DOMAIN codes : spent'[d] = IF d = c THEN spent[c] + 1 ELSE spent[d]
      <4> DEFINE D == DOMAIN codes
      <4>1. spent \in [D -> Nat] /\ spent' = [spent EXCEPT ![c] = @ + 1]
        BY <3>2 DEF SignInInv, TypeInv
      <4> HIDE DEF D
      <4>2. \A d \in D : spent'[d] = IF d = c THEN spent[c] + 1 ELSE spent[d]
        BY <4>1
      <4> QED  BY <4>2 DEF D
    <3>5. ASSUME NEW d \in DOMAIN codes \ exposed
          PROVE  /\ spent'[d] <= 1
                 /\ \A f, g \in Working(d)' : f = g
                 /\ \A g \in Working(d)' : handler'[g].pc # "consuming" => spent'[d] = 0
      <4>1. /\ Working(d)' \subseteq Working(d)
            /\ \A g \in Working(d)' :
                 handler'[g].pc # "consuming" => handler[g].pc # "consuming"
        BY <1>1, <1>2, <2>1
      <4>2. CASE d # c
        BY <3>4, <4>1, <4>2 DEF SpentBySigning
      <4>3. CASE d = c
        <5>1. spent[c] = 0 /\ \A f, g \in Working(c) : f = g
          BY <2>1, <3>3, <4>3 DEF SpentBySigning
        <5>2. spent'[d] = 1
          BY <3>4, <4>3, <5>1
        <5> QED  BY <3>3, <4>1, <4>3, <5>1, <5>2
      <4> QED  BY <4>2, <4>3
    <3> QED  BY <2>1, <3>5 DEF SpentBySigning
  <2> QED  BY <2>2, <2>3
<1>7. ASSUME \A g \in Handlers : ~CreateCode(g) /\ ~LookUpCode(g) /\ ~SignInUser(g)
      PROVE  SpentBySigning'
  <2>1. UNCHANGED <<spent, exposed>>
    BY <1>7 DEF Next, RequestOtp, WrongCode, FindUser, Register, ConsumeCode, LogInWithPassword,
        ReadToken, RevokeToken, ReissueToken, Fail, SetPassword, Logout, Restart, Tick, vars,
        history
  <2>2. DOMAIN codes' = DOMAIN codes
    <3>1. ASSUME NEW h \in Handlers, WrongCode(h)
          PROVE  DOMAIN codes' = DOMAIN codes
      BY <3>1 DEF WrongCode
    <3> QED  BY <1>7, <3>1, CodesStep DEF CodesKept
  <2> QED  BY <1>3, <1>7, <2>1, <2>2
<1> QED  BY <1>4, <1>5, <1>6, <1>7

\* A code is good for one login unless it was looked up again before the first
\* had consumed it.
THEOREM CodesAreSpentOnce == Spec => []CodeSpentOnce
<1>1. Init => SpentBySigning
  <2>1. Init => DOMAIN codes = {}
    BY EmptySeq, LenProperties DEF Init
  <2> QED  BY <2>1 DEF SpentBySigning
<1>2. SpentBySigning => CodeSpentOnce
  BY DEF SpentBySigning, CodeSpentOnce
<1> QED  BY <1>1, <1>2, SpentStep, SignInTyped, PTL DEF Spec

-----------------------------------------------------------------------------
(* Refresh tokens.                                                         *)

ReissuingFor(h, login) == h \in Reissuing /\ handler[h].login = login

\* A login has a live token or a request that is about to issue one, and not
\* two of either, nor one of each.
OneHolder ==
  \A login \in Nat \ forked :
    /\ \A i, j \in LiveTokens(login) : i = j
    /\ \A g, h \in Handlers :
         ReissuingFor(g, login) /\ ReissuingFor(h, login) => g = h
    /\ \A h \in Handlers : ReissuingFor(h, login) => LiveTokens(login) = {}
    /\ (\E k \in DOMAIN tokens : tokens[k].login = login)
         => \/ LiveTokens(login) # {}
            \/ login \in over
            \/ \E h \in Handlers : ReissuingFor(h, login)

\* Steps that leave the tokens and the requests that reissue one alone.
LEMMA HolderKept ==
  ASSUME SignInInv, OneHolder, UNCHANGED <<tokens, forked>>, over \subseteq over',
         \A g \in Handlers : /\ handler'[g].pc = "reissuing" => handler'[g] = handler[g]
                             /\ handler[g].pc = "reissuing" =>
                                  handler'[g] = handler[g] \/ handler[g].login \in over'
  PROVE  OneHolder'
<1>1. \A g \in Handlers : \A login : ReissuingFor(g, login)' => ReissuingFor(g, login)
  BY DEF ReissuingFor, Reissuing
<1>2. \A g \in Handlers : \A login :
        ReissuingFor(g, login) => ReissuingFor(g, login)' \/ login \in over'
  BY DEF ReissuingFor, Reissuing
<1>3. \A login : LiveTokens(login)' = LiveTokens(login)
  BY DEF LiveTokens
<1> QED  BY <1>1, <1>2, <1>3 DEF OneHolder

LEMMA HolderStep == SignInInv /\ OneHolder /\ [Next]_vars => OneHolder'
<1> SUFFICES ASSUME SignInInv, OneHolder, [Next]_vars
             PROVE  OneHolder'
  OBVIOUS
<1>1. ASSUME NEW h \in Handlers, NEW x, Goto(h, x)
      PROVE  \A g \in Handlers : handler'[g] = IF g = h THEN x ELSE handler[g]
  BY <1>1 DEF Goto, SignInInv, TypeInv
<1>2. Idle.pc # "reissuing"
  BY DEF Idle
<1>3. ASSUME NEW h \in Handlers, NEW x, Goto(h, x), x.pc # "reissuing",
             handler[h].pc # "reissuing" \/ handler[h].login \in over',
             UNCHANGED <<tokens, forked>>, over \subseteq over'
      PROVE  OneHolder'
  BY <1>1, <1>3, HolderKept
<1>4. ASSUME NEW h \in Handlers,
             \/ RequestOtp(h) \/ CreateCode(h) \/ WrongCode(h) \/ ConsumeCode(h)
      PROVE  OneHolder'
  <2>1. Done(h) \/ Goto(h, [pc |-> "requesting"])
    BY <1>4 DEF RequestOtp, CreateCode, WrongCode, ConsumeCode
  <2>2. handler[h].pc # "reissuing" /\ UNCHANGED <<tokens, forked, over>>
    BY <1>2, <1>4 DEF RequestOtp, CreateCode, WrongCode, ConsumeCode, database, history
  <2> QED  BY <1>2, <1>3, <2>1, <2>2 DEF Done
<1>5. ASSUME NEW h \in Handlers, LookUpCode(h) \/ LogInWithPassword(h)
                                 \/ \E k \in DOMAIN tokens : ReadToken(h, k)
      PROVE  OneHolder'
  <2>1. handler[h].pc # "reissuing" /\ UNCHANGED <<tokens, forked, over>>
    BY <1>2, <1>5 DEF LookUpCode, LogInWithPassword, ReadToken, database, history
  <2>2. \/ \E c : Goto(h, [pc |-> "comparing", code |-> c])
        \/ Goto(h, [pc |-> "signing", code |-> NoCode])
        \/ Done(h)
        \/ \E k : Goto(h, [pc |-> "rotating", token |-> k])
    BY <1>5 DEF LookUpCode, LogInWithPassword, ReadToken
  <2>3. ASSUME NEW c, Goto(h, [pc |-> "comparing", code |-> c])
        PROVE  OneHolder'
    BY <1>3, <2>1, <2>3
  <2>4. CASE Goto(h, [pc |-> "signing", code |-> NoCode])
    BY <1>3, <2>1, <2>4
  <2>5. ASSUME NEW k, Goto(h, [pc |-> "rotating", token |-> k])
        PROVE  OneHolder'
    BY <1>3, <2>1, <2>5
  <2>6. CASE Done(h)
    BY <1>2, <1>3, <2>1, <2>6 DEF Done
  <2> QED  BY <2>2, <2>3, <2>4, <2>5, <2>6
<1>6. ASSUME NEW h \in Handlers, FindUser(h) \/ Register(h)
      PROVE  OneHolder'
  <2>1. handler[h] \in [pc : OnCode, code : Nat]
    BY <1>6, StateShape DEF FindUser, Register, OnCode, SignInInv, TypeInv
  <2>2. handler[h].pc # "reissuing" /\ UNCHANGED <<tokens, forked, over>>
    BY <1>6 DEF FindUser, Register, database, history
  <2>3. \/ Done(h)
        \/ Goto(h, [handler[h] EXCEPT !.pc = "signing"])
        \/ Goto(h, [handler[h] EXCEPT !.pc = "registering"])
    BY <1>6 DEF FindUser, Register
  <2>4. /\ [handler[h] EXCEPT !.pc = "signing"].pc # "reissuing"
        /\ [handler[h] EXCEPT !.pc = "registering"].pc # "reissuing"
    BY <2>1
  <2> QED  BY <1>2, <1>3, <2>2, <2>3, <2>4 DEF Done
<1>7. ASSUME NEW h \in Handlers, Fail(h)
      PROVE  OneHolder'
  <2>1. handler[h].pc = "reissuing" => handler[h].login \in over'
    BY <1>7 DEF Fail, CutShort, Reissuing
  <2>2. UNCHANGED <<tokens, forked>> /\ over \subseteq over'
    BY <1>7 DEF Fail, CutShort, database
  <2> QED  BY <1>2, <1>3, <1>7, <2>1, <2>2 DEF Fail, Done
<1>8. CASE Restart
  <2>1. \A g \in Handlers : handler'[g] = Idle
    BY <1>8 DEF Restart
  <2>2. \A g \in Handlers : handler[g].pc = "reissuing" => handler[g].login \in over'
    BY <1>8 DEF Restart, CutShort, Reissuing
  <2>3. UNCHANGED <<tokens, forked>> /\ over \subseteq over'
    BY <1>8 DEF Restart, CutShort, database
  <2> QED  BY <1>2, <2>1, <2>2, <2>3, HolderKept
<1>9. CASE SetPassword \/ Tick \/ UNCHANGED vars
  BY <1>9, HolderKept DEF SetPassword, Tick, vars, database, history
<1>10. DOMAIN tokens = 1 .. Len(tokens) /\ Len(tokens) \in Nat
  BY LenProperties DEF SignInInv, TypeInv
\* A token is issued, to a login that had none.
<1>11. ASSUME NEW l \in Nat, Issue(l), NEW n, n = Len(tokens) + 1
       PROVE  /\ DOMAIN tokens' = DOMAIN tokens \cup {n}
              /\ n \notin DOMAIN tokens
              /\ \A k \in DOMAIN tokens : tokens'[k] = tokens[k]
              /\ LiveTokens(l)' = LiveTokens(l) \cup {n}
              /\ tokens'[n].login = l
              /\ \A d : d # l => LiveTokens(d)' = LiveTokens(d)
  <2> DEFINE new == [login |-> l, revoked |-> FALSE]
  <2>1. new \in Token /\ tokens \in Seq(Token) /\ tokens' = Append(tokens, new)
    BY <1>11 DEF Token, Issue, SignInInv, TypeInv
  <2>2. new.login = l /\ ~new.revoked
    OBVIOUS
  <2> HIDE DEF new
  <2>3. /\ DOMAIN tokens' = DOMAIN tokens \cup {n}
        /\ \A i \in DOMAIN tokens : tokens'[i] = tokens[i]
        /\ tokens'[n] = new
    BY <1>11, <2>1, SeqAppend
  <2>4. n \notin DOMAIN tokens
    BY <1>10, <1>11
  <2> QED  BY <2>2, <2>3, <2>4 DEF LiveTokens
<1>12. ASSUME NEW h \in Handlers, SignInUser(h)
       PROVE  OneHolder'
  <2>0. PICK n : n = Len(tokens) + 1
    OBVIOUS
  <2>1. Issue(n) /\ n \in Nat /\ UNCHANGED <<forked, over>> /\ handler[h].pc = "signing"
    BY <1>10, <1>12, <2>0 DEF SignInUser
  <2>2. handler[h] \in [pc : OnCode, code : Nat]
    BY <2>1, StateShape DEF OnCode, SignInInv, TypeInv
  <2>3. PICK x : Goto(h, x) /\ x.pc # "reissuing"
    BY <1>2, <1>12, <2>2 DEF SignInUser, Done
  <2>4. \A g \in Handlers : \A login : ReissuingFor(g, login)' <=> ReissuingFor(g, login)
    BY <1>1, <2>1, <2>3 DEF ReissuingFor, Reissuing
  <2>5. \A k \in DOMAIN tokens : tokens[k].login # n
    BY <1>10, <2>0 DEF SignInInv, RowsThere
  <2>6. LiveTokens(n) = {} /\ \A g \in Handlers : ~ReissuingFor(g, n)
    <3>1. n \notin DOMAIN tokens
      BY <1>10, <2>0
    <3> QED  BY <2>5, <3>1 DEF LiveTokens, ReissuingFor, Reissuing, SignInInv, RowsThere, WorksOn
  <2>7. /\ DOMAIN tokens' = DOMAIN tokens \cup {n}
        /\ \A k \in DOMAIN tokens : tokens'[k] = tokens[k]
        /\ LiveTokens(n)' = {n}
        /\ tokens'[n].login = n
        /\ \A d : d # n => LiveTokens(d)' = LiveTokens(d)
    BY <1>11, <2>0, <2>1, <2>6
  <2> QED  BY <2>1, <2>4, <2>6, <2>7 DEF OneHolder
<1>13. ASSUME NEW h \in Handlers, ReissueToken(h)
       PROVE  OneHolder'
  <2>0. PICK n, l : n = Len(tokens) + 1 /\ l = handler[h].login
    OBVIOUS
  <2>1. /\ Issue(l) /\ UNCHANGED <<forked, over>> /\ Done(h)
        /\ ReissuingFor(h, l)
    BY <1>13, <2>0 DEF ReissueToken, history, ReissuingFor, Reissuing
  <2>2. l \in Nat
    BY <1>10, <1>13, <2>0 DEF ReissueToken, SignInInv, RowsThere, WorksOn
  <2>3. \A g \in Handlers : \A login :
          ReissuingFor(g, login)' <=> g # h /\ ReissuingFor(g, login)
    BY <1>1, <1>2, <2>1 DEF Done, ReissuingFor, Reissuing
  <2>4. /\ DOMAIN tokens' = DOMAIN tokens \cup {n}
        /\ \A k \in DOMAIN tokens : tokens'[k] = tokens[k]
        /\ LiveTokens(l)' = LiveTokens(l) \cup {n}
        /\ tokens'[n].login = l
        /\ \A d : d # l => LiveTokens(d)' = LiveTokens(d)
    BY <1>11, <2>0, <2>1, <2>2
  <2>5. \A d : d # l => ~ReissuingFor(h, d)
    BY <2>0 DEF ReissuingFor
  <2>6. l \notin forked =>
          LiveTokens(l)' = {n} /\ \A g \in Handlers : ~ReissuingFor(g, l)'
    BY <2>1, <2>2, <2>3, <2>4 DEF OneHolder
  <2> QED  BY <2>1, <2>3, <2>4, <2>5, <2>6 DEF OneHolder
\* One token is revoked.
<1>14. ASSUME NEW k \in DOMAIN tokens,
              tokens' = [i \in DOMAIN tokens |->
                           IF i \in {k} THEN [tokens[i] EXCEPT !.revoked = TRUE]
                                        ELSE tokens[i]]
       PROVE  /\ DOMAIN tokens' = DOMAIN tokens
              /\ \A i \in DOMAIN tokens : tokens'[i].login = tokens[i].login
              /\ \A d : LiveTokens(d)' = LiveTokens(d) \ {k}
  <2>1. \A i \in DOMAIN tokens : tokens[i] \in Token
    BY ElementOfSeq, LenProperties DEF SignInInv, TypeInv
  <2>2. \A i \in DOMAIN tokens :
          /\ tokens'[i].login = tokens[i].login
          /\ tokens'[i].revoked <=> tokens[i].revoked \/ i = k
    BY <1>14, <2>1 DEF Token
  <2> QED  BY <1>14, <2>2 DEF LiveTokens
<1>15. ASSUME NEW h \in Handlers, RevokeToken(h)
       PROVE  OneHolder'
  <2>0. PICK k, l : k = handler[h].token /\ l = tokens[k].login
    OBVIOUS
  <2>1. k \in DOMAIN tokens /\ handler[h].pc = "rotating"
    BY <1>15, <2>0 DEF RevokeToken, SignInInv, RowsThere, WorksOn
  <2>2. l \in Nat
    BY <1>10, <2>0, <2>1 DEF SignInInv, RowsThere
  <2>3. /\ Goto(h, [pc |-> "reissuing", login |-> l])
        /\ forked' = forked \cup (IF tokens[k].revoked THEN {l} ELSE {})
        /\ UNCHANGED over
    BY <1>15, <2>0 DEF RevokeToken
  <2>4. /\ DOMAIN tokens' = DOMAIN tokens
        /\ \A i \in DOMAIN tokens : tokens'[i].login = tokens[i].login
        /\ \A d : LiveTokens(d)' = LiveTokens(d) \ {k}
    BY <1>14, <1>15, <2>0, <2>1 DEF RevokeToken, RevokedBy
  <2>5. \A g \in Handlers : \A d :
          ReissuingFor(g, d)' <=> (g = h /\ d = l) \/ ReissuingFor(g, d)
    <3>1. \A g \in Handlers :
            handler'[g] = IF g = h THEN [pc |-> "reissuing", login |-> l] ELSE handler[g]
      BY <1>1, <2>3
    <3> QED  BY <2>1, <3>1 DEF ReissuingFor, Reissuing
  <2>6. \A d : d # l => k \notin LiveTokens(d)
    BY <2>0 DEF LiveTokens
  <2>7. l \notin forked' => k \in LiveTokens(l)
    BY <2>0, <2>1, <2>3 DEF LiveTokens
  <2>8. l \notin forked' =>
          LiveTokens(l)' = {} /\ \A g \in Handlers : ~ReissuingFor(g, l)
    BY <2>2, <2>3, <2>4, <2>7 DEF OneHolder
  <2>9. \A d \in Nat \ forked' : d # l =>
          LiveTokens(d)' = LiveTokens(d) /\ \A g \in Handlers : ReissuingFor(g, d)' <=> ReissuingFor(g, d)
    BY <2>4, <2>5, <2>6
  <2> QED  BY <2>3, <2>4, <2>5, <2>8, <2>9 DEF OneHolder
<1>16. ASSUME NEW k \in DOMAIN tokens, Logout(k)
       PROVE  OneHolder'
  <2>0. PICK l : l = tokens[k].login
    OBVIOUS
  <2>1. tokens' = [i \in DOMAIN tokens |->
                     IF i \in {k} THEN [tokens[i] EXCEPT !.revoked = TRUE] ELSE tokens[i]]
    BY <1>10, <1>16 DEF Logout, SignInInv, TypeInv
  <2>2. /\ DOMAIN tokens' = DOMAIN tokens
        /\ \A i \in DOMAIN tokens : tokens'[i].login = tokens[i].login
        /\ \A d : LiveTokens(d)' = LiveTokens(d) \ {k}
    BY <1>14, <2>1
  <2>3. over' = over \cup {l} /\ UNCHANGED <<handler, forked>>
    BY <1>16, <2>0 DEF Logout
  <2>4. \A d : d # l => LiveTokens(d)' = LiveTokens(d)
    BY <2>0, <2>2 DEF LiveTokens
  <2>5. \A g \in Handlers : \A d : ReissuingFor(g, d)' <=> ReissuingFor(g, d)
    BY <2>3 DEF ReissuingFor, Reissuing
  <2> QED  BY <2>2, <2>3, <2>4, <2>5 DEF OneHolder
<1> QED  BY <1>4, <1>5, <1>6, <1>7, <1>8, <1>9, <1>12, <1>13, <1>15, <1>16 DEF Next

\* A login has one token at a time until it is logged out or a rotation dies,
\* unless two of its own requests rotate the same token.
THEOREM LoginsHaveOneToken == Spec => []OneTokenPerLogin
<1>1. Init => OneHolder
  <2> SUFFICES ASSUME Init
               PROVE  OneHolder
    OBVIOUS
  <2>1. DOMAIN tokens = {}
    BY EmptySeq, LenProperties DEF Init
  <2>2. \A h \in Handlers : \A login : ~ReissuingFor(h, login)
    BY DEF Init, ReissuingFor, Reissuing, Idle
  <2> QED  BY <2>1, <2>2 DEF OneHolder, LiveTokens
<1>2. SignInInv /\ OneHolder => OneTokenPerLogin
  <2> SUFFICES ASSUME SignInInv, OneHolder, NEW k \in DOMAIN tokens, NEW login,
                      login = tokens[k].login, login \notin forked
               PROVE  /\ Cardinality(LiveTokens(login)) <= 1
                      /\ LiveTokens(login) = {} =>
                           \/ login \in over
                           \/ \E h \in Reissuing : handler[h].login = login
    BY DEF OneTokenPerLogin
  <2>1. login \in Nat
    BY LenProperties DEF SignInInv, TypeInv, RowsThere
  <2>2. \A i, j \in LiveTokens(login) : i = j
    BY <2>1 DEF OneHolder
  <2>3. CASE LiveTokens(login) = {}
    BY <2>1, <2>3, FS_EmptySet DEF OneHolder, ReissuingFor, Reissuing
  <2>4. ASSUME NEW i \in LiveTokens(login)
        PROVE  Cardinality(LiveTokens(login)) = 1 /\ LiveTokens(login) # {}
    <3>1. LiveTokens(login) = {i}
      BY <2>2, <2>4
    <3> QED  BY <3>1, FS_Singleton
  <2> QED  BY <2>3, <2>4
<1> QED  BY <1>1, <1>2, HolderStep, SignInTyped, PTL DEF Spec

-----------------------------------------------------------------------------
(* The windows of the rate limiter.                                        *)

\* A window with so many hits and so much time left, and what was let through in
\* the last instants: since it opened, since just after that, and in all.  The
\* first hit of a window is Window instants ago by the time another one opens.
Counted(count, left, hits, limit) ==
  /\ \A i, j \in 1 .. Window : i <= j => hits[i] <= hits[j]
  /\ left = 0 => hits[Window] < limit
  /\ left # 0 =>
       /\ 0 < count /\ count <= limit
       /\ left < Window => hits[Window - left] < count
       /\ hits[Window] < limit + count

Hits == [1 .. Window -> Nat]
Buckets == [count : Nat, left : 0 .. Window]

HitsCounted ==
  /\ buckets \in [Keys -> Buckets]
  /\ grants \in [Keys -> Hits]
  /\ \A key \in Keys :
       Counted(buckets[key].count, buckets[key].left, grants[key], Limit[key])

LEMMA BucketParts ==
  ASSUME NEW b \in Buckets
  PROVE  /\ b.count \in Nat /\ b.left \in 0 .. Window
         /\ b.left # 0 => /\ [b EXCEPT !.left = @ - 1] \in Buckets
                          /\ [b EXCEPT !.left = @ - 1].count = b.count
                          /\ [b EXCEPT !.left = @ - 1].left = b.left - 1
<1>1. b.count \in Nat /\ b.left \in 0 .. Window /\ Window \in Nat
  BY SignInAssumption DEF Buckets
<1>2. b.left # 0 => [b EXCEPT !.left = b.left - 1] \in Buckets
  <2>1. b.left # 0 => b.left - 1 \in 0 .. Window
    BY <1>1
  <2> QED  BY <2>1, Zenon DEF Buckets
<1> QED  BY <1>1, <1>2 DEF Buckets

\* A hit is let through, into a new window or the one that is open.
LEMMA HitCounts ==
  ASSUME NEW limit \in Nat \ {0}, NEW count \in Nat, NEW left \in 0 .. Window,
         NEW hits \in Hits, NEW more \in Hits,
         \A i \in 1 .. Window : more[i] = hits[i] + 1,
         Counted(count, left, hits, limit)
  PROVE  /\ left = 0 => Counted(1, Window, more, limit)
         /\ left # 0 /\ count < limit => Counted(count + 1, left, more, limit)
<1>1. Window \in Nat \ {0} /\ \A i \in 1 .. Window : hits[i] \in Nat
  BY SignInAssumption DEF Hits
<1>2. \A i, j \in 1 .. Window : i <= j => more[i] <= more[j]
  BY <1>1 DEF Counted
<1>3. more[Window] = hits[Window] + 1 /\ hits[Window] \in Nat
  BY <1>1
<1>4. ASSUME left = 0 PROVE Counted(1, Window, more, limit)
  BY <1>1, <1>2, <1>3, <1>4 DEF Counted
<1>5. ASSUME left # 0, count < limit PROVE Counted(count + 1, left, more, limit)
  <2>1. hits[Window] < limit + count
    BY <1>5 DEF Counted
  <2>2. left < Window => more[Window - left] < count + 1
    <3> SUFFICES ASSUME left < Window PROVE more[Window - left] < count + 1
      OBVIOUS
    <3>1. Window - left \in 1 .. Window
      BY <1>1, <1>5
    <3>2. hits[Window - left] < count /\ hits[Window - left] \in Nat
      BY <1>1, <1>5, <3>1 DEF Counted
    <3> QED  BY <3>1, <3>2
  <2> QED  BY <1>2, <1>3, <1>5, <2>1, <2>2 DEF Counted
<1> QED  BY <1>4, <1>5

\* An instant passes.
LEMMA HitsGrowOld ==
  ASSUME NEW limit \in Nat \ {0}, NEW count \in Nat, NEW left \in 0 .. Window,
         NEW hits \in Hits, NEW older \in Hits,
         older[1] = 0, \A i \in 1 .. Window : i # 1 => older[i] = hits[i - 1],
         Counted(count, left, hits, limit)
  PROVE  /\ left <= 1 => Counted(0, 0, older, limit)
         /\ left > 1 => Counted(count, left - 1, older, limit)
<1>1. Window \in Nat \ {0} /\ \A i \in 1 .. Window : hits[i] \in Nat /\ older[i] \in Nat
  BY SignInAssumption DEF Hits
<1>2. \A i \in 1 .. Window : i # 1 => i - 1 \in 1 .. Window /\ older[i] = hits[i - 1]
  BY <1>1
<1>3. \A i, j \in 1 .. Window : i <= j => older[i] <= older[j]
  <2> SUFFICES ASSUME NEW i \in 1 .. Window, NEW j \in 1 .. Window, i <= j
               PROVE  older[i] <= older[j]
    OBVIOUS
  <2>1. CASE i = 1
    BY <1>1, <2>1
  <2>2. CASE i # 1
    <3>1. j # 1 /\ i - 1 <= j - 1
      BY <1>1, <2>2
    <3> QED  BY <1>2, <2>2, <3>1 DEF Counted
  <2> QED  BY <2>1, <2>2
<1>4. older[Window] <= hits[Window]
  <2>1. CASE Window = 1
    BY <1>1, <2>1
  <2>2. CASE Window # 1
    <3>1. Window \in 1 .. Window /\ Window - 1 <= Window
      BY <1>1
    <3> QED  BY <1>2, <2>2, <3>1 DEF Counted
  <2> QED  BY <2>1, <2>2
<1>5. ASSUME left <= 1 PROVE older[Window] < limit
  <2>1. CASE left = 0
    <3>1. hits[Window] < limit /\ hits[Window] \in Nat /\ older[Window] \in Nat
      BY <1>1, <2>1 DEF Counted
    <3> QED  BY <1>4, <3>1
  <2>2. CASE left = 1 /\ Window = 1
    BY <1>1, <2>2
  <2>3. CASE left = 1 /\ Window # 1
    <3>1. hits[Window - 1] < count /\ count <= limit
      BY <1>1, <2>3 DEF Counted
    <3>2. older[Window] = hits[Window - 1] /\ older[Window] \in Nat
      BY <1>1, <1>2, <2>3
    <3> QED  BY <3>1, <3>2
  <2> QED  BY <1>1, <1>5, <2>1, <2>2, <2>3
<1>6. ASSUME left > 1 PROVE Counted(count, left - 1, older, limit)
  <2>1. /\ 0 < count /\ count <= limit
        /\ hits[Window] < limit + count
        /\ left < Window => hits[Window - left] < count
    BY <1>1, <1>6 DEF Counted
  <2>2. older[Window] < limit + count
    <3>1. hits[Window] \in Nat /\ older[Window] \in Nat
      BY <1>1
    <3> QED  BY <1>4, <2>1, <3>1
  <2> DEFINE since == Window - (left - 1)
  <2>3. since \in 1 .. Window
    BY <1>1, <1>6
  <2>4. older[since] < count
    <3>1. CASE left = Window
      <4>1. since = 1
        BY <1>1, <3>1
      <4> HIDE DEF since
      <4> QED  BY <2>1, <4>1
    <3>2. CASE left < Window
      <4>1. since # 1 /\ since - 1 = Window - left
        BY <1>1, <1>6, <3>2
      <4> HIDE DEF since
      <4>2. older[since] = hits[Window - left]
        BY <1>2, <2>3, <4>1
      <4> QED  BY <2>1, <3>2, <4>2
    <3> QED  BY <1>1, <3>1, <3>2
  <2> QED  BY <1>1, <1>3, <1>6, <2>1, <2>2, <2>4 DEF Counted
<1> QED  BY <1>3, <1>5, <1>6 DEF Counted

\* RateLimitService.consume lets a hit through.
LEMMA ConsumeStep ==
  ASSUME HitsCounted, NEW key \in Keys, consume(key)
  PROVE  HitsCounted'
<1> DEFINE b == buckets[key]
           g == grants[key]
           f == [i \in 1 .. Window |-> g[i] + 1]
           c == IF Fresh(key) THEN [count |-> 1, left |-> Window]
                              ELSE [count |-> b.count + 1, left |-> b.left]
<1>1. /\ b \in Buckets /\ g \in Hits
      /\ Counted(b.count, b.left, g, Limit[key])
      /\ Limit[key] \in Nat \ {0}
      /\ Window \in Nat \ {0}
  BY SignInAssumption DEF HitsCounted
<1>2. f \in Hits /\ \A i \in 1 .. Window : f[i] = g[i] + 1
  BY <1>1 DEF Hits
<1>3. /\ buckets' = [buckets EXCEPT ![key] = c]
      /\ grants' = [grants EXCEPT ![key] = f]
      /\ Fresh(key) \/ ~Full(key)
  BY Zenon DEF consume
<1>4. b.count \in Nat /\ b.left \in 0 .. Window
  BY <1>1, BucketParts
<1>5. c \in Buckets /\ Counted(c.count, c.left, f, Limit[key])
  <2>1. CASE Fresh(key)
    <3>1. Counted(1, Window, f, Limit[key])
      <4> HIDE DEF b, f, g, c
      <4>1. b.left = 0
        BY <2>1 DEF Fresh, b
      <4> QED  BY <1>1, <1>2, <1>4, <4>1, HitCounts
    <3>2. c = [count |-> 1, left |-> Window]
      BY <2>1
    <3>3. c \in Buckets /\ c.count = 1 /\ c.left = Window
      BY <1>1, <3>2 DEF Buckets
    <3> HIDE DEF f, c
    <3> QED  BY <3>1, <3>3
  <2>2. CASE ~Fresh(key)
    <3>1. b.left # 0 /\ b.count < Limit[key]
      BY <1>1, <1>3, <1>4, <2>2 DEF Fresh, Full
    <3>2. Counted(b.count + 1, b.left, f, Limit[key])
      <4> HIDE DEF b, f, g, c
      <4> QED  BY <1>1, <1>2, <1>4, <3>1, HitCounts
    <3>3. c = [count |-> b.count + 1, left |-> b.left]
      BY <2>2
    <3> HIDE DEF b, f, c
    <3>4. c \in Buckets /\ c.count = b.count + 1 /\ c.left = b.left
      BY <1>4, <3>3 DEF Buckets
    <3> QED  BY <3>2, <3>4
  <2> QED  BY <2>1, <2>2
<1> HIDE DEF c, f
<1> QED  BY <1>2, <1>3, <1>5 DEF HitsCounted

\* Minutes go by.
LEMMA WindowsPass ==
  ASSUME HitsCounted, Tick
  PROVE  HitsCounted'
<1>1. ASSUME NEW key \in Keys
      PROVE  /\ buckets'[key] \in Buckets /\ grants'[key] \in Hits
             /\ Counted(buckets'[key].count, buckets'[key].left, grants'[key], Limit[key])
  <2> DEFINE b == buckets[key]
             g == grants[key]
             f == [i \in 1 .. Window |-> IF i = 1 THEN 0 ELSE g[i - 1]]
             c == IF b.left <= 1 THEN NoBucket ELSE [b EXCEPT !.left = @ - 1]
  <2>1. /\ b \in Buckets /\ g \in Hits
        /\ Counted(b.count, b.left, g, Limit[key])
        /\ Limit[key] \in Nat \ {0}
        /\ Window \in Nat \ {0}
    BY SignInAssumption DEF HitsCounted
  <2>2. f \in Hits /\ f[1] = 0 /\ \A i \in 1 .. Window : i # 1 => f[i] = g[i - 1]
    BY <2>1 DEF Hits
  <2>3. buckets'[key] = c /\ grants'[key] = f
    BY DEF Tick
  <2>4. b.count \in Nat /\ b.left \in 0 .. Window
    BY <2>1, BucketParts
  <2>5. c \in Buckets /\ Counted(c.count, c.left, f, Limit[key])
    <3>1. CASE b.left <= 1
      <4>1. Counted(0, 0, f, Limit[key])
        <5> HIDE DEF b, f, g, c
        <5> QED  BY <2>1, <2>2, <2>4, <3>1, HitsGrowOld
      <4>2. c = [count |-> 0, left |-> 0]
        BY <3>1 DEF NoBucket
      <4>3. c \in Buckets /\ c.count = 0 /\ c.left = 0
        BY <2>1, <4>2 DEF Buckets
      <4> HIDE DEF f, c
      <4> QED  BY <4>1, <4>3
    <3>2. CASE ~(b.left <= 1)
      <4>1. b.left > 1 /\ b.left # 0
        BY <2>1, <2>4, <3>2
      <4>2. Counted(b.count, b.left - 1, f, Limit[key])
        <5> HIDE DEF b, f, g, c
        <5> QED  BY <2>1, <2>2, <2>4, <4>1, HitsGrowOld
      <4>3. c = [b EXCEPT !.left = @ - 1]
        BY <3>2
      <4> HIDE DEF b, f, c
      <4>4. c \in Buckets /\ c.count = b.count /\ c.left = b.left - 1
        BY <2>1, <4>1, <4>3, BucketParts
      <4> QED  BY <4>2, <4>4
    <3> QED  BY <3>1, <3>2
  <2> HIDE DEF c, f
  <2> QED  BY <2>2, <2>3, <2>5
<1>2. DOMAIN buckets' = Keys /\ DOMAIN grants' = Keys
      /\ buckets' = [key \in Keys |-> buckets'[key]]
      /\ grants' = [key \in Keys |-> grants'[key]]
  BY DEF Tick
<1> QED  BY <1>1, <1>2 DEF HitsCounted

\* No more than two windows' worth less one passes in any stretch as long as a
\* window, whatever the limits and however the requests fall: HitsBounded.
THEOREM HitsAreBounded == Spec => []HitsBounded
<1>a. Window \in Nat \ {0} /\ \A k \in Keys : Limit[k] \in Nat \ {0}
  BY SignInAssumption
<1>b. /\ [key \in Keys |-> NoBucket] \in [Keys -> Buckets]
      /\ [key \in Keys |-> NoHits] \in [Keys -> Hits]
      /\ \A key \in Keys : Counted(NoBucket.count, NoBucket.left, NoHits, Limit[key])
  BY <1>a DEF Counted, NoBucket, NoHits, Buckets, Hits
<1>1. Init => HitsCounted
  BY <1>b DEF Init, HitsCounted
<1>2. HitsCounted /\ [Next]_vars => HitsCounted'
  <2> SUFFICES ASSUME HitsCounted, [Next]_vars
               PROVE  HitsCounted'
    OBVIOUS
  <2>1. CASE UNCHANGED <<buckets, grants>>
    BY <2>1 DEF HitsCounted
  <2>2. CASE \E key \in Keys : consume(key)
    BY <2>2, ConsumeStep
  <2>3. CASE Restart
    BY <1>b, <2>3 DEF HitsCounted, Restart
  <2>4. CASE Tick
    BY <2>4, WindowsPass
  <2>5. "otp" \in Keys /\ "password" \in Keys
    BY DEF Keys
  <2> QED  BY <2>1, <2>2, <2>3, <2>4, <2>5
           DEF Next, vars, database, history, RequestOtp, CreateCode, LookUpCode, WrongCode,
               FindUser, Register, SignInUser, ConsumeCode, LogInWithPassword, ReadToken,
               RevokeToken, ReissueToken, Fail, SetPassword, Logout
<1>3. HitsCounted => HitsBounded
  <2> SUFFICES ASSUME HitsCounted, NEW key \in Keys
               PROVE  grants[key][Window] <= 2 * Limit[key] - 1
    BY DEF HitsBounded
  <2>1. grants[key][Window] \in Nat /\ buckets[key].count \in Nat
    <3>1. buckets[key] \in Buckets /\ grants[key] \in Hits
      BY DEF HitsCounted
    <3>2. buckets[key].count \in Nat
      BY <3>1, BucketParts
    <3> QED  BY <1>a, <3>1, <3>2 DEF Hits
  <2>2. Counted(buckets[key].count, buckets[key].left, grants[key], Limit[key])
    BY DEF HitsCounted
  <2> QED  BY <1>a, <2>1, <2>2 DEF Counted
<1> QED  BY <1>1, <1>2, <1>3, PTL DEF Spec
=============================================================================
