--------------------------- MODULE CheckoutProofs ---------------------------
(***************************************************************************)
(* The money of a checkout, for every property, price, stay, number of     *)
(* rooms, amount of coins and change of the world: amounts are naturals,   *)
(* a booking is at the amounts that were quoted, and what can be booked is *)
(* listed for no more than it costs.                                       *)
(*                                                                         *)
(* A sum over the nights of a stay and a smallest price need induction     *)
(* over a set.  The library's induction theorems take a predicate, which   *)
(* the provers cannot instantiate; here the set of the naturals that       *)
(* satisfy the predicate takes its place.                                  *)
(***************************************************************************)
EXTENDS Checkout, FiniteSetTheorems, WellFoundedInduction, TLAPS

-----------------------------------------------------------------------------
(* Naturals.                                                               *)

\* A set of naturals that has some has a least one.
LEMMA LeastNatural ==
  ASSUME NEW S \in SUBSET Nat, S # {}
  PROVE  \E n \in S : \A m \in S : n <= m
<1>1. PICK n \in S : \A m \in S : ~(<<m, n>> \in OpToRel(<, Nat))
  BY WFMin, NatLessThanWellFounded
<1>2. \A m \in S : ~(m < n)
  BY <1>1 DEF OpToRel
<1> QED  BY <1>2

\* Min finds it.
LEMMA MinOfNaturals ==
  ASSUME NEW S \in SUBSET Nat, S # {}
  PROVE  Min(S) \in S /\ \A m \in S : Min(S) <= m
<1>1. PICK n \in S : \A m \in S : n =< m
  BY LeastNatural
<1> DEFINE least(x) == x \in S /\ \A m \in S : x =< m
<1>2. least(n)
  BY <1>1
<1>3. least(CHOOSE x : least(x))
  <2> HIDE DEF least
  <2> QED  BY <1>2, Zenon
<1>4. Min(S) = CHOOSE x : least(x)
  BY Zenon DEF Min
<1> QED  BY <1>3, <1>4

\* What is smallest is the minimum.
LEMMA MinIs ==
  ASSUME NEW S \in SUBSET Nat, NEW n \in S, \A m \in S : n <= m
  PROVE  Min(S) = n
<1> DEFINE least == Min(S)
<1>1. least \in S /\ \A m \in S : least <= m
  BY MinOfNaturals
<1> HIDE DEF least
<1>2. least = n
  BY <1>1
<1> QED  BY <1>2 DEF least

\* Induction, over the set of those for which something holds.
LEMMA SetOfAllNaturals ==
  ASSUME NEW N \in SUBSET Nat, 0 \in N, \A n \in N : n + 1 \in N
  PROVE  N = Nat
<1> SUFFICES ASSUME Nat \ N # {}
             PROVE  FALSE
  OBVIOUS
<1>1. PICK n \in Nat \ N : \A m \in Nat \ N : n <= m
  BY LeastNatural
<1>2. n - 1 \in Nat \ N
  OBVIOUS
<1> QED  BY <1>1, <1>2

-----------------------------------------------------------------------------
(* Sums.  SumFunctionOnSet chooses a function on the subsets of the set    *)
(* that is 0 for the empty one and otherwise takes out a chosen element:   *)
(* such a function exists, and it is a sum.                                *)

chosen(T) == CHOOSE x \in T : TRUE

Sums(f, S, g) ==
  g = [T \in SUBSET S |-> IF T = {} THEN 0 ELSE f[chosen(T)] + g[T \ {chosen(T)}]]

LEMMA SumIsChosen ==
  ASSUME NEW f, NEW S
  PROVE  SumFunctionOnSet(f, S) = (CHOOSE g : Sums(f, S, g))[S]
BY DEF SumFunctionOnSet, FoldFunctionOnSet, MapThenFoldSet, Sums, chosen

\* A subset less its chosen element is a smaller subset.
LEMMA OneFewer ==
  ASSUME NEW S, IsFiniteSet(S), NEW T \in SUBSET S, T # {}
  PROVE  /\ chosen(T) \in T
         /\ T \ {chosen(T)} \in SUBSET S
         /\ Cardinality(T) \in Nat \ {0}
         /\ Cardinality(T \ {chosen(T)}) = Cardinality(T) - 1
<1>1. chosen(T) \in T
  BY DEF chosen
<1>2. IsFiniteSet(T)
  BY FS_Subset
<1>3. Cardinality(T) \in Nat
  BY <1>2, FS_CardinalityType
<1>4. Cardinality(T) # 0
  BY <1>2, FS_EmptySet
<1>5. Cardinality(T \ {chosen(T)}) = Cardinality(T) - 1
  <2> DEFINE x == chosen(T)
  <2>1. x \in T
    BY <1>1
  <2> HIDE DEF x
  <2>2. Cardinality(T \ {x}) = IF x \in T THEN Cardinality(T) - 1 ELSE Cardinality(T)
    BY <1>2, FS_RemoveElement
  <2> QED  BY <2>1, <2>2 DEF x
<1> QED  BY <1>1, <1>3, <1>4, <1>5

\* Such a function can be built up from the small subsets to the large ones.
LEMMA SumsExist ==
  ASSUME NEW S, IsFiniteSet(S), NEW f
  PROVE  \E g : Sums(f, S, g)
<1> DEFINE next(g, T) == IF T = {} THEN 0 ELSE f[chosen(T)] + g[T \ {chosen(T)}]
           upTo(n, g) == /\ g = [T \in SUBSET S |-> g[T]]
                         /\ \A T \in SUBSET S : Cardinality(T) <= n => g[T] = next(g, T)
           N == { n \in Nat : \E g : upTo(n, g) }
<1>1. 0 \in N
  <2> DEFINE g == [T \in SUBSET S |-> 0]
  <2>1. ASSUME NEW T \in SUBSET S, T # {}
        PROVE  ~(Cardinality(T) <= 0)
    <3>1. Cardinality(T) \in Nat \ {0}
      BY <2>1, OneFewer
    <3> QED  BY <3>1
  <2>2. upTo(0, g)
    BY <2>1
  <2> HIDE DEF upTo, g
  <2> QED  BY <2>2
<1>2. ASSUME NEW n \in N
      PROVE  n + 1 \in N
  <2>1. PICK g : upTo(n, g)
    OBVIOUS
  <2> DEFINE h == [T \in SUBSET S |-> next(g, T)]
  <2>2. ASSUME NEW T \in SUBSET S, Cardinality(T) <= n
        PROVE  h[T] = g[T]
    BY <2>1, <2>2
  <2>3. ASSUME NEW T \in SUBSET S, Cardinality(T) <= n + 1
        PROVE  h[T] = next(h, T)
    <3>1. CASE T = {}
      BY <3>1
    <3>2. CASE T # {}
      <4>1. /\ T \ {chosen(T)} \in SUBSET S
            /\ Cardinality(T) \in Nat
            /\ Cardinality(T \ {chosen(T)}) = Cardinality(T) - 1
        BY <3>2, OneFewer
      <4>2. Cardinality(T \ {chosen(T)}) <= n
        BY <2>3, <4>1
      <4>3. h[T \ {chosen(T)}] = g[T \ {chosen(T)}]
        BY <2>2, <4>1, <4>2
      <4>4. h[T] = next(g, T)
        OBVIOUS
      <4> HIDE DEF h
      <4> QED  BY <3>2, <4>3, <4>4
    <3> QED  BY <3>1, <3>2
  <2>4. upTo(n + 1, h)
    <3>1. h = [T \in SUBSET S |-> h[T]]
      OBVIOUS
    <3> HIDE DEF h, next
    <3> QED  BY <2>3, <3>1
  <2> HIDE DEF upTo, h
  <2> QED  BY <2>4
<1>3. Cardinality(S) \in N
  <2>1. N = Nat
    <3> HIDE DEF N
    <3>1. N \in SUBSET Nat
      BY DEF N
    <3> QED  BY <1>1, <1>2, <3>1, SetOfAllNaturals
  <2> QED  BY <2>1, FS_CardinalityType
<1>4. PICK g : upTo(Cardinality(S), g)
  BY <1>3
<1>5. \A T \in SUBSET S : Cardinality(T) <= Cardinality(S)
  BY FS_Subset
<1>6. Sums(f, S, g)
  <2>1. \A T \in SUBSET S : g[T] = next(g, T)
    BY <1>4, <1>5
  <2>2. g = [T \in SUBSET S |-> next(g, T)]
    BY <1>4, <2>1
  <2> QED  BY <2>2 DEF Sums
<1> QED  BY <1>6

\* A sum of naturals is a natural, and no less than any of them.
LEMMA SumOfNaturals ==
  ASSUME NEW S, IsFiniteSet(S), NEW f, \A x \in S : f[x] \in Nat
  PROVE  /\ SumFunctionOnSet(f, S) \in Nat
         /\ \A x \in S : f[x] <= SumFunctionOnSet(f, S)
<1>1. PICK g : Sums(f, S, g) /\ SumFunctionOnSet(f, S) = g[S]
  BY SumsExist, SumIsChosen
<1> DEFINE good(T) == g[T] \in Nat /\ \A x \in T : f[x] <= g[T]
           N == { n \in Nat : \A T \in SUBSET S : Cardinality(T) = n => good(T) }
<1>2. ASSUME NEW T \in SUBSET S
      PROVE  g[T] = IF T = {} THEN 0 ELSE f[chosen(T)] + g[T \ {chosen(T)}]
  BY <1>1 DEF Sums
<1>3. 0 \in N
  <2>1. ASSUME NEW T \in SUBSET S, T # {}
        PROVE  Cardinality(T) # 0
    <3>1. Cardinality(T) \in Nat \ {0}
      BY <2>1, OneFewer
    <3> QED  BY <3>1
  <2>2. good({})
    BY <1>2
  <2> QED  BY <2>1, <2>2
<1>4. ASSUME NEW n \in N
      PROVE  n + 1 \in N
  <2> SUFFICES ASSUME NEW T \in SUBSET S, Cardinality(T) = n + 1
               PROVE  good(T)
    OBVIOUS
  <2>1. T # {}
    <3>1. Cardinality({}) = 0
      BY FS_EmptySet
    <3>2. n + 1 # 0
      OBVIOUS
    <3> QED  BY <3>1, <3>2
  <2> DEFINE x == chosen(T)
             rest == T \ {x}
  <2>2. x \in T /\ rest \in SUBSET S /\ Cardinality(rest) = n
    BY <2>1, OneFewer
  <2>3. g[rest] \in Nat /\ \A y \in rest : f[y] <= g[rest]
    BY <2>2
  <2>4. g[T] = f[x] + g[rest]
    BY <1>2, <2>1
  <2>5. \A y \in T : y = x \/ y \in rest
    OBVIOUS
  <2> HIDE DEF x, rest
  <2>6. f[x] \in Nat /\ \A y \in T : f[y] \in Nat
    BY <2>2
  <2> QED  BY <2>3, <2>4, <2>5, <2>6
<1>5. Cardinality(S) \in N
  <2>1. N = Nat
    <3> HIDE DEF N
    <3>1. N \in SUBSET Nat
      BY DEF N
    <3> QED  BY <1>3, <1>4, <3>1, SetOfAllNaturals
  <2> QED  BY <2>1, FS_CardinalityType
<1>6. good(S)
  BY <1>5
<1> QED  BY <1>1, <1>6

-----------------------------------------------------------------------------
(* Roundings.                                                              *)

LEMMA PositiveProduct ==
  ASSUME NEW x \in Nat \ {0}, NEW y \in Nat \ {0}
  PROVE  x * y \in Nat \ {0}
OBVIOUS

LEMMA DivBounds ==
  ASSUME NEW x \in Nat, NEW y \in Nat \ {0}
  PROVE  x \div y \in Nat /\ (x \div y) * y <= x /\ x < (x \div y) * y + y
<1>1. x \div y \in Nat
  OBVIOUS
<1>2. (x \div y) * y <= x
  OBVIOUS
<1>3. x < (x \div y) * y + y
  OBVIOUS
<1> QED  BY <1>1, <1>2, <1>3

\* Math.round is off by half of the divisor at most.
LEMMA RoundedBounds ==
  ASSUME NEW a \in Nat, NEW b \in Nat \ {0}
  PROVE  /\ Rounded(a, b) \in Nat
         /\ 2 * (Rounded(a, b) * b) - 2 * a <= b
         /\ 2 * a - 2 * (Rounded(a, b) * b) < b
<1> DEFINE q == (2 * a + b) \div (2 * b)
<1>1. 2 * a + b \in Nat /\ 2 * b \in Nat \ {0}
  OBVIOUS
<1>2. q \in Nat /\ q * (2 * b) <= 2 * a + b /\ 2 * a + b < q * (2 * b) + 2 * b
  <2> DEFINE x == 2 * a + b
             y == 2 * b
  <2>1. x \in Nat /\ y \in Nat \ {0}
    BY <1>1
  <2> HIDE DEF x, y
  <2>2. x \div y \in Nat /\ (x \div y) * y <= x /\ x < (x \div y) * y + y
    BY <2>1, DivBounds
  <2> QED  BY <2>2 DEF x, y
<1>3. Rounded(a, b) = q
  BY DEF Rounded
<1> HIDE DEF q
<1>4. q * (2 * b) = 2 * (q * b)
  BY <1>2
<1>5. q * b \in Nat
  BY <1>2
<1> DEFINE r == q * b
<1> HIDE DEF r
<1>6. 2 * r - 2 * a <= b /\ 2 * a - 2 * r < b
  BY <1>2, <1>4, <1>5 DEF r
<1> QED  BY <1>2, <1>3, <1>6 DEF r

\* What is less is not rounded to more.
LEMMA RoundedKeepsOrder ==
  ASSUME NEW a \in Nat, NEW c \in Nat, a <= c, NEW b \in Nat \ {0}
  PROVE  Rounded(a, b) <= Rounded(c, b)
<1> DEFINE q == Rounded(a, b)
           r == Rounded(c, b)
<1>1. q \in Nat /\ 2 * (q * b) - 2 * a <= b
  BY RoundedBounds
<1>2. r \in Nat /\ 2 * c - 2 * (r * b) < b
  BY RoundedBounds
<1> HIDE DEF q, r
<1>3. ASSUME q > r
      PROVE  FALSE
  <2>1. q * b >= (r + 1) * b
    BY <1>1, <1>2, <1>3
  <2>2. (r + 1) * b = r * b + b
    BY <1>2
  <2>3. q * b \in Nat /\ r * b \in Nat
    BY <1>1, <1>2
  <2> DEFINE qb == q * b
             rb == r * b
  <2> HIDE DEF qb, rb
  <2>4. qb >= rb + b /\ qb \in Nat /\ rb \in Nat
    BY <2>1, <2>2, <2>3 DEF qb, rb
  <2>5. 2 * qb - 2 * a <= b /\ 2 * c - 2 * rb < b
    BY <1>1, <1>2 DEF qb, rb
  <2> QED  BY <2>4, <2>5
<1>4. q <= r
  BY <1>1, <1>2, <1>3
<1> QED  BY <1>4 DEF q, r

-----------------------------------------------------------------------------
(* The nights and the price of a stay.                                     *)

LEMMA NightsOfAStay ==
  ASSUME NEW sel \in Selections, Valid(sel)
  PROVE  /\ IsFiniteSet(NightsOf(sel))
         /\ Cardinality(NightsOf(sel)) \in Nat \ {0}
         /\ NightsOf(sel) # {}
         /\ NightsOf(sel) \subseteq Dates
<1>1. /\ sel.checkIn \in Int /\ sel.checkOut \in Int /\ sel.checkIn < sel.checkOut
      /\ NightsOf(sel) \subseteq Dates
  BY SelectionsAssumption DEF Valid, NightsOf
<1> DEFINE a == sel.checkIn
           b == sel.checkOut - 1
<1>2. a \in Int /\ b \in Int /\ a <= b
  BY <1>1
<1>3. NightsOf(sel) = a .. b
  BY DEF NightsOf, eachNight
<1> HIDE DEF a, b
<1>4. IsFiniteSet(a .. b) /\ Cardinality(a .. b) = IF a > b THEN 0 ELSE b - a + 1
  BY <1>2, FS_Interval
<1>5. Cardinality(a .. b) \in Nat \ {0}
  BY <1>2, <1>4
<1>6. a \in a .. b
  BY <1>2
<1> QED  BY <1>1, <1>3, <1>4, <1>5, <1>6

\* The price of a stay is a natural, so many times the price of a room.
LEMMA SubtotalOfAStay ==
  ASSUME NEW prices \in [Dates -> Nat], NEW nights \in SUBSET Dates, IsFiniteSet(nights),
         NEW n \in Nat
  PROVE  /\ computeSubtotal(prices, nights, n) \in Nat
         /\ computeSubtotal(prices, nights, 1) \in Nat
         /\ computeSubtotal(prices, nights, n) = n * computeSubtotal(prices, nights, 1)
<1> DEFINE sum == SumFunctionOnSet(prices, nights)
<1>1. sum \in Nat
  BY SumOfNaturals
<1>2. \A k \in Nat : computeSubtotal(prices, nights, k) = k * sum
  BY DEF computeSubtotal
<1> HIDE DEF sum
<1> QED  BY <1>1, <1>2

-----------------------------------------------------------------------------
(* Types: prices, rooms, coins and amounts are never negative.             *)

Amounts ==
  [subtotal : Nat, taxAmount : Nat, totalAmount : Nat, coinsRedeemed : Nat,
   earnable : Nat]

CheckoutTyped ==
  /\ now \in Nat
  /\ price \in [Plans -> [Dates -> Nat]]
  /\ rooms \in [RoomTypes -> [Dates -> Nat]]
  /\ held \in [RoomTypes -> [Dates -> Nat]]
  /\ balance \in Nat
  /\ quoteRow # None =>
       quoteRow \in [sel : Selections, coins : CoinChoices, shown : Amounts,
                     expires : Nat, consumed : BOOLEAN]
  /\ loaded # None => quoteRow # None /\ loaded \in [sel : Selections, quote : Amounts]
  /\ reservation # None => reservation \in [sel : Selections, quote : Amounts]

\* What is quoted: naturals, and coins and tax accounted for.
LEMMA QuoteOfAStay ==
  ASSUME CheckoutTyped, NEW sel \in Selections, NEW coins \in CoinChoices,
         Valid(sel), Redeemable(sel, coins)
  PROVE  /\ Quote(sel, coins) \in Amounts
         /\ Quote(sel, coins).coinsRedeemed = coins
         /\ coins <= Quote(sel, coins).subtotal
         /\ Quote(sel, coins).totalAmount
              = Quote(sel, coins).subtotal - coins + Quote(sel, coins).taxAmount
<1> DEFINE subtotal == computeSubtotal(price[sel.plan], NightsOf(sel), sel.rooms)
           percent == IF member THEN EarnPercent ELSE 0
           rest == subtotal - coins
<1>1. /\ sel.plan \in Plans /\ sel.rooms \in Nat /\ coins \in Nat
      /\ EarnPercent \in Nat
  BY SelectionsAssumption, CheckoutAssumption
<1>2. subtotal \in Nat
  <2>1. price[sel.plan] \in [Dates -> Nat]
    BY <1>1 DEF CheckoutTyped
  <2> QED  BY <1>1, <2>1, NightsOfAStay, SubtotalOfAStay
<1>3. coins <= subtotal
  BY DEF Redeemable, RoomPrice
<1>4. percent \in Nat
  BY <1>1
<1>5. Quote(sel, coins)
        = [subtotal |-> subtotal, taxAmount |-> estimateTaxes(rest),
           totalAmount |-> rest + estimateTaxes(rest), coinsRedeemed |-> coins,
           earnable |-> Rounded(subtotal * percent, 100)]
  <2> DEFINE plain == computeQuote(price[sel.plan], NightsOf(sel), sel.rooms, percent)
  <2>1. Quote(sel, coins) = applyCoinRedemption(plain, coins)
    BY DEF Quote
  <2>2. plain = [subtotal |-> subtotal, taxAmount |-> estimateTaxes(subtotal),
                 totalAmount |-> subtotal + estimateTaxes(subtotal),
                 coinsRedeemed |-> 0, earnable |-> Rounded(subtotal * percent, 100)]
    BY DEF computeQuote
  <2> HIDE DEF plain, subtotal, percent
  <2>3. plain.subtotal = subtotal
    BY <2>2
  <2>4. Quote(sel, coins)
          = [plain EXCEPT !.taxAmount = estimateTaxes(rest),
                          !.totalAmount = rest + estimateTaxes(rest),
                          !.coinsRedeemed = coins]
    BY <2>1, <2>3 DEF applyCoinRedemption
  <2> HIDE DEF rest
  <2> QED  BY <2>2, <2>4
<1> HIDE DEF subtotal, percent
<1>6. rest \in Nat
  BY <1>1, <1>2, <1>3
<1>7. Rounded(subtotal * percent, 100) \in Nat
  <2>1. subtotal * percent \in Nat
    BY <1>2, <1>4
  <2> QED  BY <2>1, RoundedBounds
<1>8. estimateTaxes(rest) \in Nat
  <2> HIDE DEF rest
  <2> DEFINE amount == 18 * rest
  <2>1. amount \in Nat
    BY <1>6
  <2>2. estimateTaxes(rest) = Rounded(amount, 100)
    BY DEF estimateTaxes
  <2> HIDE DEF amount
  <2>3. Rounded(amount, 100) \in Nat
    BY <2>1, RoundedBounds
  <2> QED  BY <2>2, <2>3
<1> DEFINE earn == Rounded(subtotal * percent, 100)
           tax == estimateTaxes(rest)
<1>9. /\ Quote(sel, coins)
           = [subtotal |-> subtotal, taxAmount |-> tax, totalAmount |-> rest + tax,
              coinsRedeemed |-> coins, earnable |-> earn]
      /\ tax \in Nat /\ earn \in Nat /\ rest \in Nat /\ rest + tax \in Nat
  BY <1>5, <1>6, <1>7, <1>8
<1>10. rest = subtotal - coins
  OBVIOUS
<1> DEFINE q == Quote(sel, coins)
<1> HIDE DEF earn, tax, rest, q
<1>11. q \in Amounts
  BY <1>1, <1>2, <1>9 DEF Amounts, q
<1>12. /\ q.subtotal = subtotal /\ q.taxAmount = tax /\ q.totalAmount = rest + tax
       /\ q.coinsRedeemed = coins
  BY <1>9 DEF q
<1> QED  BY <1>3, <1>10, <1>11, <1>12 DEF q

\* One step keeps the types.  A room is sold or held by others only when one is
\* free, and a booking takes only the coins that are there.
LEMMA CheckoutTypedStep == CheckoutTyped /\ [Next]_vars => CheckoutTyped'
<1> SUFFICES ASSUME CheckoutTyped, [Next]_vars
             PROVE  CheckoutTyped'
  OBVIOUS
<1> USE DEF CheckoutTyped, world
<1>1. CASE Tick
  BY <1>1 DEF Tick
<1>2. ASSUME NEW sel \in Selections, NEW coins \in CoinChoices, CreateIntent(sel, coins)
      PROVE  CheckoutTyped'
  <2>1. Quote(sel, coins) \in Amounts
    BY <1>2, QuoteOfAStay DEF CreateIntent
  <2>2. now + QuoteTTL \in Nat
    BY CheckoutAssumption
  <2> QED  BY <1>2, <2>1, <2>2 DEF CreateIntent
<1>3. ASSUME NEW sel \in Selections, LoadQuote(sel)
      PROVE  CheckoutTyped'
  <2>1. quoteRow.coins \in CoinChoices
    BY <1>3 DEF LoadQuote
  <2>2. Quote(sel, quoteRow.coins) \in Amounts
    BY <1>3, <2>1, QuoteOfAStay DEF LoadQuote
  <2> QED  BY <1>3, <2>2 DEF LoadQuote
<1>4. CASE CommitBooking
  <2>1. /\ loaded \in [sel : Selections, quote : Amounts]
        /\ loaded.quote.coinsRedeemed \in Nat /\ loaded.quote.coinsRedeemed <= balance
    BY <1>4 DEF CommitBooking, Amounts
  <2>2. balance' \in Nat
    BY <1>4, <2>1 DEF CommitBooking
  <2>3. held' \in [RoomTypes -> [Dates -> Nat]]
    <3> DEFINE sel == loaded.sel
               taken == [d \in Dates |-> IF d \in NightsOf(sel)
                                           THEN held[RoomTypeOf[sel.plan]][d] + sel.rooms
                                           ELSE held[RoomTypeOf[sel.plan]][d]]
    <3>1. sel.rooms \in Nat /\ RoomTypeOf[sel.plan] \in RoomTypes
      BY <2>1, SelectionsAssumption, CheckoutAssumption
    <3>2. taken \in [Dates -> Nat]
      BY <3>1
    <3>3. held' = [held EXCEPT ![RoomTypeOf[sel.plan]] = taken]
      BY <1>4 DEF CommitBooking, Took
    <3> HIDE DEF taken
    <3> QED  BY <3>1, <3>2, <3>3
  <2>4. quoteRow' # None => quoteRow' \in [sel : Selections, coins : CoinChoices,
                                           shown : Amounts, expires : Nat,
                                           consumed : BOOLEAN]
    BY <1>4 DEF CommitBooking
  <2> QED  BY <1>4, <2>1, <2>2, <2>3, <2>4 DEF CommitBooking
<1>5. CASE FailBooking
  BY <1>5 DEF FailBooking
<1>6. ASSUME NEW p \in Plans, NEW range \in Ranges, NEW amount \in NewPrices,
             upsertPrices(p, range, amount)
      PROVE  CheckoutTyped'
  <2> DEFINE new == [d \in Dates |-> IF d \in range THEN amount ELSE price[p][d]]
  <2>1. amount \in Nat
    BY CheckoutAssumption
  <2>2. new \in [Dates -> Nat]
    BY <2>1
  <2>3. price' = [price EXCEPT ![p] = new]
    BY <1>6 DEF upsertPrices
  <2> HIDE DEF new
  <2>4. price' \in [Plans -> [Dates -> Nat]]
    BY <2>2, <2>3
  <2> QED  BY <1>6, <2>4 DEF upsertPrices, Edit
<1>7. ASSUME NEW p \in Plans, NEW range \in Ranges, CountBookings(p, range)
      PROVE  CheckoutTyped'
  BY <1>7 DEF CountBookings, Edit
<1>8. CASE deletePrices
  <2> DEFINE p == deletion.plan
             new == [d \in Dates |-> IF d \in deletion.range THEN 0 ELSE price[p][d]]
  <2>1. price' = [price EXCEPT ![p] = new]
    BY <1>8 DEF deletePrices
  <2>2. p \in Plans => new \in [Dates -> Nat]
    OBVIOUS
  <2> HIDE DEF new, p
  <2>3. price' \in [Plans -> [Dates -> Nat]]
    BY <2>1, <2>2
  <2> QED  BY <1>8, <2>3 DEF deletePrices
<1>9. ASSUME NEW t \in RoomTypes, NEW range \in Ranges,
             SellRooms(t, range) \/ HoldRooms(t, range)
      PROVE  CheckoutTyped'
  <2> DEFINE left == [d \in Dates |-> IF d \in range THEN rooms[t][d] + (-1) ELSE rooms[t][d]]
             more == [d \in Dates |-> IF d \in range THEN held[t][d] + 1 ELSE held[t][d]]
  <2>1. /\ rooms[t] \in [Dates -> Nat] /\ held[t] \in [Dates -> Nat]
        /\ range \subseteq Dates
        /\ \A d \in range : rooms[t][d] > held[t][d]
    BY <1>9, CheckoutAssumption DEF SellRooms, HoldRooms
  <2>2. left \in [Dates -> Nat]
    <3>1. \A d \in range : rooms[t][d] + (-1) \in Nat
      BY <2>1
    <3> QED  BY <2>1, <3>1
  <2>3. more \in [Dates -> Nat]
    BY <2>1
  <2>4. CASE SellRooms(t, range)
    <3>1. rooms' = [rooms EXCEPT ![t] = left]
      BY <2>4 DEF SellRooms, Shifted
    <3> HIDE DEF left
    <3> QED  BY <2>2, <2>4, <3>1 DEF SellRooms, Edit
  <2>5. CASE HoldRooms(t, range)
    <3>1. held' = [held EXCEPT ![t] = more]
      BY <2>5 DEF HoldRooms, Shifted
    <3> HIDE DEF more
    <3> QED  BY <2>3, <2>5, <3>1 DEF HoldRooms, Edit
  <2> QED  BY <1>9, <2>4, <2>5
<1>10. CASE SpendCoins \/ ChangeMembership
  BY <1>10 DEF SpendCoins, ChangeMembership, Edit
<1>11. CASE UNCHANGED vars
  BY <1>11 DEF vars
<1> QED  BY <1>1, <1>2, <1>3, <1>4, <1>5, <1>6, <1>7, <1>8, <1>9, <1>10, <1>11
         DEF Next, Guest, World

\* Prices, rooms, coins and every amount stay naturals.
THEOREM CheckoutTypeCorrect == Spec => []CheckoutTyped
<1>1. Init => CheckoutTyped
  BY CheckoutAssumption DEF Init, CheckoutTyped
<1>2. CheckoutTyped /\ [Next]_vars => CheckoutTyped'
  BY CheckoutTypedStep
<1> QED  BY <1>1, <1>2, PTL DEF Spec

-----------------------------------------------------------------------------
(* A booking is what was quoted.                                           *)

\* What BookedAsQuoted says of a reservation, of any priced selection.
AsQuoted(booked) ==
  /\ booked.sel = quoteRow.sel
  /\ booked.quote.coinsRedeemed = quoteRow.coins
  /\ quoteRow.coins <= booked.quote.subtotal
  /\ booked.quote.totalAmount
       = booked.quote.subtotal - quoteRow.coins + booked.quote.taxAmount
  /\ ~repriced => booked.quote = quoteRow.shown

\* What createBooking has loaded, and would write, is already as quoted; and
\* as long as nothing was repriced, pricing the selection again gives what was
\* shown.
QuoteInv ==
  /\ loaded # None => AsQuoted(loaded)
  /\ reservation # None => AsQuoted(reservation)
  /\ quoteRow # None /\ ~repriced
       => quoteRow.shown = Quote(quoteRow.sel, quoteRow.coins)

\* Whatever changes a price or the membership counts as repricing, and a new quote
\* is not made beside a booking under way.
LEMMA QuoteStep == CheckoutTyped /\ QuoteInv /\ [Next]_vars => QuoteInv'
<1> SUFFICES ASSUME CheckoutTyped, QuoteInv, [Next]_vars
             PROVE  QuoteInv'
  OBVIOUS
<1> USE DEF world
<1>1. ASSUME UNCHANGED <<quoteRow, loaded, reservation>>,
             repriced' \/ UNCHANGED <<repriced, price, member>>
      PROVE  QuoteInv'
  <2>1. CASE repriced'
    BY <1>1, <2>1 DEF QuoteInv, AsQuoted
  <2>2. CASE UNCHANGED <<repriced, price, member>>
    <3>1. Quote(quoteRow.sel, quoteRow.coins)' = Quote(quoteRow.sel, quoteRow.coins)
      BY <1>1, <2>2 DEF Quote, computeQuote, applyCoinRedemption
    <3> QED  BY <1>1, <2>2, <3>1 DEF QuoteInv, AsQuoted
  <2> QED  BY <1>1, <2>1, <2>2
<1>2. ASSUME NEW sel \in Selections, NEW coins \in CoinChoices, CreateIntent(sel, coins)
      PROVE  QuoteInv'
  <2>1. quoteRow' = [sel |-> sel, coins |-> coins, shown |-> Quote(sel, coins),
                     expires |-> now + QuoteTTL, consumed |-> FALSE]
    BY <1>2 DEF CreateIntent
  <2>2. quoteRow'.sel = sel /\ quoteRow'.coins = coins /\ quoteRow'.shown = Quote(sel, coins)
    BY <2>1
  <2>3. Quote(quoteRow.sel, quoteRow.coins)' = Quote(sel, coins)
    BY <1>2, <2>2 DEF CreateIntent, Quote, computeQuote, applyCoinRedemption
  <2> QED  BY <1>2, <2>2, <2>3 DEF CreateIntent, QuoteInv
<1>3. ASSUME NEW sel \in Selections, LoadQuote(sel)
      PROVE  QuoteInv'
  <2> DEFINE coins == quoteRow.coins
             q == Quote(sel, coins)
  <2>1. /\ quoteRow # None /\ sel = quoteRow.sel /\ coins \in CoinChoices
        /\ Valid(sel) /\ Redeemable(sel, coins)
        /\ loaded' = [sel |-> sel, quote |-> q]
        /\ UNCHANGED <<quoteRow, reservation, repriced, price, member>>
    BY <1>3 DEF LoadQuote, Matches, CheckoutTyped
  <2>2. /\ q.coinsRedeemed = coins
        /\ coins <= q.subtotal
        /\ q.totalAmount = q.subtotal - coins + q.taxAmount
    BY <2>1, QuoteOfAStay
  <2>3. Quote(quoteRow.sel, quoteRow.coins)' = q
    BY <2>1 DEF Quote, computeQuote, applyCoinRedemption
  <2>4. ~repriced => quoteRow.shown = q
    BY <2>1 DEF QuoteInv
  <2> HIDE DEF q
  <2> QED  BY <2>1, <2>2, <2>3, <2>4 DEF QuoteInv, AsQuoted
<1>4. CASE CommitBooking
  <2>1. /\ loaded # None /\ quoteRow # None /\ reservation' = loaded /\ loaded' = None
        /\ quoteRow' = [quoteRow EXCEPT !.consumed = TRUE]
        /\ UNCHANGED <<repriced, price, member>>
    BY <1>4 DEF CommitBooking, CheckoutTyped
  <2>2. quoteRow \in [sel : Selections, coins : CoinChoices, shown : Amounts,
                      expires : Nat, consumed : BOOLEAN]
    BY <2>1 DEF CheckoutTyped
  <2>3. /\ quoteRow'.sel = quoteRow.sel /\ quoteRow'.coins = quoteRow.coins
        /\ quoteRow'.shown = quoteRow.shown
    BY <2>1, <2>2
  <2>4. Quote(quoteRow.sel, quoteRow.coins)' = Quote(quoteRow.sel, quoteRow.coins)
    BY <2>1, <2>3 DEF Quote, computeQuote, applyCoinRedemption
  <2> QED  BY <2>1, <2>3, <2>4 DEF QuoteInv, AsQuoted
<1>5. CASE FailBooking
  <2>1. Quote(quoteRow.sel, quoteRow.coins)' = Quote(quoteRow.sel, quoteRow.coins)
    BY <1>5 DEF FailBooking, Quote, computeQuote, applyCoinRedemption
  <2> QED  BY <1>5, <2>1 DEF FailBooking, QuoteInv, AsQuoted
<1>6. ASSUME World
      PROVE  QuoteInv'
  <2>1. UNCHANGED <<quoteRow, loaded, reservation>>
    BY <1>6 DEF World, upsertPrices, CountBookings, deletePrices, SellRooms, HoldRooms,
        SpendCoins, ChangeMembership, Edit
  <2>2. repriced' = TRUE \/ UNCHANGED <<repriced, price, member>>
    BY <1>6 DEF World, upsertPrices, CountBookings, deletePrices, SellRooms, HoldRooms,
        SpendCoins, ChangeMembership
  <2> QED  BY <1>1, <2>1, <2>2
<1>7. CASE Tick \/ UNCHANGED vars
  BY <1>1, <1>7 DEF Tick, vars
<1> QED  BY <1>2, <1>3, <1>4, <1>5, <1>6, <1>7 DEF Next, Guest

\* A booking is for the selection, the coins and, unless a rate or the membership
\* changed, the amounts that the guest was shown, at any prices, for any stay,
\* however often the checkout was started and whichever tab sent the request.
THEOREM BookingsAreAsQuoted == Spec => []BookedAsQuoted
<1>1. Init => QuoteInv
  BY DEF Init, QuoteInv
<1>2. CheckoutTyped /\ QuoteInv /\ [Next]_vars => QuoteInv'
  BY QuoteStep
<1>3. QuoteInv => BookedAsQuoted
  BY DEF QuoteInv, AsQuoted, BookedAsQuoted
<1> QED  BY <1>1, <1>2, <1>3, CheckoutTypeCorrect, PTL DEF Spec

-----------------------------------------------------------------------------
(* Browsing shows what booking sells.                                      *)

\* The plans of the types on the list.
Shown(nights, guests, n) ==
  UNION { PricedPlans(t, nights) : t \in OfferedTypes(nights, guests, n) }

\* The list's best total is the least of the totals, and the page's best price per
\* night is that total, rounded per night: rounding keeps the order.
LEMMA ListAndPage ==
  ASSUME CheckoutTyped, NEW nights \in SUBSET Dates, IsFiniteSet(nights),
         Cardinality(nights) \in Nat \ {0}, NEW guests, NEW n,
         Shown(nights, guests, n) # {}
  PROVE  LET best == Listing(nights, guests, n).minTotalPrice
             page == Page(nights, guests, n)
         IN /\ best \in Nat
            /\ \A p \in Shown(nights, guests, n) : best <= planTotal(p, nights)
            /\ page.minPricePerNight = Rounded(best, Cardinality(nights))
            /\ page.minTotalPrice = page.minPricePerNight * Cardinality(nights)
            /\ Listing(nights, guests, n).minPricePerNight = page.minPricePerNight
<1> DEFINE size == Cardinality(nights)
           shown == Shown(nights, guests, n)
           totals == { planTotal(p, nights) : p \in shown }
           rounded == { Rounded(planTotal(p, nights), size) : p \in shown }
           best == Min(totals)
<1>1. shown \subseteq Plans
  BY DEF Shown, PricedPlans, PlansOf
<1>2. \A p \in Plans : planTotal(p, nights) \in Nat
  BY SubtotalOfAStay DEF CheckoutTyped, planTotal
<1>3. size \in Nat \ {0}
  OBVIOUS
<1>4. totals \in SUBSET Nat /\ totals # {}
  BY <1>1, <1>2
<1>5. best \in totals /\ \A m \in totals : best <= m
  <2> HIDE DEF totals
  <2> QED  BY <1>4, MinOfNaturals
<1>6. best \in Nat /\ \A p \in shown : best <= planTotal(p, nights)
  <2> HIDE DEF best
  <2> QED  BY <1>4, <1>5
<1>7. PICK cheapest \in shown : best = planTotal(cheapest, nights)
  BY <1>5
<1> HIDE DEF best, size, shown
<1>8. rounded \in SUBSET Nat /\ Rounded(best, size) \in rounded
  BY <1>1, <1>2, <1>3, <1>7, RoundedBounds
<1>9. \A m \in rounded : Rounded(best, size) <= m
  BY <1>1, <1>2, <1>3, <1>6, RoundedKeepsOrder
<1>10. Min(rounded) = Rounded(best, size)
  <2> HIDE DEF rounded
  <2> QED  BY <1>8, <1>9, MinIs
<1>11. /\ Listing(nights, guests, n).minTotalPrice = best
       /\ Listing(nights, guests, n).minPricePerNight = Rounded(best, size)
  BY DEF Listing, Shown, best, size, shown
<1>12. /\ Page(nights, guests, n).minPricePerNight = Min(rounded)
       /\ Page(nights, guests, n).minTotalPrice = Min(rounded) * size
  BY DEF Page, Shown, size, shown
<1> HIDE DEF rounded
<1> QED  BY <1>6, <1>10, <1>11, <1>12 DEF size, shown

\* The rooms the list says remain are at least those of any type on it.
LEMMA RoomsRemain ==
  ASSUME CheckoutTyped, NEW nights \in SUBSET Dates, nights # {},
         NEW guests, NEW n \in Nat, NEW t \in OfferedTypes(nights, guests, n)
  PROVE  Listing(nights, guests, n).remainingRooms >= n
<1> DEFINE types == OfferedTypes(nights, guests, n)
           left == [u \in types |-> Min({ rooms[u][d] : d \in nights })]
<1>1. types \subseteq RoomTypes /\ IsFiniteSet(types)
  <2>1. types \subseteq RoomTypes
    BY DEF OfferedTypes
  <2> QED  BY <2>1, CheckoutAssumption, FS_Subset
<1>2. ASSUME NEW u \in types
      PROVE  left[u] \in Nat /\ left[u] >= n
  <2> DEFINE counts == { rooms[u][d] : d \in nights }
  <2>1. counts \in SUBSET Nat /\ counts # {}
    BY <1>1 DEF CheckoutTyped
  <2>2. \A m \in counts : m >= n
    BY DEF OfferedTypes, Offered
  <2>3. left[u] = Min(counts)
    OBVIOUS
  <2> HIDE DEF counts, left
  <2>4. Min(counts) \in counts
    BY <2>1, MinOfNaturals
  <2> QED  BY <2>1, <2>2, <2>3, <2>4
<1>3. Listing(nights, guests, n).remainingRooms = SumFunctionOnSet(left, types)
  <2>1. DOMAIN left = types
    OBVIOUS
  <2>2. Listing(nights, guests, n).remainingRooms = SumFunction(left)
    BY DEF Listing
  <2> HIDE DEF left, types
  <2> QED  BY <2>1, <2>2 DEF SumFunction
<1>4. t \in types
  OBVIOUS
<1> HIDE DEF left, types
<1>5. /\ SumFunctionOnSet(left, types) \in Nat
      /\ \A u \in types : left[u] <= SumFunctionOnSet(left, types)
  BY <1>1, <1>2, SumOfNaturals
<1> DEFINE sum == SumFunctionOnSet(left, types)
<1> HIDE DEF sum
<1>6. sum \in Nat /\ left[t] <= sum /\ left[t] \in Nat /\ left[t] >= n
  BY <1>2, <1>4, <1>5 DEF sum
<1> QED  BY <1>3, <1>6 DEF sum

\* A stay the booking path would sell.
LEMMA BrowsingAgrees == CheckoutTyped => BrowsingAgreesWithBooking
<1> SUFFICES ASSUME CheckoutTyped, NEW sel \in Selections,
                    Valid(sel), Quotable(sel), Free(sel)
             PROVE  LET nights == NightsOf(sel)
                        list == Listing(nights, sel.adults, sel.rooms)
                        page == Page(nights, sel.adults, sel.rooms)
                        gap == page.minTotalPrice - list.minTotalPrice
                    IN /\ RoomTypeOf[sel.plan] \in OfferedTypes(nights, sel.adults, sel.rooms)
                       /\ list.remainingRooms >= sel.rooms
                       /\ list.minTotalPrice * sel.rooms <= RoomPrice(sel)
                       /\ list.minPricePerNight = page.minPricePerNight
                       /\ 2 * gap <= Cardinality(nights) /\ -2 * gap <= Cardinality(nights)
  BY DEF BrowsingAgreesWithBooking
<1> DEFINE nights == NightsOf(sel)
           t == RoomTypeOf[sel.plan]
           n == sel.rooms
           size == Cardinality(nights)
<1>1. /\ IsFiniteSet(nights) /\ size \in Nat \ {0} /\ nights # {} /\ nights \in SUBSET Dates
  BY NightsOfAStay
<1>2. sel.plan \in Plans /\ t \in RoomTypes /\ n \in Nat /\ n > 0
  BY SelectionsAssumption, CheckoutAssumption
<1>3. sel.plan \in PricedPlans(t, nights)
  BY <1>2 DEF PricedPlans, PlansOf, Quotable
<1>4. t \in OfferedTypes(nights, sel.adults, n)
  <2>1. \A d \in nights : rooms[t][d] >= n
    <3> SUFFICES ASSUME NEW d \in nights
                 PROVE  rooms[t][d] >= n
      OBVIOUS
    <3>1. rooms[t][d] \in Nat /\ held[t][d] \in Nat
      BY <1>1, <1>2 DEF CheckoutTyped
    <3>2. rooms[t][d] - held[t][d] >= n
      BY DEF Free
    <3> QED  BY <1>2, <3>1, <3>2
  <2>2. Sleeps(t, sel.adults, n)
    BY DEF Valid
  <2> HIDE DEF nights, t, n
  <2> QED  BY <1>2, <1>3, <2>1, <2>2 DEF OfferedTypes, Offered
<1>5. sel.plan \in Shown(nights, sel.adults, n)
  BY <1>3, <1>4 DEF Shown
<1> DEFINE list == Listing(nights, sel.adults, n)
           page == Page(nights, sel.adults, n)
           best == list.minTotalPrice
<1> HIDE DEF nights, n, t
<1>6. list.remainingRooms >= n
  BY <1>1, <1>2, <1>4, RoomsRemain
<1>7. /\ best \in Nat
      /\ best <= planTotal(sel.plan, nights)
      /\ page.minPricePerNight = Rounded(best, size)
      /\ page.minTotalPrice = page.minPricePerNight * size
      /\ list.minPricePerNight = page.minPricePerNight
  BY <1>1, <1>5, ListAndPage
<1> HIDE DEF list, page, best, size
<1>8. best * n <= RoomPrice(sel)
  <2> DEFINE one == planTotal(sel.plan, nights)
  <2>1. one \in Nat /\ RoomPrice(sel) = n * one
    <3>1. price[sel.plan] \in [Dates -> Nat]
      BY <1>2 DEF CheckoutTyped
    <3>2. RoomPrice(sel) = computeSubtotal(price[sel.plan], nights, n)
      BY DEF RoomPrice, nights, n
    <3> QED  BY <1>1, <1>2, <3>1, <3>2, SubtotalOfAStay DEF planTotal
  <2>2. best <= one
    BY <1>7
  <2> HIDE DEF one
  <2>3. best * n <= one * n
    BY <1>2, <1>7, <2>1, <2>2
  <2>4. one * n = n * one
    BY <1>2, <2>1
  <2> QED  BY <2>1, <2>3, <2>4
<1> DEFINE gap == page.minTotalPrice - best
<1>9. 2 * gap <= size /\ -2 * gap <= size
  <2> DEFINE total == Rounded(best, size) * size
  <2>1. 2 * total - 2 * best <= size /\ 2 * best - 2 * total < size
    BY <1>1, <1>7, RoundedBounds
  <2>2. page.minTotalPrice = total
    BY <1>7
  <2>3. Rounded(best, size) \in Nat
    BY <1>1, <1>7, RoundedBounds
  <2>4. total \in Nat
    BY <1>1, <2>3
  <2> HIDE DEF total
  <2> QED  BY <1>1, <1>7, <2>1, <2>2, <2>4
<1> QED  BY <1>4, <1>6, <1>7, <1>8, <1>9 DEF nights, n, t, list, page, best, size

\* "The number a guest sees while browsing and the number they are charged cannot
\* drift", for any property, prices, rooms and holds: what can be booked is on the
\* list and on the page for at most its price per room, with one price per night,
\* and the two totals differ by the rounding of that only.
THEOREM BrowsingNeverDrifts == Spec => []BrowsingAgreesWithBooking
BY BrowsingAgrees, CheckoutTypeCorrect, PTL
=============================================================================
