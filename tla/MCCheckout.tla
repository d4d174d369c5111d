------------------------------ MODULE MCCheckout ------------------------------
(* A property with a double room on two rate plans and a suite, over two nights. *)
EXTENDS Checkout, TLC

CONSTANTS double, suite, saver, flexible, suiteRate

RoomType == [p \in Plans |-> IF p = suiteRate THEN suite ELSE double]
Sleeping == double :> 2 @@ suite :> 3

\* The flexible rate asks for two nights and is closed to departure after the
\* second.
NoRule == [minStay |-> 0, maxStay |-> 9, closedToArrival |-> FALSE,
           closedToDeparture |-> FALSE]
RulesOf ==
  [p \in Plans |-> [d \in Dates |->
     CASE p = flexible /\ d = 1 -> [NoRule EXCEPT !.minStay = 2]
       [] p = saver /\ d = 2 -> [NoRule EXCEPT !.closedToArrival = TRUE]
       [] OTHER -> NoRule]]

PricesAtFirst ==
  saver :> (1 :> 3 @@ 2 :> 4) @@ flexible :> (1 :> 5 @@ 2 :> 0)
    @@ suiteRate :> (1 :> 6 @@ 2 :> 6)
RoomsAtFirst == double :> (1 :> 2 @@ 2 :> 2) @@ suite :> (1 :> 1 @@ 2 :> 1)

\* One night or both, two guests in a room or three in two; and a request for
\* yesterday, and one for more guests than the room sleeps.
Wish(plan, stay, party) ==
  [plan |-> plan, checkIn |-> stay[1], checkOut |-> stay[2],
   rooms |-> party[1], adults |-> party[2]]
Wishes ==
  { Wish(plan, stay, party) : plan \in Plans, stay \in {<<1, 2>>, <<1, 3>>, <<2, 3>>},
                              party \in {<<1, 2>>, <<2, 3>>} }
    \cup { Wish(saver, <<0, 2>>, <<1, 2>>), Wish(saver, <<1, 2>>, <<1, 3>>) }
DateRanges == {{2}, {1, 2}}
=============================================================================
