---------------------------- MODULE MCMemberships ----------------------------
(* A user who buys the individual plan, sends the same request again, and    *)
(* buys the corporate plan.  A day is two ticks, so that days can be left in *)
(* part.                                                                     *)
EXTENDS Memberships, TLC

CONSTANTS first, retry, upgrade, individual, corporate, k1, k2

PlanAsked == [r \in Requests |-> IF r = upgrade THEN corporate ELSE individual]
KeySent == [r \in Requests |-> IF r = upgrade THEN k2 ELSE k1]
Prices == [p \in Plans |-> IF p = individual THEN 2 ELSE 3]
OneDay == [p \in Plans |-> 1]

\* Of the purchase requests, the notifications, the administrator and the expiry
\* job, two are at work at a time.
TwoAtATime ==
  Cardinality({ r \in Requests : request[r].pc \in {"insert", "remote"} })
    + Cardinality({ h \in Handlers : handler[h] # Idle })
    + Cardinality({ a \in {admin} : a # NoTask })
    + Cardinality({ j \in {job} : j # NoSync }) <= 2

Interchangeable == Permutations(Handlers)
=============================================================================
