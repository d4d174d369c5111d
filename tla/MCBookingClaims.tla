--------------------------- MODULE MCBookingClaims --------------------------
(* Requests for BookingClaims: a request and a retry of it, and one with the *)
(* same key and another body.                                                *)
EXTENDS BookingClaims

CONSTANTS first, retry, changed, k1, b1, b2, q1, q2

SameKey == [r \in Requests |-> k1]
Contents == [r \in Requests |-> IF r = changed THEN b2 ELSE b1]
QuoteNamed == [b \in Bodies |-> IF b = b1 THEN q1 ELSE q2]
=============================================================================
