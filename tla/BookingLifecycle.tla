-------------------------- MODULE BookingLifecycle --------------------------
(***************************************************************************)
(* The reservation state machine of bookings/booking-lifecycle.ts: the     *)
(* statuses, the edges the code calls legal, and the statuses whose hold   *)
(* rows consume inventory.  NONE is "no such row yet".                     *)
(***************************************************************************)

NONE == "NONE"

ReservationStatus ==
  { "PENDING", "PAYMENT_PENDING", "CONFIRMED", "CANCELLED", "EXPIRED",
    "COMPLETED", "NO_SHOW" }

ALLOWED_TRANSITIONS ==
  { <<"PENDING", "PAYMENT_PENDING">>,
    <<"PENDING", "CANCELLED">>,
    <<"PENDING", "EXPIRED">>,
    <<"PAYMENT_PENDING", "CONFIRMED">>,
    <<"PAYMENT_PENDING", "CANCELLED">>,
    <<"PAYMENT_PENDING", "EXPIRED">>,
    <<"CONFIRMED", "COMPLETED">>,
    <<"CONFIRMED", "CANCELLED">>,
    <<"CONFIRMED", "NO_SHOW">>,
    <<"EXPIRED", "CONFIRMED">> }

HOLDING_STATUSES == { "PAYMENT_PENDING" }

canTransition(from, to) == <<from, to>> \in ALLOWED_TRANSITIONS
=============================================================================
