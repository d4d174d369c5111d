------------------------------ MODULE Capacity ------------------------------
(***************************************************************************)
(* One room type's room_inventory rows, with an administrator who edits    *)
(* them (admin-inventory.service.ts) while guests hold, buy and give back  *)
(* rooms (booking-inventory.service.ts).                                   *)
(*                                                                         *)
(* Every guest wants one room.  A guest's step is a transaction under the  *)
(* row locks of the nights; Bookings and BookingPayments model how it gets *)
(* there.  The editor reads, checks, and writes later.                     *)
(***************************************************************************)
EXTENDS Integers, FiniteSets

CONSTANTS
  Nights,
  Guests,
  Stay,      \* Stay[g]: the nights guest g asks for
  Ranges,    \* the ranges of nights the editor works on
  Totals,    \* the values it enters for totalRooms ...
  Blocks,    \* ... and for blockedRooms
  None

ASSUME CapacityAssumption ==
  /\ Stay \in [Guests -> SUBSET Nights]
  /\ Ranges \subseteq SUBSET Nights
  /\ Totals \subseteq Nat
  /\ Blocks \subseteq Nat
  /\ IsFiniteSet(Guests)
  /\ None \notin [totalRooms : Nat, blockedRooms : Nat, soldRooms : Nat]

VARIABLES
  row,       \* room_inventory of each night, None without one
  stay,      \* how far each guest's reservation has come
  edit,      \* what the editor asked for and saw, None if nothing
  careless,  \* history: nights edited in spite of a hold or of an old view
  lapsedHoldUsed \* history: guests whose hold was used after it had lapsed

vars == <<row, stay, edit, careless, lapsedHoldUsed>>

Loaded == { n \in Nights : row[n] # None }

\* The guests that stand in a status of S and stay on night n.
Among(n, S) == { g \in Guests : n \in Stay[g] /\ stay[g] \in S }

heldRooms(n) == Cardinality(Among(n, {"held"}))

freeRooms(n) ==
  row[n].totalRooms - row[n].blockedRooms - row[n].soldRooms - heldRooms(n)

Available(g) == \A n \in Stay[g] : n \in Loaded /\ freeRooms(n) >= 1

NewRow(total, blocked) ==
  [totalRooms |-> total, blockedRooms |-> blocked, soldRooms |-> 0]

Init ==
  /\ row = [n \in Nights |-> None]
  /\ stay = [g \in Guests |-> "none"]
  /\ edit = None
  /\ careless = {}
  /\ lapsedHoldUsed = {}

-----------------------------------------------------------------------------
(* The guests.                                                             *)

Becomes(g, s) == stay' = [stay EXCEPT ![g] = s]

\* lockAndAssertAvailable, and the hold rows of the new reservation.
Hold(g) ==
  /\ stay[g] = "none"
  /\ Available(g)
  /\ Becomes(g, "held")
  /\ UNCHANGED <<row, edit, careless, lapsedHoldUsed>>

\* expiresAt passes; the rows stay.
Lapse(g) ==
  /\ stay[g] = "held"
  /\ Becomes(g, "lapsed")
  /\ UNCHANGED <<row, edit, careless, lapsedHoldUsed>>

\* The extension that does not look at the inventory.
Extend(g) ==
  /\ stay[g] = "lapsed"
  /\ Becomes(g, "held")
  /\ lapsedHoldUsed' = lapsedHoldUsed \cup {g}
  /\ UNCHANGED <<row, edit, careless>>

\* The UPDATE finds the rows there are.
SellOn(g) ==
  [n \in Nights |-> IF n \in Loaded \cap Stay[g]
                    THEN [row[n] EXCEPT !.soldRooms = @ + 1]
                    ELSE row[n]]

\* convertHoldsToSold: the hold vouches for the rooms.
Convert(g) ==
  /\ stay[g] = "held"
  /\ row' = SellOn(g)
  /\ Becomes(g, "sold")
  /\ UNCHANGED <<edit, careless, lapsedHoldUsed>>

\* The late payment: rooms are looked for again, then sellRooms.
SellAgain(g) ==
  /\ stay[g] \in {"lapsed", "gone"}
  /\ Available(g)
  /\ row' = SellOn(g)
  /\ Becomes(g, "sold")
  /\ UNCHANGED <<edit, careless, lapsedHoldUsed>>

\* The administrator accepts the booking, and does not look at the expiry.
AcceptLapsed(g) ==
  /\ stay[g] = "lapsed"
  /\ row' = SellOn(g)
  /\ Becomes(g, "sold")
  /\ lapsedHoldUsed' = lapsedHoldUsed \cup {g}
  /\ UNCHANGED <<edit, careless>>

\* releaseHolds: the expiry, or a cancellation.
Release(g) ==
  /\ stay[g] \in {"held", "lapsed"}
  /\ Becomes(g, "gone") \/ Becomes(g, "cancelled")
  /\ UNCHANGED <<row, edit, careless, lapsedHoldUsed>>

\* restoreSoldRooms: GREATEST(soldRooms - 1, 0).
Restore(g) ==
  /\ stay[g] = "sold"
  /\ row' = [n \in Nights |->
               IF n \in Loaded \cap Stay[g] /\ row[n].soldRooms > 0
               THEN [row[n] EXCEPT !.soldRooms = @ - 1]
               ELSE row[n]]
  /\ Becomes(g, "cancelled")
  /\ UNCHANGED <<edit, careless, lapsedHoldUsed>>

-----------------------------------------------------------------------------
(* The editor: AdminInventoryService.                                      *)

\* Mutant: the rooms already sold are not looked at.
FitsBlocked(range, total, blocked) == total >= blocked

\* "Cannot set totalRooms below sold + blocked".
Fits(range, total, blocked) ==
  /\ total >= blocked
  /\ \A n \in range \cap Loaded : total >= row[n].soldRooms + blocked

\* What upsert and updateRow read and check before they write.
CheckUpsert(range, total, blocked) ==
  /\ edit = None
  /\ Fits(range, total, blocked)
  /\ edit' = [op |-> "upsert", range |-> range, saw |-> row,
              total |-> total, blocked |-> blocked]
  /\ UNCHANGED <<row, stay, careless, lapsedHoldUsed>>

\* "Cannot delete inventory rows with sold rooms".
Unsold(range) == \A n \in range \cap Loaded : row[n].soldRooms = 0

CheckDelete(range) ==
  /\ edit = None
  /\ Unsold(range)
  /\ edit' = [op |-> "delete", range |-> range, saw |-> row,
              total |-> 0, blocked |-> 0]
  /\ UNCHANGED <<row, stay, careless, lapsedHoldUsed>>

\* The nights whose hold or sale the pending write does not know of.
Overlooked ==
  { n \in edit.range : \/ Among(n, {"held", "lapsed"}) # {}
                       \/ row[n] # edit.saw[n] }

\* Mutant: the row is written as a new one.
Rewritten(n) == NewRow(edit.total, edit.blocked)

\* The upsert's update leaves soldRooms alone.
Upserted(n) ==
  IF n \in Loaded
  THEN [row[n] EXCEPT !.totalRooms = edit.total, !.blockedRooms = edit.blocked]
  ELSE NewRow(edit.total, edit.blocked)

WriteUpsert ==
  /\ edit # None /\ edit.op = "upsert"
  /\ row' = [n \in Nights |-> IF n \in edit.range THEN Upserted(n) ELSE row[n]]
  /\ careless' = careless \cup Overlooked
  /\ edit' = None
  /\ UNCHANGED <<stay, lapsedHoldUsed>>

\* deleteMany takes the rows whatever has become of them.
WriteDelete ==
  /\ edit # None /\ edit.op = "delete"
  /\ row' = [n \in Nights |-> IF n \in edit.range THEN None ELSE row[n]]
  /\ careless' = careless \cup Overlooked
  /\ edit' = None
  /\ UNCHANGED <<stay, lapsedHoldUsed>>

\* The request fails between its check and its write.
GiveUp ==
  /\ edit # None
  /\ edit' = None
  /\ UNCHANGED <<row, stay, careless, lapsedHoldUsed>>

-----------------------------------------------------------------------------
Guest(g) ==
  \/ Hold(g)
  \/ Lapse(g)
  \/ Extend(g)
  \/ Convert(g)
  \/ SellAgain(g)
  \/ AcceptLapsed(g)
  \/ Release(g)
  \/ Restore(g)

Editor ==
  \/ \E range \in Ranges, total \in Totals, blocked \in Blocks :
       CheckUpsert(range, total, blocked)
  \/ \E range \in Ranges : CheckDelete(range)
  \/ WriteUpsert
  \/ WriteDelete
  \/ GiveUp

Next == Editor \/ \E g \in Guests : Guest(g)

Spec == Init /\ [][Next]_vars

-----------------------------------------------------------------------------
(* Properties.                                                             *)

\* "Cannot set totalRooms below sold + blocked": a night is never sold or held
\* past its rooms, unless the editor overlooked a hold or a sale or a lapsed hold
\* was used again.
RoomsSuffice ==
  lapsedHoldUsed = {} =>
    \A n \in Loaded \ careless : freeRooms(n) >= 0

\* soldRooms counts the stays sold, through edits, deletions and new rows, unless
\* the editor overlooked a hold or a sale.
SoldIsCounted ==
  \A n \in Nights \ careless :
    Cardinality(Among(n, {"sold"})) = IF n \in Loaded THEN row[n].soldRooms ELSE 0
=============================================================================
