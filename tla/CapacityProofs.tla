-------------------------- MODULE CapacityProofs ---------------------------
(***************************************************************************)
(* The counts of Capacity, for every set of guests, nights, ranges and     *)
(* values: an edit that overlooks nothing keeps soldRooms right and leaves *)
(* enough rooms.                                                           *)
(***************************************************************************)
EXTENDS Capacity, FiniteSetTheorems, TLAPS

Rows == [totalRooms : Nat, blockedRooms : Nat, soldRooms : Nat]

Edits == [op : {"upsert", "delete"}, range : SUBSET Nights,
          saw : [Nights -> Rows \cup {None}], total : Nat, blocked : Nat]

TypeInv ==
  /\ row \in [Nights -> Rows \cup {None}]
  /\ stay \in [Guests -> {"none", "held", "lapsed", "sold", "gone", "cancelled"}]
  /\ edit # None => edit \in Edits

\* What the editor checked still holds of what it saw.
EditChecked ==
  edit # None =>
    /\ edit.op = "upsert" =>
         /\ edit.total >= edit.blocked
         /\ \A n \in edit.range :
              edit.saw[n] # None => edit.total >= edit.saw[n].soldRooms + edit.blocked
    /\ edit.op = "delete" =>
         \A n \in edit.range : edit.saw[n] # None => edit.saw[n].soldRooms = 0

\* A hold stands on rows that are there, unless they were deleted under it.
HoldsHaveRows ==
  \A n \in Nights \ careless : Among(n, {"held", "lapsed"}) # {} => n \in Loaded

CapacityInv == TypeInv /\ EditChecked /\ HoldsHaveRows /\ SoldIsCounted

-----------------------------------------------------------------------------
(* Counting guests.                                                        *)

LEMMA AmongFinite ==
  ASSUME NEW n, NEW S
  PROVE  IsFiniteSet(Among(n, S)) /\ Cardinality(Among(n, S)) \in Nat
BY CapacityAssumption, FS_Subset, FS_CardinalityType DEF Among

Counts(n, S, g, s) == IF n \in Stay[g] /\ s \in S THEN 1 ELSE 0

\* A guest that changes its status leaves the count of the one it had and joins
\* that of the new one.
LEMMA AmongMoves ==
  ASSUME NEW n, NEW S, NEW g \in Guests, NEW s, TypeInv, Becomes(g, s)
  PROVE  Cardinality(Among(n, S)') =
           Cardinality(Among(n, S)) - Counts(n, S, g, stay[g]) + Counts(n, S, g, s)
<1> DEFINE others == Among(n, S) \ {g}
<1>1. \A h \in Guests : stay'[h] = IF h = g THEN s ELSE stay[h]
  BY DEF Becomes, TypeInv
<1>2. Among(n, S) = IF n \in Stay[g] /\ stay[g] \in S THEN others \cup {g} ELSE others
  BY DEF Among
<1>3. Among(n, S)' = IF n \in Stay[g] /\ s \in S THEN others \cup {g} ELSE others
  BY <1>1 DEF Among
<1>4. /\ IsFiniteSet(others) /\ g \notin others
      /\ Cardinality(others) \in Nat
  BY AmongFinite, FS_Subset, FS_CardinalityType
<1>5. Cardinality(others \cup {g}) = Cardinality(others) + 1
  BY <1>4, FS_AddElement
<1> HIDE DEF others
<1> QED  BY <1>2, <1>3, <1>4, <1>5 DEF Counts

-----------------------------------------------------------------------------
(* What every step keeps.                                                  *)

LEMMA TypeStep == TypeInv /\ [Next]_vars => TypeInv'
<1> SUFFICES ASSUME TypeInv, [Next]_vars
             PROVE  TypeInv'
  OBVIOUS
<1> USE CapacityAssumption DEF TypeInv
<1>1. \A n \in Loaded : row[n] \in Rows
  BY DEF Loaded
<1>2. ASSUME NEW g \in Guests, Hold(g) \/ Lapse(g) \/ Extend(g) \/ Release(g)
      PROVE  TypeInv'
  BY <1>2 DEF Hold, Lapse, Extend, Release, Becomes
<1>3. ASSUME NEW g \in Guests, Convert(g) \/ SellAgain(g) \/ AcceptLapsed(g)
      PROVE  TypeInv'
  <2>1. SellOn(g) \in [Nights -> Rows \cup {None}]
    BY <1>1 DEF SellOn, Rows
  <2> QED  BY <1>3, <2>1 DEF Convert, SellAgain, AcceptLapsed, Becomes
<1>4. ASSUME NEW g \in Guests, Restore(g)
      PROVE  TypeInv'
  BY <1>1, <1>4 DEF Restore, Becomes, Rows
<1>5. ASSUME NEW range \in Ranges, NEW total \in Totals, NEW blocked \in Blocks,
             CheckUpsert(range, total, blocked)
      PROVE  TypeInv'
  BY <1>5 DEF CheckUpsert, Edits
<1>6. ASSUME NEW range \in Ranges, CheckDelete(range)
      PROVE  TypeInv'
  BY <1>6 DEF CheckDelete, Edits
<1>7. CASE WriteUpsert
  <2>1. edit \in Edits
    BY <1>7 DEF WriteUpsert
  <2>2. \A n \in Nights : Upserted(n) \in Rows
    BY <1>1, <2>1 DEF Upserted, NewRow, Rows, Edits
  <2> QED  BY <1>7, <2>2 DEF WriteUpsert
<1>8. CASE WriteDelete \/ GiveUp \/ UNCHANGED vars
  BY <1>8 DEF WriteDelete, GiveUp, vars
<1> QED  BY <1>2, <1>3, <1>4, <1>5, <1>6, <1>7, <1>8 DEF Next, Editor, Guest

LEMMA EditStep == TypeInv /\ EditChecked /\ [Next]_vars => EditChecked'
<1> SUFFICES ASSUME TypeInv, EditChecked, [Next]_vars
             PROVE  EditChecked'
  OBVIOUS
<1>1. ASSUME NEW range \in Ranges, NEW total \in Totals, NEW blocked \in Blocks,
             CheckUpsert(range, total, blocked)
      PROVE  EditChecked'
  BY <1>1, CapacityAssumption DEF CheckUpsert, Fits, Loaded, EditChecked
<1>2. ASSUME NEW range \in Ranges, CheckDelete(range)
      PROVE  EditChecked'
  BY <1>2, CapacityAssumption DEF CheckDelete, Unsold, Loaded, EditChecked
<1>3. CASE WriteUpsert \/ WriteDelete \/ GiveUp
  BY <1>3 DEF WriteUpsert, WriteDelete, GiveUp, EditChecked
<1>4. ASSUME NEW g \in Guests, Guest(g)
      PROVE  EditChecked'
  BY <1>4 DEF Guest, Hold, Lapse, Extend, Convert, SellAgain, AcceptLapsed, Release,
      Restore, EditChecked
<1>5. CASE UNCHANGED vars
  BY <1>5 DEF vars, EditChecked
<1> QED  BY <1>1, <1>2, <1>3, <1>4, <1>5 DEF Next, Editor

\* Sales and returns leave the rows there.
LEMMA RowsStay ==
  ASSUME TypeInv, NEW g \in Guests, Guest(g)
  PROVE  Loaded' = Loaded
<1>1. \A n \in Loaded : row[n] \in Rows
  BY DEF Loaded, TypeInv
<1>2. CASE UNCHANGED row
  BY <1>2 DEF Loaded
<1>3. CASE row' = SellOn(g)
  <2>1. \A n \in Loaded \cap Stay[g] : SellOn(g)[n] \in Rows
    BY <1>1 DEF SellOn, Rows, Loaded
  <2>2. \A n \in Nights \ (Loaded \cap Stay[g]) : SellOn(g)[n] = row[n]
    BY DEF SellOn
  <2> QED  BY <1>3, <2>1, <2>2, CapacityAssumption DEF Loaded, Rows
<1>4. CASE Restore(g)
  <2>1. \A n \in Loaded : row'[n] \in Rows
    BY <1>1, <1>4 DEF Restore, Rows, Loaded
  <2>2. \A n \in Nights \ Loaded : row'[n] = row[n]
    BY <1>4 DEF Restore
  <2> QED  BY <2>1, <2>2, CapacityAssumption DEF Loaded, Rows
<1> QED  BY <1>2, <1>3, <1>4 DEF Guest, Hold, Lapse, Extend, Convert, SellAgain,
            AcceptLapsed, Release

\* The nights an edit knows everything of.
LEMMA WrittenWithCare ==
  ASSUME TypeInv, WriteUpsert \/ WriteDelete, NEW n \in Nights \ careless'
  PROVE  /\ n \notin careless
         /\ n \in edit.range => /\ Among(n, {"held", "lapsed"}) = {}
                                /\ row[n] = edit.saw[n]
         /\ n \notin edit.range => row'[n] = row[n]
BY DEF WriteUpsert, WriteDelete, Overlooked

LEMMA RowsUnderHoldsStep ==
  TypeInv /\ HoldsHaveRows /\ [Next]_vars => HoldsHaveRows'
<1> SUFFICES ASSUME TypeInv, HoldsHaveRows, [Next]_vars
             PROVE  HoldsHaveRows'
  OBVIOUS
<1>1. ASSUME NEW g \in Guests, Guest(g)
      PROVE  HoldsHaveRows'
  <2>1. Loaded' = Loaded /\ careless' = careless
    BY <1>1, RowsStay DEF Guest, Hold, Lapse, Extend, Convert, SellAgain, AcceptLapsed,
       Release, Restore
  <2>2. \A h \in Guests : stay'[h] # stay[h] =>
          h = g /\ (stay'[g] \in {"held", "lapsed"} =>
                      stay[g] \in {"held", "lapsed"} \/ Available(g))
    BY <1>1 DEF Guest, Hold, Lapse, Extend, Convert, SellAgain, AcceptLapsed, Release,
       Restore, Becomes, TypeInv
  <2>3. \A n \in Nights : Among(n, {"held", "lapsed"})' # {} =>
          Among(n, {"held", "lapsed"}) # {} \/ n \in Loaded
    BY <2>2 DEF Among, Available
  <2> QED  BY <2>1, <2>3 DEF HoldsHaveRows
<1>2. CASE WriteUpsert
  <2>1. \A n \in edit.range \cap Nights : Upserted(n) \in Rows
    BY <1>2 DEF WriteUpsert, Upserted, NewRow, Rows, Edits, TypeInv, Loaded
  <2>2. Loaded \subseteq Loaded'
    BY <1>2, <2>1, CapacityAssumption DEF WriteUpsert, Loaded, Rows
  <2>3. careless \subseteq careless' /\ UNCHANGED stay
    BY <1>2 DEF WriteUpsert
  <2> QED  BY <2>2, <2>3 DEF HoldsHaveRows, Among
<1>3. CASE WriteDelete
  <2>1. UNCHANGED stay
    BY <1>3 DEF WriteDelete
  <2> QED  BY <1>3, <2>1, WrittenWithCare DEF HoldsHaveRows, Among, Loaded
<1>4. CASE GiveUp \/ UNCHANGED vars
  BY <1>4 DEF GiveUp, vars, HoldsHaveRows, Among, Loaded
<1>5. ASSUME NEW range, UNCHANGED <<row, stay, careless>>
      PROVE  HoldsHaveRows'
  BY <1>5 DEF HoldsHaveRows, Among, Loaded
<1> QED  BY <1>1, <1>2, <1>3, <1>4, <1>5 DEF Next, Editor, CheckUpsert, CheckDelete

-----------------------------------------------------------------------------
(* soldRooms.                                                              *)

Sold(n) == Cardinality(Among(n, {"sold"}))

\* A sale counts one more on each night of the stay, where the rows are there.
LEMMA SaleCounted ==
  ASSUME TypeInv, SoldIsCounted, NEW g \in Guests, row' = SellOn(g), Becomes(g, "sold"),
         stay[g] # "sold", UNCHANGED careless,
         \A n \in Stay[g] \ careless : n \in Loaded
  PROVE  SoldIsCounted'
<1>1. \A n \in Loaded : row[n] \in Rows
  BY DEF Loaded, TypeInv
<1>2. SUFFICES ASSUME NEW n \in Nights \ careless
               PROVE  Sold(n)' = IF n \in Loaded' THEN row'[n].soldRooms ELSE 0
  BY DEF SoldIsCounted, Sold
<1>3. Sold(n)' = Sold(n) + (IF n \in Stay[g] THEN 1 ELSE 0)
  <2>1. Sold(n)' = Sold(n) - Counts(n, {"sold"}, g, stay[g])
                           + Counts(n, {"sold"}, g, "sold")
    BY AmongMoves DEF Sold
  <2>2. Sold(n) \in Nat
    BY AmongFinite DEF Sold
  <2> QED  BY <2>1, <2>2 DEF Counts
<1>4. Sold(n) = IF n \in Loaded THEN row[n].soldRooms ELSE 0
  BY DEF SoldIsCounted, Sold
<1>5. CASE n \in Stay[g]
  <2>1. n \in Loaded
    BY <1>5
  <2>2. row'[n] = [row[n] EXCEPT !.soldRooms = @ + 1]
    BY <1>5, <2>1 DEF SellOn
  <2>3. row'[n] \in Rows /\ row'[n].soldRooms = row[n].soldRooms + 1
    BY <1>1, <2>1, <2>2 DEF Rows
  <2> QED  BY <1>3, <1>4, <1>5, <2>1, <2>3, CapacityAssumption DEF Loaded, Rows
<1>6. CASE n \notin Stay[g]
  <2>1. row'[n] = row[n]
    BY <1>6 DEF SellOn
  <2>2. Sold(n) \in Nat
    BY AmongFinite DEF Sold
  <2> QED  BY <1>3, <1>4, <1>6, <2>1, <2>2 DEF Loaded
<1> QED  BY <1>5, <1>6

LEMMA SoldStep == CapacityInv /\ [Next]_vars => SoldIsCounted'
<1> SUFFICES ASSUME CapacityInv, [Next]_vars
             PROVE  SoldIsCounted'
  OBVIOUS
<1> USE DEF CapacityInv
<1>1. \A n \in Loaded : row[n] \in Rows
  BY DEF Loaded, TypeInv
<1>2. ASSUME NEW g \in Guests, Hold(g) \/ Lapse(g) \/ Extend(g) \/ Release(g)
      PROVE  SoldIsCounted'
  <2>1. \A n : Among(n, {"sold"})' = Among(n, {"sold"})
    BY <1>2 DEF Hold, Lapse, Extend, Release, Becomes, TypeInv, Among
  <2> QED  BY <1>2, <2>1 DEF Hold, Lapse, Extend, Release, SoldIsCounted, Loaded
<1>3. ASSUME NEW g \in Guests, Convert(g) \/ AcceptLapsed(g)
      PROVE  SoldIsCounted'
  <2>1. \A n \in Nights \cap Stay[g] : g \in Among(n, {"held", "lapsed"})
    BY <1>3 DEF Convert, AcceptLapsed, Among
  <2>2. \A n \in Stay[g] \ careless : n \in Loaded
    BY <2>1, CapacityAssumption DEF HoldsHaveRows
  <2> QED  BY <1>3, <2>2, SaleCounted DEF Convert, AcceptLapsed
<1>4. ASSUME NEW g \in Guests, SellAgain(g)
      PROVE  SoldIsCounted'
  BY <1>4, SaleCounted DEF SellAgain, Available
<1>5. ASSUME NEW g \in Guests, Restore(g)
      PROVE  SoldIsCounted'
  <2>1. SUFFICES ASSUME NEW n \in Nights \ careless
                 PROVE  Sold(n)' = IF n \in Loaded' THEN row'[n].soldRooms ELSE 0
    BY <1>5 DEF SoldIsCounted, Sold, Restore
  <2>2. Sold(n)' = Sold(n) - (IF n \in Stay[g] THEN 1 ELSE 0)
    <3>1. Sold(n)' = Sold(n) - Counts(n, {"sold"}, g, stay[g])
                             + Counts(n, {"sold"}, g, "cancelled")
      BY <1>5, AmongMoves DEF Restore, Sold
    <3>2. Sold(n) \in Nat
      BY AmongFinite DEF Sold
    <3> QED  BY <1>5, <3>1, <3>2 DEF Counts, Restore
  <2>3. Sold(n) = IF n \in Loaded THEN row[n].soldRooms ELSE 0
    BY DEF SoldIsCounted, Sold
  <2>4. Sold(n) \in Nat
    BY AmongFinite DEF Sold
  <2>5. CASE n \in Stay[g]
    <3>1. g \in Among(n, {"sold"})
      BY <1>5, <2>5 DEF Restore, Among
    <3>2. Sold(n) # 0
      BY <3>1, AmongFinite, FS_EmptySet DEF Sold
    <3>3. n \in Loaded /\ row[n].soldRooms > 0
      BY <2>3, <2>4, <3>2
    <3>4. row'[n] = [row[n] EXCEPT !.soldRooms = @ - 1]
      BY <1>5, <2>5, <3>3 DEF Restore
    <3>5. row'[n] \in Rows /\ row'[n].soldRooms = row[n].soldRooms - 1
      BY <1>1, <3>3, <3>4 DEF Rows
    <3> QED  BY <2>2, <2>3, <2>5, <3>3, <3>5, CapacityAssumption DEF Loaded, Rows
  <2>6. CASE n \notin Stay[g]
    <3>1. row'[n] = row[n]
      BY <1>5, <2>6 DEF Restore
    <3> QED  BY <2>2, <2>3, <2>4, <2>6, <3>1 DEF Loaded
  <2> QED  BY <2>5, <2>6
<1>6. CASE WriteUpsert
  <2>1. SUFFICES ASSUME NEW n \in Nights \ careless'
                 PROVE  Sold(n) = IF n \in Loaded' THEN row'[n].soldRooms ELSE 0
    BY <1>6 DEF SoldIsCounted, Sold, WriteUpsert, Among
  <2>2. n \notin careless /\ Sold(n) = IF n \in Loaded THEN row[n].soldRooms ELSE 0
    BY <1>6, WrittenWithCare DEF SoldIsCounted, Sold
  <2>3. CASE n \in edit.range
    <3>1. row'[n] = Upserted(n)
      BY <1>6, <2>3 DEF WriteUpsert
    <3>2. Upserted(n) \in Rows
      BY <1>6, <1>1 DEF WriteUpsert, Upserted, NewRow, Rows, Edits, TypeInv
    <3>3. Upserted(n).soldRooms = IF n \in Loaded THEN row[n].soldRooms ELSE 0
      BY <1>1 DEF Upserted, NewRow, Rows
    <3> QED  BY <2>2, <3>1, <3>2, <3>3, CapacityAssumption DEF Loaded, Rows
  <2>4. CASE n \notin edit.range
    BY <1>6, <2>2, <2>4 DEF WriteUpsert, Loaded
  <2> QED  BY <2>3, <2>4
<1>7. CASE WriteDelete
  <2>1. SUFFICES ASSUME NEW n \in Nights \ careless'
                 PROVE  Sold(n) = IF n \in Loaded' THEN row'[n].soldRooms ELSE 0
    BY <1>7 DEF SoldIsCounted, Sold, WriteDelete, Among
  <2>2. n \notin careless /\ Sold(n) = IF n \in Loaded THEN row[n].soldRooms ELSE 0
    BY <1>7, WrittenWithCare DEF SoldIsCounted, Sold
  <2>3. CASE n \in edit.range
    <3>1. row[n] = edit.saw[n] /\ n \notin Loaded'
      BY <1>7, <2>3, WrittenWithCare DEF WriteDelete, Loaded
    <3>2. n \in Loaded => row[n].soldRooms = 0
      BY <1>7, <2>3, <3>1 DEF WriteDelete, EditChecked, Loaded
    <3> QED  BY <2>2, <3>1, <3>2
  <2>4. CASE n \notin edit.range
    BY <1>7, <2>2, <2>4 DEF WriteDelete, Loaded
  <2> QED  BY <2>3, <2>4
<1>8. CASE UNCHANGED <<row, stay, careless>>
  BY <1>8 DEF SoldIsCounted, Among, Loaded
<1> QED  BY <1>2, <1>3, <1>4, <1>5, <1>6, <1>7, <1>8
         DEF Next, Editor, Guest, CheckUpsert, CheckDelete, GiveUp, vars

LEMMA CapacityStart == Init => CapacityInv
<1> SUFFICES ASSUME Init
             PROVE  CapacityInv
  OBVIOUS
<1>1. \A n, S : "none" \notin S => Among(n, S) = {}
  BY DEF Init, Among
<1> QED  BY <1>1, FS_EmptySet
         DEF Init, CapacityInv, TypeInv, EditChecked, HoldsHaveRows, SoldIsCounted, Loaded

\* soldRooms counts the stays sold for every hotel, through edits, deletions and
\* new rows, on the nights where the editor overlooked nothing.
THEOREM EditsKeepTheCount == Spec => []SoldIsCounted
<1>1. CapacityInv /\ [Next]_vars => CapacityInv'
  BY TypeStep, EditStep, RowsUnderHoldsStep, SoldStep DEF CapacityInv
<1>2. CapacityInv => SoldIsCounted
  BY DEF CapacityInv
<1> QED  BY <1>1, <1>2, CapacityStart, PTL DEF Spec

-----------------------------------------------------------------------------
(* Rooms.                                                                  *)

\* A guest's step moves what is held, and may move what is sold, by a room.
LEMMA HeldMoves ==
  ASSUME TypeInv, NEW g \in Guests, NEW s, Becomes(g, s), NEW n
  PROVE  /\ heldRooms(n) \in Nat
         /\ heldRooms(n)' = heldRooms(n) - Counts(n, {"held"}, g, stay[g])
                                         + Counts(n, {"held"}, g, s)
BY AmongMoves, AmongFinite DEF heldRooms

\* A guest who held a room, or found one free, may take it.
LEMMA SaleFits ==
  ASSUME TypeInv, RoomsSuffice, NEW g \in Guests, row' = SellOn(g), Becomes(g, "sold"),
         stay[g] = "held" \/ Available(g), UNCHANGED <<careless, lapsedHoldUsed>>
  PROVE  RoomsSuffice'
<1> SUFFICES ASSUME lapsedHoldUsed = {}, NEW n \in Nights, n \in Loaded', n \notin careless
             PROVE  freeRooms(n)' >= 0
  BY DEF RoomsSuffice, Loaded
<1>1. n \in Loaded /\ row[n] \in Rows
  BY DEF SellOn, Loaded, TypeInv
<1>2. freeRooms(n) >= 0
  BY <1>1 DEF RoomsSuffice
<1>3. /\ heldRooms(n) \in Nat
      /\ heldRooms(n)' = heldRooms(n) - Counts(n, {"held"}, g, stay[g])
                                      + Counts(n, {"held"}, g, "sold")
  BY HeldMoves
<1>4. CASE n \in Stay[g]
  <2>1. row'[n] = [row[n] EXCEPT !.soldRooms = @ + 1]
    BY <1>1, <1>4 DEF SellOn
  <2>2. CASE stay[g] = "held"
    <3>1. heldRooms(n)' = heldRooms(n) - 1
      BY <1>3, <1>4, <2>2 DEF Counts
    <3> QED  BY <1>1, <1>2, <1>3, <2>1, <3>1 DEF freeRooms, Rows
  <2>3. CASE Available(g)
    <3>1. freeRooms(n) >= 1
      BY <1>4, <2>3 DEF Available
    <3>2. heldRooms(n)' <= heldRooms(n) /\ heldRooms(n)' \in Int
      BY <1>3 DEF Counts
    <3> QED  BY <1>1, <1>3, <2>1, <3>1, <3>2 DEF freeRooms, Rows
  <2> QED  BY <2>2, <2>3
<1>5. CASE n \notin Stay[g]
  <2>1. row'[n] = row[n]
    BY <1>5 DEF SellOn
  <2>2. heldRooms(n)' = heldRooms(n)
    BY <1>3, <1>5 DEF Counts
  <2> QED  BY <1>2, <2>1, <2>2 DEF freeRooms
<1> QED  BY <1>4, <1>5

LEMMA RoomsStep == CapacityInv /\ RoomsSuffice /\ [Next]_vars => RoomsSuffice'
<1> SUFFICES ASSUME TypeInv, EditChecked, RoomsSuffice, [Next]_vars
             PROVE  RoomsSuffice'
  BY DEF CapacityInv
<1>1. \A n \in Loaded : row[n] \in Rows
  BY DEF Loaded, TypeInv
<1>2. ASSUME NEW g \in Guests, Hold(g)
      PROVE  RoomsSuffice'
  <2> SUFFICES ASSUME lapsedHoldUsed = {}, NEW n \in Loaded, n \notin careless
               PROVE  freeRooms(n)' >= 0
    BY <1>2 DEF Hold, RoomsSuffice, Loaded
  <2>1. /\ heldRooms(n) \in Nat
        /\ heldRooms(n)' = heldRooms(n) - Counts(n, {"held"}, g, stay[g])
                                        + Counts(n, {"held"}, g, "held")
    BY <1>2, HeldMoves DEF Hold
  <2>2. heldRooms(n)' = heldRooms(n) + (IF n \in Stay[g] THEN 1 ELSE 0)
    BY <1>2, <2>1 DEF Hold, Counts
  <2>3. freeRooms(n) >= IF n \in Stay[g] THEN 1 ELSE 0
    BY <1>2 DEF Hold, Available, RoomsSuffice
  <2>4. row'[n] = row[n] /\ row[n] \in Rows
    BY <1>1, <1>2 DEF Hold
  <2> QED  BY <2>1, <2>2, <2>3, <2>4 DEF freeRooms, Rows
<1>3. ASSUME NEW g \in Guests, NEW s, Becomes(g, s), s # "held",
             UNCHANGED <<row, careless, lapsedHoldUsed>>
      PROVE  RoomsSuffice'
  <2> SUFFICES ASSUME lapsedHoldUsed = {}, NEW n \in Loaded, n \notin careless
               PROVE  freeRooms(n)' >= 0
    BY <1>3 DEF RoomsSuffice, Loaded
  <2>1. /\ heldRooms(n) \in Nat
        /\ heldRooms(n)' = heldRooms(n) - Counts(n, {"held"}, g, stay[g])
                                        + Counts(n, {"held"}, g, s)
    BY <1>3, HeldMoves
  <2>2. heldRooms(n)' <= heldRooms(n) /\ heldRooms(n)' \in Int
    BY <1>3, <2>1 DEF Counts
  <2>3. freeRooms(n) >= 0 /\ row'[n] = row[n] /\ row[n] \in Rows
    BY <1>1, <1>3 DEF RoomsSuffice
  <2> QED  BY <2>1, <2>2, <2>3 DEF freeRooms, Rows
<1>4. ASSUME NEW g \in Guests, Lapse(g) \/ Release(g)
      PROVE  RoomsSuffice'
  BY <1>3, <1>4 DEF Lapse, Release
<1>5. ASSUME NEW g \in Guests, Convert(g) \/ SellAgain(g)
      PROVE  RoomsSuffice'
  BY <1>5, SaleFits DEF Convert, SellAgain
<1>6. ASSUME NEW g \in Guests, Extend(g) \/ AcceptLapsed(g)
      PROVE  RoomsSuffice'
  BY <1>6 DEF Extend, AcceptLapsed, RoomsSuffice
<1>7. ASSUME NEW g \in Guests, Restore(g)
      PROVE  RoomsSuffice'
  <2> SUFFICES ASSUME lapsedHoldUsed = {}, NEW n \in Loaded, n \notin careless
               PROVE  freeRooms(n)' >= 0
    BY <1>7, RowsStay DEF Restore, Guest, RoomsSuffice
  <2>1. n \in Nights /\ freeRooms(n) >= 0
    BY DEF RoomsSuffice, Loaded
  <2>2. /\ heldRooms(n) \in Nat
        /\ heldRooms(n)' = heldRooms(n) - Counts(n, {"held"}, g, stay[g])
                                        + Counts(n, {"held"}, g, "cancelled")
    BY <1>7, HeldMoves DEF Restore
  <2>3. heldRooms(n)' = heldRooms(n)
    BY <1>7, <2>2 DEF Restore, Counts
  <2>4. \/ row'[n] = row[n]
        \/ row'[n] = [row[n] EXCEPT !.soldRooms = @ - 1]
    BY <1>7, <2>1 DEF Restore
  <2> QED  BY <1>1, <2>1, <2>2, <2>3, <2>4 DEF freeRooms, Rows
<1>8. CASE WriteUpsert
  <2> SUFFICES ASSUME lapsedHoldUsed = {}, NEW n \in Nights, n \in Loaded',
                      n \notin careless'
               PROVE  freeRooms(n)' >= 0
    BY <1>8 DEF WriteUpsert, RoomsSuffice, Loaded
  <2>1. edit \in Edits /\ n \notin careless
    BY <1>8, WrittenWithCare DEF WriteUpsert, TypeInv
  <2>2. heldRooms(n)' = heldRooms(n)
    BY <1>8 DEF WriteUpsert, heldRooms, Among
  <2>3. CASE n \in edit.range
    <3>1. Among(n, {"held", "lapsed"}) = {} /\ row[n] = edit.saw[n]
      BY <1>8, <2>3, WrittenWithCare
    <3>2. heldRooms(n) = 0
      <4>1. Among(n, {"held"}) = {}
        BY <3>1 DEF Among
      <4> QED  BY <4>1, FS_EmptySet DEF heldRooms
    <3>3. row'[n] = Upserted(n)
      BY <1>8, <2>3 DEF WriteUpsert
    <3>4. edit.total >= edit.blocked
          /\ (n \in Loaded => edit.total >= row[n].soldRooms + edit.blocked)
      BY <1>8, <2>3, <3>1 DEF WriteUpsert, EditChecked, Loaded
    <3>5. edit.total \in Nat /\ edit.blocked \in Nat
      BY <2>1 DEF Edits
    <3>6. CASE n \in Loaded
      <4>1. row'[n].totalRooms = edit.total /\ row'[n].blockedRooms = edit.blocked
            /\ row'[n].soldRooms = row[n].soldRooms /\ row[n].soldRooms \in Nat
        BY <1>1, <3>3, <3>6 DEF Upserted, Rows
      <4> QED  BY <2>2, <3>2, <3>4, <3>5, <3>6, <4>1 DEF freeRooms
    <3>7. CASE n \notin Loaded
      <4>1. row'[n].totalRooms = edit.total /\ row'[n].blockedRooms = edit.blocked
            /\ row'[n].soldRooms = 0
        BY <3>3, <3>7 DEF Upserted, NewRow
      <4> QED  BY <2>2, <3>2, <3>4, <3>5, <4>1 DEF freeRooms
    <3> QED  BY <3>6, <3>7
  <2>4. CASE n \notin edit.range
    <3>1. row'[n] = row[n] /\ n \in Loaded
      BY <1>8, <2>4 DEF WriteUpsert, Loaded
    <3> QED  BY <2>1, <2>2, <3>1 DEF freeRooms, RoomsSuffice
  <2> QED  BY <2>3, <2>4
<1>9. CASE WriteDelete
  <2> SUFFICES ASSUME lapsedHoldUsed = {}, NEW n \in Nights, n \in Loaded',
                      n \notin careless'
               PROVE  freeRooms(n)' >= 0
    BY <1>9 DEF WriteDelete, RoomsSuffice, Loaded
  <2>1. n \notin careless /\ row'[n] = row[n] /\ n \in Loaded
    BY <1>9, WrittenWithCare DEF WriteDelete, Loaded
  <2>2. heldRooms(n)' = heldRooms(n)
    BY <1>9 DEF WriteDelete, heldRooms, Among
  <2> QED  BY <2>1, <2>2 DEF freeRooms, RoomsSuffice
<1>10. CASE UNCHANGED <<row, stay, careless, lapsedHoldUsed>>
  BY <1>10 DEF RoomsSuffice, Loaded, freeRooms, heldRooms, Among
<1> QED  BY <1>2, <1>4, <1>5, <1>6, <1>7, <1>8, <1>9, <1>10
         DEF Next, Editor, Guest, CheckUpsert, CheckDelete, GiveUp, vars

\* For every hotel, a night whose edits overlooked nothing has the rooms that are
\* held and sold for it, until a lapsed hold is used.
THEOREM EditsLeaveRoom == Spec => []RoomsSuffice
<1>1. CapacityInv /\ RoomsSuffice /\ [Next]_vars
        => (CapacityInv /\ RoomsSuffice)'
  BY TypeStep, EditStep, RowsUnderHoldsStep, SoldStep, RoomsStep DEF CapacityInv
<1>2. Init => RoomsSuffice
  BY DEF Init, RoomsSuffice, Loaded
<1> QED  BY <1>1, <1>2, CapacityStart, PTL DEF Spec
=============================================================================
