------------------------------ MODULE MCCapacity ------------------------------
(* Two nights, one guest for each of them and one for both.                   *)
EXTENDS Capacity

CONSTANTS one, other, both

MCStay == [g \in Guests |->
             CASE g = one -> {1} [] g = other -> {2} [] OTHER -> {1, 2}]
MCRanges == {{1}, {1, 2}}
=============================================================================
