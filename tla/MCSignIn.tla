------------------------------- MODULE MCSignIn -------------------------------
(* Two requests at a time, a code of two attempts, three tokens.                *)
EXTENDS SignIn, TLC

Limits == [key \in Keys |-> IF key = "otp" THEN 2 ELSE 1]
Symmetry == Permutations(Handlers)
=============================================================================
