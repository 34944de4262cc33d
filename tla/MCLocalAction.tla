--------------------------- MODULE MCLocalAction ---------------------------
(* Two requests under one id and one under another.                           *)
EXTENDS LocalAction

CONSTANTS r1, r2, r3, a1, a2

OfThree == (r1 :> a1 @@ r2 :> a1 @@ r3 :> a2)

\* Two faults in behaviours of at most two requests, one in those of three.
TwoFaultsOfTwo == faults < 2 \/ \E r \in Request : phase[r] = "idle"
=============================================================================
