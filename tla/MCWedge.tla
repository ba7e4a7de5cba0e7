------------------------------ MODULE MCWedge ------------------------------
(* Two requests for one owner and one for another. *)
EXTENDS WedgeCorrect, TLC

CONSTANTS c1, c2, c3, alice, bob

OwnersOf == (c1 :> alice) @@ (c2 :> alice) @@ (c3 :> bob)
=============================================================================
