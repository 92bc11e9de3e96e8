-------------------------- MODULE MCMessageRouter --------------------------
(* Model checking instance of MessageRouter: three connections of one user  *)
(* and one of another.                                                      *)
EXTENDS MessageRouter, TLC

CONSTANTS alice, bob, a1, a2, a3, b1

MCUsers == {alice, bob}
MCSessions == {a1, a2, a3, b1}
MCOwner == (a1 :> alice) @@ (a2 :> alice) @@ (a3 :> alice) @@ (b1 :> bob)
=============================================================================
