-------------------------- MODULE MCDirectMessages --------------------------
(* Two users, one of whom has a second connection, while the first is open   *)
(* or after it ended.                                                        *)
EXTENDS DirectMessages

CONSTANTS alice, bob, a1, a2, b1

MCUsers == {alice, bob}
MCSessions == {a1, a2, b1}
MCOwner == (a1 :> alice) @@ (a2 :> alice) @@ (b1 :> bob)
MCLeavers == {a1}

\* Bound: what the clients do.  Alice's second connection and Bob's are
\* alternatives, and Bob sends at most one message, the first.  Only Connect and
\* ReceiveDirectMessage are restrained, of which no fairness is assumed.
Scenario ==
    /\ phase'[a2] = "new" \/ phase'[b1] = "new"
    /\ author'[2] # b1

MCNext == DMNext /\ Scenario
MCSpec == DMInit /\ [][MCNext]_dmVars /\ DMFairness
=============================================================================
