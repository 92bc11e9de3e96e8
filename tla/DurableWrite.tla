---------------------------- MODULE DurableWrite ----------------------------
(***************************************************************************)
(* What a caller of the persistence service may rely on.  A write that was *)
(* begun takes effect at most once; the call returns Persisted only after  *)
(* it did, and may return Failed whatever happened, even before the write  *)
(* takes effect after all.                                                 *)
(***************************************************************************)
CONSTANT Ids

VARIABLES
    outcome,  \* how far the write of each message is
    store     \* the messages in the database

vars == <<outcome, store>>

PersistResults == {"Persisted", "Failed"}

TakesEffect(i) ==
    /\ outcome[i] \in {"writing", "Failed"}
    /\ i \notin store
    /\ store' = store \cup {i}
    /\ UNCHANGED outcome

Returns(i, status) ==
    /\ outcome[i] = "writing"
    /\ status = "Persisted" => i \in store
    /\ outcome' = [outcome EXCEPT ![i] = status]
    /\ UNCHANGED store

Begin(i) ==
    /\ outcome[i] \notin PersistResults \cup {"writing"}
    /\ outcome' = [outcome EXCEPT ![i] = "writing"]
    /\ UNCHANGED store

Init == store = {} /\ outcome = [i \in Ids |-> "none"]

Next ==
    \E i \in Ids :
        \/ Begin(i)
        \/ TakesEffect(i)
        \/ \E status \in PersistResults : Returns(i, status)

Spec == Init /\ [][Next]_vars
=============================================================================
