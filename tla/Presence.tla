------------------------------ MODULE Presence ------------------------------
(***************************************************************************)
(* What the router promises about who is online, without channels, tasks   *)
(* or replies.  A connection waits, and is either admitted as the holder   *)
(* of its user's place or refused because the place is taken.  An admitted *)
(* connection is some day over, and only then gives the place back, once.  *)
(***************************************************************************)
CONSTANTS Users, Sessions, Owner, None

VARIABLES
    holder,    \* the connection that holds the place of a user, or None
    standing,  \* what each connection was told or did
    over       \* the admitted connections that ended

vars == <<holder, standing, over>>

Init ==
    /\ holder = [u \in Users |-> None]
    /\ standing = [s \in Sessions |-> "waiting"]
    /\ over = {}

Admit(s) ==
    /\ standing[s] = "waiting"
    /\ holder[Owner[s]] = None
    /\ holder' = [holder EXCEPT ![Owner[s]] = s]
    /\ standing' = [standing EXCEPT ![s] = "present"]
    /\ UNCHANGED over

Refuse(s) ==
    /\ standing[s] = "waiting"
    /\ holder[Owner[s]] # None
    /\ standing' = [standing EXCEPT ![s] = "refused"]
    /\ UNCHANGED <<holder, over>>

End(s) ==
    /\ standing[s] = "present"
    /\ s \notin over
    /\ over' = over \cup {s}
    /\ UNCHANGED <<holder, standing>>

Leave(s) ==
    /\ standing[s] = "present"
    /\ s \in over
    /\ holder' = [holder EXCEPT ![Owner[s]] = None]
    /\ standing' = [standing EXCEPT ![s] = "gone"]
    /\ UNCHANGED over

Next == \E s \in Sessions : Admit(s) \/ Refuse(s) \/ End(s) \/ Leave(s)

Spec == Init /\ [][Next]_vars
=============================================================================
