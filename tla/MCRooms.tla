------------------------------ MODULE MCRooms ------------------------------
(* Model checking instances of Rooms, with one room.                        *)
EXTENDS Rooms

CONSTANTS alice, bob, a1, a2, b1, lobby

MCRoomIds == {lobby}

\* One user, two connections, one after the other or at once.
ReconnectUsers == {alice}
ReconnectSessions == {a1, a2}
ReconnectLeavers == ReconnectSessions
ReconnectOwner == (a1 :> alice) @@ (a2 :> alice)

\* Two users, one connection each.
PairUsers == {alice, bob}
PairSessions == {a1, b1}
PairLeavers == {b1}
PairOwner == (a1 :> alice) @@ (b1 :> bob)
=============================================================================
