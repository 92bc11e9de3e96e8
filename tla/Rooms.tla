------------------------------- MODULE Rooms -------------------------------
(***************************************************************************)
(* Rooms: one actor per room, created by the router on the first JoinRoom, *)
(* with a channel and a member map of its own.  A member is a user and the *)
(* channel of the session that joined; nothing removes it when the session *)
(* ends except the room's periodic cleanup of closed channels.             *)
(*                                                                         *)
(* The broadcast loop is one step: nothing awaits in it, and for a single  *)
(* room the steps of the send tasks it interleaves with commute with it.   *)
(***************************************************************************)
EXTENDS UserSession

CONSTANTS
    RoomIds,
    MaxRequests,  \* bound: JoinRoom and LeaveRoom requests ever made
    HostLeaves    \* whether a host application sends LeaveRoom to the router

ASSUME RoomsAssumption ==
    /\ MaxRequests \in Nat
    /\ HostLeaves \in BOOLEAN

VARIABLES
    rooms,      \* MessageRouter.rooms: the rooms that have an actor
    roomInbox,  \* each actor's channel
    members,    \* RoomActor.members
    requests    \* counts JoinRoom and LeaveRoom requests

roomVars == <<rooms, roomInbox, members, requests>>
chatVars == <<vars, deliveryVars, roomVars>>

RoomInit ==
    /\ Init
    /\ DeliveryInit
    /\ rooms = {}
    /\ roomInbox = [r \in RoomIds |-> << >>]
    /\ members = [r \in RoomIds |-> [u \in Users |-> None]]
    /\ requests = 0

-----------------------------------------------------------------------------
(* The receive task and the host *)

Request(m) ==
    /\ requests < MaxRequests
    /\ requests' = requests + 1
    /\ inbox' = Append(inbox, m)

\* The reply to the join has no receiver: the client never learns of it.
ReceiveJoinRoom(s, r) ==
    /\ recvTask[s] \in Alive
    /\ draft[s] = NoDraft
    /\ Request([type |-> "JoinRoom", user |-> Owner[s], sender |-> s, room |-> r])
    /\ UNCHANGED <<users, online_users, sessionVars, deliveryVars,
                   rooms, roomInbox, members>>

\* A client's LeaveRoom is ignored by the receive task; only an application that
\* embeds the router can send one.
HostLeaveRoom(u, r) ==
    /\ HostLeaves
    /\ Request([type |-> "LeaveRoom", user |-> u, room |-> r])
    /\ UNCHANGED <<users, online_users, sessionVars, deliveryVars,
                   rooms, roomInbox, members>>

\* A room message whose `from` is not the session's user is refused unnumbered.
ReceiveRoomMessage(s, r) ==
    /\ Number(s, [type |-> "SendRoomMessage", id |-> nextId, room |-> r])
    /\ UNCHANGED roomVars

-----------------------------------------------------------------------------
(* The router *)

ToRoom(r, m) == roomInbox' = [roomInbox EXCEPT ![r] = Append(@, m)]

HandleJoinRoom ==
    /\ Receive("JoinRoom")
    /\ LET m == Head(inbox)
       IN /\ rooms' = rooms \cup {m.room}
          /\ ToRoom(m.room, [type |-> "AddMember", user |-> m.user, sender |-> m.sender])
    /\ UNCHANGED <<users, online_users, sessionVars, deliveryVars,
                   members, requests>>

HandleLeaveRoom ==
    /\ Receive("LeaveRoom")
    /\ LET m == Head(inbox)
       IN \/ /\ m.room \in rooms
             /\ ToRoom(m.room, [type |-> "RemoveMember", user |-> m.user])
          \/ /\ m.room \notin rooms
             /\ UNCHANGED roomInbox
    /\ UNCHANGED <<users, online_users, sessionVars, deliveryVars,
                   rooms, members, requests>>

\* Fault: the message is written before its room is looked up.
RoomMessageStoredFirst ==
    /\ Receive("SendRoomMessage")
    /\ LET m == Head(inbox)
       IN \/ /\ m.room \in rooms
             /\ ToRoom(m.room, [type |-> "SendMessage", id |-> m.id])
             /\ UNCHANGED <<outcome, store>>
          \/ /\ m.room \notin rooms
             /\ outcome' = [outcome EXCEPT ![m.id] = "RoomNotFound"]
             /\ store' = store \cup {m.id}
             /\ UNCHANGED roomInbox
    /\ UNCHANGED <<users, online_users, sessionVars, channelVars, nextId, draft,
                   author, waiting, rooms, members, requests>>

\* Fault: a message to an unknown room gets no answer.
RoomMessageDropped ==
    /\ Receive("SendRoomMessage")
    /\ LET m == Head(inbox)
       IN \/ /\ m.room \in rooms
             /\ ToRoom(m.room, [type |-> "SendMessage", id |-> m.id])
          \/ /\ m.room \notin rooms
             /\ UNCHANGED roomInbox
    /\ UNCHANGED <<users, online_users, sessionVars, deliveryVars,
                   rooms, members, requests>>

HandleRoomMessage ==
    /\ Receive("SendRoomMessage")
    /\ LET m == Head(inbox)
       IN \/ /\ m.room \in rooms
             /\ ToRoom(m.room, [type |-> "SendMessage", id |-> m.id])
             /\ UNCHANGED outcome
          \/ /\ m.room \notin rooms
             /\ outcome' = [outcome EXCEPT ![m.id] = "RoomNotFound"]
             /\ UNCHANGED roomInbox
    /\ UNCHANGED <<users, online_users, sessionVars, channelVars, nextId, draft,
                   author, waiting, store, rooms, members, requests>>

-----------------------------------------------------------------------------
(* The room actor *)

RoomReceive(r, type) ==
    /\ roomInbox[r] # << >>
    /\ Head(roomInbox[r]).type = type
    /\ roomInbox' = [roomInbox EXCEPT ![r] = Tail(@)]

\* "User already in room" when the map has an entry, whatever its channel.
HandleAddMember(r) ==
    /\ RoomReceive(r, "AddMember")
    /\ LET m == Head(roomInbox[r])
           entry == members[r][m.user]
       IN \/ /\ entry # None
             /\ UNCHANGED members
          \/ /\ entry = None
             /\ members' = [members EXCEPT ![r][m.user] = m.sender]
    /\ UNCHANGED <<vars, deliveryVars, rooms, requests>>

HandleRemoveMember(r) ==
    /\ RoomReceive(r, "RemoveMember")
    /\ members' = [members EXCEPT ![r][Head(roomInbox[r]).user] = None]
    /\ UNCHANGED <<vars, deliveryVars, rooms, requests>>

MemberSessions(r) == {members[r][u] : u \in Users} \ {None}

\* try_send to every member; the write runs in a task of its own.
Broadcast(r, frame) ==
    [s \in Sessions |-> IF s \in MemberSessions(r)
                        THEN TrySend(channel, s, frame)[s]
                        ELSE channel[s]]

HandleSendMessage(r) ==
    /\ RoomReceive(r, "SendMessage")
    /\ LET i == Head(roomInbox[r]).id
       IN /\ BeginWrite(i)
          /\ channel' = Broadcast(r, RoomMessage(r, i))
    /\ UNCHANGED <<vars, acks, written, nextId, draft, author, waiting,
                   rooms, members, requests>>

\* Fault: a member whose queue is full is taken for dead.
RetainedIfRoom(r) ==
    [u \in Users |-> IF members[r][u] # None /\ ~CanTake(channel, members[r][u])
                     THEN None ELSE members[r][u]]

\* Fault: the cleanup keeps everybody.
RetainedAll(r) == members[r]

\* members.retain(|_, sender| !sender.is_closed()), every 60 seconds.
Retained(r) ==
    [u \in Users |-> IF members[r][u] # None /\ Closed(members[r][u])
                     THEN None ELSE members[r][u]]

Cleanup(r) ==
    /\ r \in rooms
    /\ members' = [members EXCEPT ![r] = Retained(r)]
    /\ UNCHANGED <<vars, deliveryVars, rooms, roomInbox, requests>>

-----------------------------------------------------------------------------
RoomRouterStep ==
    \/ RegistryStep /\ UNCHANGED roomVars
    \/ HandleJoinRoom \/ HandleLeaveRoom \/ HandleRoomMessage

RoomStep(r) == HandleAddMember(r) \/ HandleRemoveMember(r) \/ HandleSendMessage(r)

RoomNext ==
    \/ RoomRouterStep
    \/ \E r \in RoomIds : RoomStep(r) \/ Cleanup(r)
    \/ \E s \in Sessions : (LifeCycleStep(s) \/ DeliveryStep(s)) /\ UNCHANGED roomVars
    \/ \E s \in Sessions, r \in RoomIds :
        ReceiveJoinRoom(s, r) \/ ReceiveRoomMessage(s, r)
    \/ \E u \in Users, r \in RoomIds : HostLeaveRoom(u, r)
    \/ \E i \in Ids : PersistStep(i) /\ UNCHANGED roomVars

RoomSpec == RoomInit /\ [][RoomNext]_chatVars

RoomFairness ==
    /\ WF_chatVars(RoomRouterStep)
    /\ \A r \in RoomIds : WF_chatVars(RoomStep(r)) /\ WF_chatVars(Cleanup(r))
    /\ \A s \in Sessions :
        /\ WF_chatVars(RunStep(s) /\ UNCHANGED roomVars)
        /\ WF_chatVars(RecvTaskDropped(s) /\ UNCHANGED roomVars)
        /\ WF_chatVars(SendTaskDropped(s) /\ UNCHANGED roomVars)
        /\ WF_chatVars(SendDraft(s) /\ UNCHANGED roomVars)
        /\ WF_chatVars((WriteMessage(s) \/ SendTaskBreaks(s)) /\ UNCHANGED roomVars)
        /\ WF_chatVars((WriteAck(s) \/ SendTaskBreaks(s)) /\ UNCHANGED roomVars)
    /\ \A i \in Ids :
        /\ WF_chatVars(PersistTaskReturns(i) /\ UNCHANGED roomVars)
        /\ WF_chatVars(Acknowledge(i) /\ UNCHANGED roomVars)

RoomFairSpec == RoomSpec /\ RoomFairness

-----------------------------------------------------------------------------
(* Properties *)

\* Any two sessions hear the messages of a room that they both hear in the same
\* order, and no session hears a message twice (s = t, x = y): messages of
\* concurrent senders are ordered once, by the router and the room, and a full
\* queue only makes gaps.
SameOrderForAll ==
    \A s, t \in Sessions, r \in RoomIds, x, y \in Ids :
        ~(/\ Before(Sent(s), RoomMessage(r, x), RoomMessage(r, y))
          /\ Before(Sent(t), RoomMessage(r, y), RoomMessage(r, x)))

\* A message answered "Room not found" was heard by nobody and is not stored,
\* not even when the room is created right after.
NotFoundGoesNowhere ==
    \A i \in Ids : outcome[i] = "RoomNotFound" =>
        /\ i \notin store
        /\ \A s \in Sessions, r \in RoomIds : ~Contains(Sent(s), RoomMessage(r, i))

\* A member whose channel is open stays a member until a RemoveMember for the
\* user is handled: the cleanup evicts nobody who could still be served.
OpenMemberStays ==
    [][\A r \in RoomIds, u \in Users :
          LET s == members[r][u] IN
          s # None /\ members'[r][u] # s =>
              \/ Closed(s)
              \/ /\ roomInbox[r] # << >>
                 /\ Head(roomInbox[r]) = [type |-> "RemoveMember", user |-> u]
                 /\ roomInbox'[r] = Tail(roomInbox[r])
      ]_chatVars

\* A dead channel does not stay in a room, even if an aborted receive task
\* added it after its session had ended.
DeadMembersCleaned ==
    \A r \in RoomIds, u \in Users, s \in Sessions :
        members[r][u] = s /\ Closed(s) ~> members[r][u] # s

\* Adding a member is said to be a direct HashMap::insert, which would give the
\* room the user's newest channel.  Where handle_add_member says "User already
\* in room" instead, a connected user has a channel there that still reaches it.
AlreadyInRoomIsServed ==
    [][\A r \in RoomIds :
          roomInbox[r] # << >> /\ roomInbox'[r] = Tail(roomInbox[r])
          /\ Head(roomInbox[r]).type = "AddMember" =>
              LET m == Head(roomInbox[r])
                  entry == members[r][m.user]
              IN entry # None /\ ~Closed(m.sender) => ~Closed(entry)]_chatVars
=============================================================================
