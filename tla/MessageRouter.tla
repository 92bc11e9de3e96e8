--------------------------- MODULE MessageRouter ---------------------------
(***************************************************************************)
(* The registration half of PerOXO's message router and the life cycle of  *)
(* the WebSocket sessions that register with it.                           *)
(*                                                                         *)
(* The router is one task that owns `users` and `online_users` and takes   *)
(* its messages, one at a time, from an unbounded FIFO channel (`inbox`).  *)
(* Every accepted WebSocket is one session: it sends RegisterUser, awaits  *)
(* the oneshot reply, runs a send task and a receive task, and when either *)
(* of them completes it aborts the other one and sends UnregisterUser.     *)
(*                                                                         *)
(* UnregisterUser names the user only, not the session.  Nothing in the    *)
(* message itself stops it from removing the registration of a later       *)
(* connection of the same user; the module states why it never does.       *)
(*                                                                         *)
(* Abort is asynchronous: the aborted task may be in the middle of a poll  *)
(* on another worker thread, so it goes through "aborting" and is "done"   *)
(* only later.  Modules that extend this one let an aborting task act.     *)
(***************************************************************************)
EXTENDS Naturals, Sequences, FiniteSets

CONSTANTS
    Users,      \* TenantUserIds
    Sessions,   \* WebSocket connections, each used at most once
    Owner,      \* the user the connection's token was verified for
    None        \* no session

ASSUME OwnerAssumption == Owner \in [Sessions -> Users]
ASSUME NoneAssumption == None \notin Sessions

VARIABLES
    inbox,         \* the router's channel
    users,         \* MessageRouter.users: the sender a user is registered with
    online_users,  \* MessageRouter.online_users, as the multiplicity of each user
    phase,         \* where UserSession::new / UserSession::run is
    response,      \* the oneshot a session awaits in UserSession::new
    sendTask,      \* the two tasks run() spawns
    recvTask

vars == <<inbox, users, online_users, phase, response, sendTask, recvTask>>
sessionVars == <<phase, response, sendTask, recvTask>>

Phases == {"new", "registering", "running", "refused", "ended"}
Responses == {"pending", "Ok", "Err"}
TaskStates == {"none", "running", "aborting", "done"}

\* RegisterUser carries the session's channel sender, here the session itself.
RegisterUser(s) == [type |-> "RegisterUser", user |-> Owner[s], sender |-> s]
UnregisterUser(u) == [type |-> "UnregisterUser", user |-> u]

RegistryMessages ==
    {RegisterUser(s) : s \in Sessions} \cup {UnregisterUser(u) : u \in Users}

\* A task that was aborted still runs until the runtime drops it.
Alive == {"running", "aborting"}

Init ==
    /\ inbox = << >>
    /\ users = [u \in Users |-> None]
    /\ online_users = [u \in Users |-> 0]
    /\ phase = [s \in Sessions |-> "new"]
    /\ response = [s \in Sessions |-> "pending"]
    /\ sendTask = [s \in Sessions |-> "none"]
    /\ recvTask = [s \in Sessions |-> "none"]

-----------------------------------------------------------------------------
(* The session task *)

\* handle_connection calls UserSession::new, which sends RegisterUser.
Connect(s) ==
    /\ phase[s] = "new"
    /\ phase' = [phase EXCEPT ![s] = "registering"]
    /\ inbox' = Append(inbox, RegisterUser(s))
    /\ UNCHANGED <<users, online_users, response, sendTask, recvTask>>

\* The reply was Ok: new() returns the session and run() spawns both tasks.
Start(s) ==
    /\ phase[s] = "registering"
    /\ response[s] = "Ok"
    /\ phase' = [phase EXCEPT ![s] = "running"]
    /\ sendTask' = [sendTask EXCEPT ![s] = "running"]
    /\ recvTask' = [recvTask EXCEPT ![s] = "running"]
    /\ UNCHANGED <<inbox, users, online_users, response>>

\* Fault: the error path cleans up a registration that is not its own.
RefusedUnregisters(s) ==
    /\ phase[s] = "registering"
    /\ response[s] = "Err"
    /\ phase' = [phase EXCEPT ![s] = "refused"]
    /\ inbox' = Append(inbox, UnregisterUser(Owner[s]))
    /\ UNCHANGED <<users, online_users, response, sendTask, recvTask>>

\* The reply was Err: new() returns it and the socket is dropped.  Nothing is
\* sent to the router: the registration belongs to somebody else.
Refused(s) ==
    /\ phase[s] = "registering"
    /\ response[s] = "Err"
    /\ phase' = [phase EXCEPT ![s] = "refused"]
    /\ UNCHANGED <<inbox, users, online_users, response, sendTask, recvTask>>

\* The client closes, the stream fails or a frame is not text.
RecvTaskEnds(s) ==
    /\ recvTask[s] = "running"
    /\ recvTask' = [recvTask EXCEPT ![s] = "done"]
    /\ UNCHANGED <<inbox, users, online_users, phase, response, sendTask>>

\* A write to the socket fails, or every ack sender is gone.
SendTaskEnds(s) ==
    /\ sendTask[s] = "running"
    /\ sendTask' = [sendTask EXCEPT ![s] = "done"]
    /\ UNCHANGED <<inbox, users, online_users, phase, response, recvTask>>

AbortTask(task, s) ==
    IF task[s] = "running" THEN [task EXCEPT ![s] = "aborting"] ELSE task

\* Fault: only the branch of the receive task unregisters.
EndRunForgets(s) ==
    /\ phase[s] = "running"
    /\ "done" \in {sendTask[s], recvTask[s]}
    /\ sendTask' = AbortTask(sendTask, s)
    /\ recvTask' = AbortTask(recvTask, s)
    /\ inbox' = IF recvTask[s] = "done"
                THEN Append(inbox, UnregisterUser(Owner[s])) ELSE inbox
    /\ phase' = [phase EXCEPT ![s] = "ended"]
    /\ UNCHANGED <<users, online_users, response>>

\* The select! of run(): one task completed, abort the other one, unregister.
EndRun(s) ==
    /\ phase[s] = "running"
    /\ "done" \in {sendTask[s], recvTask[s]}
    /\ sendTask' = AbortTask(sendTask, s)
    /\ recvTask' = AbortTask(recvTask, s)
    /\ inbox' = Append(inbox, UnregisterUser(Owner[s]))
    /\ phase' = [phase EXCEPT ![s] = "ended"]
    /\ UNCHANGED <<users, online_users, response>>

\* The runtime drops an aborted task.
DropSendTask(s) ==
    /\ sendTask[s] = "aborting"
    /\ sendTask' = [sendTask EXCEPT ![s] = "done"]
    /\ UNCHANGED <<inbox, users, online_users, phase, response, recvTask>>

DropRecvTask(s) ==
    /\ recvTask[s] = "aborting"
    /\ recvTask' = [recvTask EXCEPT ![s] = "done"]
    /\ UNCHANGED <<inbox, users, online_users, phase, response, sendTask>>

-----------------------------------------------------------------------------
(* The router task *)

\* receiver.recv() returns the oldest message, and it has the given type.
Receive(type) ==
    /\ inbox # << >>
    /\ Head(inbox).type = type
    /\ inbox' = Tail(inbox)

Register(u, s) ==
    /\ users' = [users EXCEPT ![u] = s]
    /\ online_users' = [online_users EXCEPT ![u] = @ + 1]
    /\ response' = [response EXCEPT ![s] = "Ok"]

\* Fault: no check for an existing registration.
RegisterReplaces ==
    /\ Receive("RegisterUser")
    /\ Register(Head(inbox).user, Head(inbox).sender)
    /\ UNCHANGED <<phase, sendTask, recvTask>>

\* Fault: a second connection waits until the first one is gone.
RegisterDefers ==
    /\ inbox # << >>
    /\ Head(inbox).type = "RegisterUser"
    /\ LET u == Head(inbox).user
           s == Head(inbox).sender
       IN \/ /\ users[u] # None
             /\ inbox' = Append(Tail(inbox), Head(inbox))
             /\ UNCHANGED <<users, online_users, response>>
          \/ /\ users[u] = None
             /\ inbox' = Tail(inbox)
             /\ Register(u, s)
    /\ UNCHANGED <<phase, sendTask, recvTask>>

HandleRegisterUser ==
    /\ Receive("RegisterUser")
    /\ LET u == Head(inbox).user
           s == Head(inbox).sender
       IN \/ /\ users[u] # None
             /\ response' = [response EXCEPT ![s] = "Err"]
             /\ UNCHANGED <<users, online_users>>
          \/ /\ users[u] = None
             /\ Register(u, s)
    /\ UNCHANGED <<phase, sendTask, recvTask>>

\* Fault: online_users is not cleaned.
UnregisterKeepsOnline ==
    /\ Receive("UnregisterUser")
    /\ users' = [users EXCEPT ![Head(inbox).user] = None]
    /\ UNCHANGED <<online_users, sessionVars>>

\* Fault: only online_users is cleaned.
UnregisterKeepsSender ==
    /\ Receive("UnregisterUser")
    /\ online_users' = [online_users EXCEPT ![Head(inbox).user] = 0]
    /\ UNCHANGED <<users, sessionVars>>

\* online_users.retain runs only when users.remove found an entry.
HandleUnregisterUser ==
    /\ Receive("UnregisterUser")
    /\ LET u == Head(inbox).user
       IN /\ users' = [users EXCEPT ![u] = None]
          /\ online_users' = IF users[u] = None
                              THEN online_users
                              ELSE [online_users EXCEPT ![u] = 0]
    /\ UNCHANGED sessionVars

-----------------------------------------------------------------------------
SessionStep(s) ==
    \/ Connect(s) \/ Start(s) \/ Refused(s)
    \/ RecvTaskEnds(s) \/ SendTaskEnds(s) \/ EndRun(s)
    \/ DropSendTask(s) \/ DropRecvTask(s)

RouterStep == HandleRegisterUser \/ HandleUnregisterUser

Next == RouterStep \/ \E s \in Sessions : SessionStep(s)

Spec == Init /\ [][Next]_vars

\* The tasks are scheduled by the runtime; a client need not connect or leave.
Fairness ==
    /\ WF_vars(RouterStep)
    /\ \A s \in Sessions : WF_vars(Start(s) \/ Refused(s) \/ EndRun(s))

FairSpec == Spec /\ Fairness

-----------------------------------------------------------------------------
(* Properties *)

\* Type invariant of the router and the session life cycle.
TypeOK ==
    /\ inbox \in Seq(RegistryMessages)
    /\ users \in [Users -> Sessions \cup {None}]
    /\ online_users \in [Users -> Nat]
    /\ phase \in [Sessions -> Phases]
    /\ response \in [Sessions -> Responses]
    /\ sendTask \in [Sessions -> TaskStates]
    /\ recvTask \in [Sessions -> TaskStates]

Pending(m) == \E i \in 1..Len(inbox) : inbox[i] = m

\* The two fields the router keeps in step, users and online_users, agree
\* between any two messages: a user is listed once if registered, else never.
OnlineUsersAgree ==
    \A u \in Users : online_users[u] = IF users[u] = None THEN 0 ELSE 1

\* A running session is reachable: the registry holds its own channel, not
\* that of an earlier connection of the same user.  Hence a user never has two
\* running sessions, however many of its connections open and close at once.
RunningIsRegistered ==
    \A s \in Sessions : phase[s] = "running" => users[Owner[s]] = s

\* A registration never outlives its session unnoticed: when the session of a
\* registered user has ended, its UnregisterUser is still on the way.
NoLeakedRegistration ==
    \A u \in Users :
        users[u] # None /\ phase[users[u]] = "ended"
            => Pending(UnregisterUser(u))

\* handle_unregister_user removes by user id.  It still never takes away (and
\* handle_register_user never replaces) the registration of a session that
\* has not ended.
NoStaleUnregister ==
    [][\A u \in Users :
          users[u] # None /\ users'[u] # users[u]
              => phase[users[u]] = "ended"]_vars

\* Every connection gets a decision: UserSession::new does not wait forever.
EveryRegistrationDecided ==
    \A s \in Sessions :
        phase[s] = "registering" ~> phase[s] \in {"running", "refused", "ended"}

\* Every ended session leaves the registry, so its user can connect again.
EveryEndedSessionUnregistered ==
    \A s \in Sessions : phase[s] = "ended" ~> users[Owner[s]] # s

-----------------------------------------------------------------------------
(* The inductive invariant *)

\* A registered channel belongs to an admitted session of that user.
HolderWasAdmitted ==
    \A u \in Users : users[u] # None =>
        Owner[users[u]] = u /\ response[users[u]] = "Ok"

\* From the reply until the session ends, the registration is its own.
AdmittedHolds ==
    \A s \in Sessions :
        response[s] = "Ok" /\ phase[s] \in {"registering", "running"}
            => users[Owner[s]] = s

PhaseMatchesResponse ==
    \A s \in Sessions :
        /\ phase[s] = "new" => response[s] = "pending"
        /\ phase[s] \in {"running", "ended"} => response[s] = "Ok"

\* A RegisterUser on the way is unanswered; an UnregisterUser on the way finds
\* the registration of a session that ended; neither is on the way twice.
MessagesOnTheWay ==
    /\ \A i \in 1..Len(inbox) :
         /\ \A s \in Sessions : inbox[i] = RegisterUser(s) =>
                phase[s] = "registering" /\ response[s] = "pending"
         /\ \A u \in Users : inbox[i] = UnregisterUser(u) =>
                users[u] # None /\ phase[users[u]] = "ended"
    /\ \A i, j \in 1..Len(inbox) : inbox[i] = inbox[j] => i = j

\* Why an UnregisterUser, which names no session, never hits the wrong one.
RegistryInv ==
    /\ TypeOK
    /\ HolderWasAdmitted
    /\ AdmittedHolds
    /\ PhaseMatchesResponse
    /\ MessagesOnTheWay
    /\ NoLeakedRegistration
    /\ OnlineUsersAgree

-----------------------------------------------------------------------------
(* Refinement *)

\* What the abstract Presence specification sees of a connection.
StandingOf(s) ==
    IF response[s] = "Err" THEN "refused"
    ELSE IF response[s] = "pending" THEN "waiting"
    ELSE IF users[Owner[s]] = s THEN "present" ELSE "gone"

Abstract == INSTANCE Presence
    WITH holder <- users,
         standing <- [s \in Sessions |-> StandingOf(s)],
         over <- {s \in Sessions : phase[s] = "ended"}

\* The router's maps and messages implement Presence: a connection is admitted
\* only when nobody of the same user is present, refused only when somebody
\* is, and leaves once, after it is over.
ImplementsPresence == Abstract!Spec
=============================================================================
