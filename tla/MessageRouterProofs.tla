------------------------- MODULE MessageRouterProofs -------------------------
(***************************************************************************)
(* Proofs about MessageRouter, for any users, any connections and any      *)
(* assignment of connections to users.                                     *)
(***************************************************************************)
EXTENDS MessageRouter, SequenceTheorems, TLAPS

\* The two kinds of message differ, and each determines what it carries.
LEMMA MessageFacts ==
    /\ \A s \in Sessions : RegisterUser(s) \in RegistryMessages
    /\ \A u \in Users : UnregisterUser(u) \in RegistryMessages
    /\ \A s \in Sessions : /\ RegisterUser(s).type = "RegisterUser"
                           /\ RegisterUser(s).user = Owner[s]
                           /\ RegisterUser(s).sender = s
    /\ \A u \in Users : /\ UnregisterUser(u).type = "UnregisterUser"
                        /\ UnregisterUser(u).user = u
    /\ \A s, t \in Sessions : RegisterUser(s) = RegisterUser(t) => s = t
    /\ \A u, v \in Users : UnregisterUser(u) = UnregisterUser(v) => u = v
    /\ \A s \in Sessions, u \in Users : RegisterUser(s) # UnregisterUser(u)
BY DEF RegisterUser, UnregisterUser, RegistryMessages

\* What a handler learns from the type of the oldest message.
LEMMA HeadFacts ==
    ASSUME inbox \in Seq(RegistryMessages), inbox # << >>
    PROVE  /\ Head(inbox) = inbox[1]
           /\ 1 \in 1..Len(inbox)
           /\ Head(inbox).type = "RegisterUser" =>
                \E s \in Sessions : Head(inbox) = RegisterUser(s)
           /\ Head(inbox).type = "UnregisterUser" =>
                \E u \in Users : Head(inbox) = UnregisterUser(u)
<1>1. Head(inbox) = inbox[1] /\ Len(inbox) \in Nat /\ Len(inbox) # 0
      BY EmptySeq, LenProperties
<1>2. inbox[1] \in RegistryMessages
      BY <1>1, ElementOfSeq
<1> QED
      BY <1>1, <1>2, MessageFacts DEF RegistryMessages

\* Appending a message that is not on the way keeps the messages distinct and
\* only adds the new one.
LEMMA AppendFacts ==
    ASSUME inbox \in Seq(RegistryMessages), NEW m \in RegistryMessages,
           inbox' = Append(inbox, m)
    PROVE  /\ inbox' \in Seq(RegistryMessages)
           /\ Len(inbox') = Len(inbox) + 1 /\ Len(inbox) \in Nat
           /\ \A i \in 1..Len(inbox) : i \in 1..Len(inbox') /\ inbox'[i] = inbox[i]
           /\ Len(inbox') \in 1..Len(inbox') /\ inbox'[Len(inbox')] = m
           /\ \A i \in 1..Len(inbox') : i \in 1..Len(inbox) \/ i = Len(inbox')
<1>1. Len(inbox) \in Nat
      BY LenProperties
<1> QED
      BY <1>1, AppendProperties

\* Taking the oldest message shifts the others by one.
LEMMA TailFacts ==
    ASSUME inbox \in Seq(RegistryMessages), inbox # << >>,
           inbox' = Tail(inbox)
    PROVE  /\ inbox' \in Seq(RegistryMessages)
           /\ \A i \in 1..Len(inbox') : /\ i + 1 \in 1..Len(inbox)
                                        /\ i + 1 # 1
                                        /\ inbox'[i] = inbox[i + 1]
           /\ \A i \in 1..Len(inbox) : i # 1 =>
                i - 1 \in 1..Len(inbox') /\ inbox'[i - 1] = inbox[i]
<1>1. Len(inbox) \in Nat /\ Len(inbox) # 0
      BY LenProperties, EmptySeq
<1> QED
      BY <1>1, HeadTailProperties

-----------------------------------------------------------------------------
(* The inductive invariant *)

\* The invariant holds when MessageRouter::new has returned.
LEMMA InitRegistryInv ==
    Init => RegistryInv
BY OwnerAssumption, NoneAssumption, EmptySeq
   DEF Init, RegistryInv, TypeOK, HolderWasAdmitted, AdmittedHolds,
       PhaseMatchesResponse, MessagesOnTheWay, NoLeakedRegistration,
       OnlineUsersAgree, Phases, Responses, TaskStates

\* A step that leaves the channel, the registry and the replies alone, and
\* moves no session in or out of the phases the invariant speaks of.
LEMMA QuietStep ==
    ASSUME RegistryInv, TypeOK',
           UNCHANGED <<inbox, users, online_users, response, phase>>
    PROVE  RegistryInv'
BY DEF RegistryInv, HolderWasAdmitted, AdmittedHolds, PhaseMatchesResponse,
       MessagesOnTheWay, NoLeakedRegistration, OnlineUsersAgree, Pending

\* A new session has no RegisterUser on the way, so its own is the only one.
LEMMA ConnectStep ==
    ASSUME RegistryInv, NEW s \in Sessions, Connect(s)
    PROVE  RegistryInv'
<1> USE DEF RegistryInv
<1> DEFINE m == RegisterUser(s)
<1>1. /\ phase[s] = "new" /\ phase' = [phase EXCEPT ![s] = "registering"]
      /\ inbox' = Append(inbox, m)
      /\ UNCHANGED <<users, online_users, response, sendTask, recvTask>>
      BY DEF Connect
<1>2. m \in RegistryMessages
      BY MessageFacts
<1>3. /\ inbox \in Seq(RegistryMessages)
      /\ phase \in [Sessions -> Phases]
      /\ response \in [Sessions -> Responses]
      /\ users \in [Users -> Sessions \cup {None}]
      BY DEF TypeOK
<1> HIDE DEF m
<1>4. /\ inbox' \in Seq(RegistryMessages)
      /\ Len(inbox') = Len(inbox) + 1 /\ Len(inbox) \in Nat
      /\ \A i \in 1..Len(inbox) : i \in 1..Len(inbox') /\ inbox'[i] = inbox[i]
      /\ Len(inbox') \in 1..Len(inbox') /\ inbox'[Len(inbox')] = m
      /\ \A i \in 1..Len(inbox') : i \in 1..Len(inbox) \/ i = Len(inbox')
      BY <1>1, <1>2, <1>3, AppendFacts
<1>5. TypeOK'
      BY <1>1, <1>4 DEF TypeOK, Phases
<1>6. HolderWasAdmitted' /\ OnlineUsersAgree'
      BY <1>1 DEF HolderWasAdmitted, OnlineUsersAgree
<1>7. AdmittedHolds' /\ PhaseMatchesResponse'
      BY <1>1, <1>3 DEF AdmittedHolds, PhaseMatchesResponse
<1>8. \A i \in 1..Len(inbox) : inbox[i] # m
      BY <1>1 DEF MessagesOnTheWay, m
<1>9. MessagesOnTheWay'
  <2>1. ASSUME NEW i \in 1..Len(inbox'), NEW t \in Sessions,
               inbox'[i] = RegisterUser(t)
        PROVE  phase'[t] = "registering" /\ response'[t] = "pending"
    <3>1. CASE i \in 1..Len(inbox)
          BY <2>1, <3>1, <1>1, <1>3, <1>4 DEF MessagesOnTheWay
    <3>2. CASE i = Len(inbox')
      <4>1. t = s
            BY <2>1, <3>2, <1>4, MessageFacts DEF m
      <4> QED  BY <4>1, <1>1, <1>3 DEF PhaseMatchesResponse
    <3> QED  BY <3>1, <3>2, <1>4
  <2>2. ASSUME NEW i \in 1..Len(inbox'), NEW u \in Users,
               inbox'[i] = UnregisterUser(u)
        PROVE  users'[u] # None /\ phase'[users'[u]] = "ended"
    <3>1. inbox'[i] # m
          BY <2>2, MessageFacts DEF m
    <3>2. i \in 1..Len(inbox) /\ inbox[i] = UnregisterUser(u)
          BY <3>1, <2>2, <1>4
    <3> QED  BY <3>2, <1>1, <1>3 DEF MessagesOnTheWay
  <2>3. ASSUME NEW i \in 1..Len(inbox'), NEW j \in 1..Len(inbox'),
               inbox'[i] = inbox'[j]
        PROVE  i = j
        BY <2>3, <1>4, <1>8 DEF MessagesOnTheWay
  <2> QED  BY <2>1, <2>2, <2>3 DEF MessagesOnTheWay
<1>10. NoLeakedRegistration'
  <2> SUFFICES ASSUME NEW u \in Users, users'[u] # None,
                      phase'[users'[u]] = "ended"
               PROVE  Pending(UnregisterUser(u))'
      BY DEF NoLeakedRegistration
  <2>1. users[u] # None /\ phase[users[u]] = "ended"
        BY <1>1, <1>3
  <2>2. PICK i \in 1..Len(inbox) : inbox[i] = UnregisterUser(u)
        BY <2>1 DEF NoLeakedRegistration, Pending
  <2> QED  BY <2>2, <1>4 DEF Pending, UnregisterUser
<1> QED  BY <1>5, <1>6, <1>7, <1>9, <1>10

\* UserSession::new returns on Ok: the session runs with the place it was given.
LEMMA StartStep ==
    ASSUME RegistryInv, NEW s \in Sessions, Start(s) \/ Refused(s)
    PROVE  RegistryInv'
<1> USE DEF RegistryInv
<1>1. /\ phase[s] = "registering" /\ response[s] \in {"Ok", "Err"}
      /\ phase' = [phase EXCEPT ![s] = IF response[s] = "Ok"
                                       THEN "running" ELSE "refused"]
      /\ UNCHANGED <<inbox, users, online_users, response>>
      BY DEF Start, Refused
<1>2. /\ phase \in [Sessions -> Phases]
      /\ users \in [Users -> Sessions \cup {None}]
      BY DEF TypeOK
<1>3. TypeOK'
      BY DEF TypeOK, Start, Refused, Phases, TaskStates
<1>4. /\ HolderWasAdmitted' /\ OnlineUsersAgree'
      /\ AdmittedHolds' /\ PhaseMatchesResponse'
      BY <1>1, <1>2 DEF HolderWasAdmitted, OnlineUsersAgree, AdmittedHolds,
                        PhaseMatchesResponse
<1>5. MessagesOnTheWay'
      BY <1>1, <1>2, OwnerAssumption DEF MessagesOnTheWay, AdmittedHolds
<1>6. NoLeakedRegistration'
      BY <1>1, <1>2 DEF NoLeakedRegistration, Pending
<1> QED  BY <1>3, <1>4, <1>5, <1>6

\* The session that ends holds its user's registration, so no UnregisterUser
\* of that user is on the way yet, and the one it sends will find it there.
LEMMA EndRunStep ==
    ASSUME RegistryInv, NEW s \in Sessions, EndRun(s)
    PROVE  RegistryInv'
<1> USE DEF RegistryInv
<1> DEFINE m == UnregisterUser(Owner[s])
<1>1. /\ phase[s] = "running" /\ phase' = [phase EXCEPT ![s] = "ended"]
      /\ inbox' = Append(inbox, m)
      /\ UNCHANGED <<users, online_users, response>>
      BY DEF EndRun
<1>2. Owner[s] \in Users /\ m \in RegistryMessages
      BY MessageFacts, OwnerAssumption
<1>3. /\ inbox \in Seq(RegistryMessages)
      /\ phase \in [Sessions -> Phases]
      /\ response \in [Sessions -> Responses]
      /\ users \in [Users -> Sessions \cup {None}]
      BY DEF TypeOK
<1>4. response[s] = "Ok" /\ users[Owner[s]] = s
      BY <1>1 DEF PhaseMatchesResponse, AdmittedHolds
<1> HIDE DEF m
<1>5. /\ inbox' \in Seq(RegistryMessages)
      /\ Len(inbox') = Len(inbox) + 1 /\ Len(inbox) \in Nat
      /\ \A i \in 1..Len(inbox) : i \in 1..Len(inbox') /\ inbox'[i] = inbox[i]
      /\ Len(inbox') \in 1..Len(inbox') /\ inbox'[Len(inbox')] = m
      /\ \A i \in 1..Len(inbox') : i \in 1..Len(inbox) \/ i = Len(inbox')
      BY <1>1, <1>2, <1>3, AppendFacts
<1>6. TypeOK'
      BY <1>1, <1>5 DEF TypeOK, EndRun, AbortTask, Phases, TaskStates
<1>7. /\ HolderWasAdmitted' /\ OnlineUsersAgree'
      /\ AdmittedHolds' /\ PhaseMatchesResponse'
      BY <1>1, <1>3, <1>4 DEF HolderWasAdmitted, OnlineUsersAgree,
                              AdmittedHolds, PhaseMatchesResponse
<1>8. \A i \in 1..Len(inbox) : inbox[i] # m
      BY <1>1, <1>2, <1>4 DEF MessagesOnTheWay, m
<1>9. MessagesOnTheWay'
  <2>1. ASSUME NEW i \in 1..Len(inbox'), NEW t \in Sessions,
               inbox'[i] = RegisterUser(t)
        PROVE  phase'[t] = "registering" /\ response'[t] = "pending"
    <3>1. inbox'[i] # m
          BY <2>1, <1>2, MessageFacts DEF m
    <3>2. i \in 1..Len(inbox) /\ inbox[i] = RegisterUser(t)
          BY <3>1, <2>1, <1>5
    <3> QED  BY <3>2, <1>1, <1>3 DEF MessagesOnTheWay
  <2>2. ASSUME NEW i \in 1..Len(inbox'), NEW u \in Users,
               inbox'[i] = UnregisterUser(u)
        PROVE  users'[u] # None /\ phase'[users'[u]] = "ended"
    <3>1. CASE i \in 1..Len(inbox)
          BY <2>2, <3>1, <1>1, <1>3, <1>5 DEF MessagesOnTheWay
    <3>2. CASE i = Len(inbox')
      <4>1. u = Owner[s]
            BY <2>2, <3>2, <1>2, <1>5, MessageFacts DEF m
      <4> QED  BY <4>1, <1>1, <1>3, <1>4, NoneAssumption
    <3> QED  BY <3>1, <3>2, <1>5
  <2>3. ASSUME NEW i \in 1..Len(inbox'), NEW j \in 1..Len(inbox'),
               inbox'[i] = inbox'[j]
        PROVE  i = j
        BY <2>3, <1>5, <1>8 DEF MessagesOnTheWay
  <2> QED  BY <2>1, <2>2, <2>3 DEF MessagesOnTheWay
<1>10. NoLeakedRegistration'
  <2> SUFFICES ASSUME NEW u \in Users, users'[u] # None,
                      phase'[users'[u]] = "ended"
               PROVE  \E i \in 1..Len(inbox') : inbox'[i] = UnregisterUser(u)
      BY DEF NoLeakedRegistration, Pending, UnregisterUser
  <2>1. CASE users[u] = s
    <3>1. u = Owner[s]
          BY <2>1, <1>1 DEF HolderWasAdmitted
    <3> QED  BY <3>1, <1>5 DEF m
  <2>2. CASE users[u] # s
    <3>1. users[u] # None /\ phase[users[u]] = "ended"
          BY <2>2, <1>1, <1>3
    <3>2. PICK i \in 1..Len(inbox) : inbox[i] = UnregisterUser(u)
          BY <3>1 DEF NoLeakedRegistration, Pending
    <3> QED  BY <3>2, <1>5
  <2> QED  BY <2>1, <2>2
<1> QED  BY <1>6, <1>7, <1>9, <1>10

\* A new registration finds the place empty, so no UnregisterUser that could
\* take it away is on the way.
LEMMA RegisterStep ==
    ASSUME RegistryInv, HandleRegisterUser
    PROVE  RegistryInv'
<1> USE DEF RegistryInv
<1>1. /\ inbox # << >> /\ Head(inbox).type = "RegisterUser"
      /\ inbox' = Tail(inbox) /\ UNCHANGED <<phase, sendTask, recvTask>>
      BY DEF HandleRegisterUser, Receive
<1>2. /\ inbox \in Seq(RegistryMessages)
      /\ response \in [Sessions -> Responses]
      /\ users \in [Users -> Sessions \cup {None}]
      /\ online_users \in [Users -> Nat]
      BY DEF TypeOK
<1>3. PICK s \in Sessions : inbox[1] = RegisterUser(s) /\ Head(inbox) = inbox[1]
      BY <1>1, <1>2, HeadFacts
<1>4. /\ Head(inbox).user = Owner[s] /\ Head(inbox).sender = s
      /\ Owner[s] \in Users /\ 1 \in 1..Len(inbox)
      BY <1>1, <1>2, <1>3, MessageFacts, HeadFacts, OwnerAssumption
<1>5. phase[s] = "registering" /\ response[s] = "pending"
      BY <1>3, <1>4 DEF MessagesOnTheWay
<1>6. /\ inbox' \in Seq(RegistryMessages)
      /\ \A i \in 1..Len(inbox') : /\ i + 1 \in 1..Len(inbox)
                                   /\ i + 1 # 1
                                   /\ inbox'[i] = inbox[i + 1]
      /\ \A i \in 1..Len(inbox) : i # 1 =>
            i - 1 \in 1..Len(inbox') /\ inbox'[i - 1] = inbox[i]
      BY <1>1, <1>2, TailFacts
<1>7. \A i \in 1..Len(inbox') : inbox'[i] # RegisterUser(s)
      BY <1>3, <1>4, <1>6 DEF MessagesOnTheWay
<1>8. \A i, j \in 1..Len(inbox') : inbox'[i] = inbox'[j] => i = j
  <2> SUFFICES ASSUME NEW i \in 1..Len(inbox'), NEW j \in 1..Len(inbox'),
                      inbox'[i] = inbox'[j]
               PROVE  i = j
      OBVIOUS
  <2>1. i + 1 = j + 1
        BY <1>6 DEF MessagesOnTheWay
  <2> QED  BY <2>1
<1>9. ASSUME NEW u \in Users, \E i \in 1..Len(inbox) : inbox[i] = UnregisterUser(u)
      PROVE  \E i \in 1..Len(inbox') : inbox'[i] = UnregisterUser(u)
  <2>1. PICK i \in 1..Len(inbox) : inbox[i] = UnregisterUser(u)
        BY <1>9
  <2>2. i # 1
        BY <2>1, <1>3, MessageFacts
  <2> QED  BY <2>1, <2>2, <1>6
<1>10. CASE users[Owner[s]] # None
  <2>1. /\ UNCHANGED <<users, online_users>>
        /\ response' = [response EXCEPT ![s] = "Err"]
        BY <1>4, <1>10 DEF HandleRegisterUser
  <2>2. TypeOK'
        BY <1>1, <1>2, <1>6, <2>1 DEF TypeOK, Responses
  <2>3. /\ HolderWasAdmitted' /\ OnlineUsersAgree'
        /\ AdmittedHolds' /\ PhaseMatchesResponse'
        BY <1>1, <1>2, <1>5, <2>1 DEF HolderWasAdmitted, OnlineUsersAgree,
                                      AdmittedHolds, PhaseMatchesResponse
  <2>4. MessagesOnTheWay'
        BY <1>1, <1>2, <1>6, <1>7, <1>8, <2>1 DEF MessagesOnTheWay
  <2>5. NoLeakedRegistration'
        BY <1>1, <1>9, <2>1 DEF NoLeakedRegistration, Pending
  <2> QED  BY <2>2, <2>3, <2>4, <2>5
<1>11. CASE users[Owner[s]] = None
  <2>1. /\ users' = [users EXCEPT ![Owner[s]] = s]
        /\ online_users' = [online_users EXCEPT ![Owner[s]] = @ + 1]
        /\ response' = [response EXCEPT ![s] = "Ok"]
        BY <1>4, <1>11 DEF HandleRegisterUser, Register
  <2>2. TypeOK'
        BY <1>1, <1>2, <1>4, <1>6, <2>1 DEF TypeOK, Responses
  <2>3. HolderWasAdmitted' /\ OnlineUsersAgree'
        BY <1>2, <1>4, <1>5, <1>11, <2>1, NoneAssumption
           DEF HolderWasAdmitted, OnlineUsersAgree
  <2>4. AdmittedHolds'
        BY <1>1, <1>2, <1>4, <1>11, <2>1, NoneAssumption, OwnerAssumption
           DEF AdmittedHolds
  <2>5. PhaseMatchesResponse'
        BY <1>1, <1>2, <1>5, <2>1 DEF PhaseMatchesResponse
  <2>6. MessagesOnTheWay'
    <3>1. ASSUME NEW i \in 1..Len(inbox'), NEW t \in Sessions,
                 inbox'[i] = RegisterUser(t)
          PROVE  phase'[t] = "registering" /\ response'[t] = "pending"
          BY <3>1, <1>1, <1>2, <1>6, <1>7, <2>1 DEF MessagesOnTheWay
    <3>2. ASSUME NEW i \in 1..Len(inbox'), NEW u \in Users,
                 inbox'[i] = UnregisterUser(u)
          PROVE  users'[u] # None /\ phase'[users'[u]] = "ended"
      <4>1. users[u] # None /\ phase[users[u]] = "ended"
            BY <3>2, <1>6 DEF MessagesOnTheWay
      <4> QED  BY <4>1, <1>1, <1>2, <1>11, <2>1
    <3> QED  BY <3>1, <3>2, <1>8 DEF MessagesOnTheWay
  <2>7. NoLeakedRegistration'
    <3> SUFFICES ASSUME NEW u \in Users, users'[u] # None,
                        phase'[users'[u]] = "ended"
                 PROVE  \E i \in 1..Len(inbox') : inbox'[i] = UnregisterUser(u)
        BY DEF NoLeakedRegistration, Pending, UnregisterUser
    <3>1. users[u] # None /\ phase[users[u]] = "ended"
          BY <1>1, <1>2, <1>4, <1>5, <2>1
    <3> QED  BY <3>1, <1>9 DEF NoLeakedRegistration, Pending
  <2> QED  BY <2>2, <2>3, <2>4, <2>5, <2>6, <2>7
<1> QED  BY <1>10, <1>11

\* The registration that is removed is that of the session that ended.
LEMMA UnregisterStep ==
    ASSUME RegistryInv, HandleUnregisterUser
    PROVE  RegistryInv'
<1> USE DEF RegistryInv
<1>1. /\ inbox # << >> /\ Head(inbox).type = "UnregisterUser"
      /\ inbox' = Tail(inbox) /\ UNCHANGED <<phase, response, sendTask, recvTask>>
      BY DEF HandleUnregisterUser, Receive, sessionVars
<1>2. /\ inbox \in Seq(RegistryMessages)
      /\ users \in [Users -> Sessions \cup {None}]
      /\ online_users \in [Users -> Nat]
      BY DEF TypeOK
<1>3. PICK u \in Users : inbox[1] = UnregisterUser(u) /\ Head(inbox) = inbox[1]
      BY <1>1, <1>2, HeadFacts
<1>4. Head(inbox).user = u /\ 1 \in 1..Len(inbox)
      BY <1>1, <1>2, <1>3, MessageFacts, HeadFacts
<1>5. users[u] # None /\ phase[users[u]] = "ended"
      BY <1>3, <1>4 DEF MessagesOnTheWay
<1>6. /\ users' = [users EXCEPT ![u] = None]
      /\ online_users' = [online_users EXCEPT ![u] = 0]
      BY <1>4, <1>5 DEF HandleUnregisterUser
<1>7. /\ inbox' \in Seq(RegistryMessages)
      /\ \A i \in 1..Len(inbox') : /\ i + 1 \in 1..Len(inbox)
                                   /\ i + 1 # 1
                                   /\ inbox'[i] = inbox[i + 1]
      /\ \A i \in 1..Len(inbox) : i # 1 =>
            i - 1 \in 1..Len(inbox') /\ inbox'[i - 1] = inbox[i]
      BY <1>1, <1>2, TailFacts
<1>8. TypeOK'
      BY <1>1, <1>2, <1>6, <1>7 DEF TypeOK
<1>9. HolderWasAdmitted' /\ OnlineUsersAgree' /\ PhaseMatchesResponse'
      BY <1>1, <1>2, <1>6 DEF HolderWasAdmitted, OnlineUsersAgree,
                              PhaseMatchesResponse
<1>10. AdmittedHolds'
      BY <1>1, <1>2, <1>5, <1>6, OwnerAssumption DEF AdmittedHolds
<1>11. MessagesOnTheWay'
  <2>1. ASSUME NEW i \in 1..Len(inbox'), NEW t \in Sessions,
               inbox'[i] = RegisterUser(t)
        PROVE  phase'[t] = "registering" /\ response'[t] = "pending"
        BY <2>1, <1>1, <1>7 DEF MessagesOnTheWay
  <2>2. ASSUME NEW i \in 1..Len(inbox'), NEW v \in Users,
               inbox'[i] = UnregisterUser(v)
        PROVE  users'[v] # None /\ phase'[users'[v]] = "ended"
    <3>1. v # u
          BY <2>2, <1>3, <1>4, <1>7 DEF MessagesOnTheWay
    <3>2. users[v] # None /\ phase[users[v]] = "ended"
          BY <2>2, <1>7 DEF MessagesOnTheWay
    <3> QED  BY <3>1, <3>2, <1>1, <1>2, <1>6
  <2>3. ASSUME NEW i \in 1..Len(inbox'), NEW j \in 1..Len(inbox'),
               inbox'[i] = inbox'[j]
        PROVE  i = j
    <3>1. i + 1 = j + 1
          BY <2>3, <1>7 DEF MessagesOnTheWay
    <3> QED  BY <3>1
  <2> QED  BY <2>1, <2>2, <2>3 DEF MessagesOnTheWay
<1>12. NoLeakedRegistration'
  <2> SUFFICES ASSUME NEW v \in Users, users'[v] # None,
                      phase'[users'[v]] = "ended"
               PROVE  \E i \in 1..Len(inbox') : inbox'[i] = UnregisterUser(v)
      BY DEF NoLeakedRegistration, Pending, UnregisterUser
  <2>1. v # u /\ users[v] # None /\ phase[users[v]] = "ended"
        BY <1>1, <1>2, <1>6
  <2>2. PICK i \in 1..Len(inbox) : inbox[i] = UnregisterUser(v)
        BY <2>1 DEF NoLeakedRegistration, Pending
  <2>3. i # 1
        BY <2>1, <2>2, <1>3, MessageFacts
  <2> QED  BY <2>2, <2>3, <1>7
<1> QED  BY <1>8, <1>9, <1>10, <1>11, <1>12

\* Every step of a session or of the router preserves the invariant.
LEMMA NextRegistryInv ==
    ASSUME RegistryInv, [Next]_vars
    PROVE  RegistryInv'
<1>1. ASSUME NEW s \in Sessions, SessionStep(s)
      PROVE  RegistryInv'
  <2>1. CASE Connect(s)
        BY <2>1, ConnectStep
  <2>2. CASE Start(s) \/ Refused(s)
        BY <2>2, StartStep
  <2>3. CASE RecvTaskEnds(s) \/ SendTaskEnds(s) \/ DropSendTask(s) \/ DropRecvTask(s)
    <3>1. UNCHANGED <<inbox, users, online_users, response, phase>>
          BY <2>3 DEF RecvTaskEnds, SendTaskEnds, DropSendTask, DropRecvTask
    <3>2. TypeOK'
          BY <2>3, <3>1 DEF RegistryInv, TypeOK, TaskStates, RecvTaskEnds,
                            SendTaskEnds, DropSendTask, DropRecvTask
    <3> QED  BY <3>1, <3>2, QuietStep
  <2>4. CASE EndRun(s)
        BY <2>4, EndRunStep
  <2> QED  BY <1>1, <2>1, <2>2, <2>3, <2>4 DEF SessionStep
<1>2. CASE RouterStep
      BY <1>2, RegisterStep, UnregisterStep DEF RouterStep
<1>3. CASE UNCHANGED vars
  <2>1. TypeOK'
        BY <1>3 DEF RegistryInv, TypeOK, vars
  <2> QED  BY <1>3, <2>1, QuietStep DEF vars
<1> QED  BY <1>1, <1>2, <1>3 DEF Next

-----------------------------------------------------------------------------
(* Theorems *)

\* The strengthened invariant holds in every reachable state.
THEOREM RegistryCorrect == Spec => []RegistryInv
<1>1. Init => RegistryInv
      BY InitRegistryInv
<1>2. RegistryInv /\ [Next]_vars => RegistryInv'
      BY NextRegistryInv
<1> QED  BY <1>1, <1>2, PTL DEF Spec

\* Type correctness of the router's and the sessions' state.
THEOREM TypeCorrect == Spec => []TypeOK
<1>1. RegistryInv => TypeOK
      BY DEF RegistryInv
<1> QED  BY <1>1, RegistryCorrect, PTL

\* users and online_users, written by two statements of each handler, agree.
THEOREM OnlineUsersCorrect == Spec => []OnlineUsersAgree
<1>1. RegistryInv => OnlineUsersAgree
      BY DEF RegistryInv
<1> QED  BY <1>1, RegistryCorrect, PTL

\* A session past UserSession::new is the one its user is registered with.
THEOREM RunningRegistered == Spec => []RunningIsRegistered
<1>1. RegistryInv => RunningIsRegistered
      BY DEF RegistryInv, AdmittedHolds, PhaseMatchesResponse, RunningIsRegistered
<1> QED  BY <1>1, RegistryCorrect, PTL

\* No registration outlives its session without an UnregisterUser on the way.
THEOREM NoLeak == Spec => []NoLeakedRegistration
<1>1. RegistryInv => NoLeakedRegistration
      BY DEF RegistryInv
<1> QED  BY <1>1, RegistryCorrect, PTL

\* An UnregisterUser, which names a user and no session, only ever removes the
\* registration of a session that has ended; a registration is never replaced.
THEOREM UnregisterIsNeverStale == Spec => NoStaleUnregister
<1> DEFINE Act == \A u \in Users :
                    users[u] # None /\ users'[u] # users[u]
                        => phase[users[u]] = "ended"
<1>1. RegistryInv /\ [Next]_vars => [Act]_vars
  <2> SUFFICES ASSUME RegistryInv, Next, NEW u \in Users,
                      users[u] # None, users'[u] # users[u]
               PROVE  phase[users[u]] = "ended"
      OBVIOUS
  <2>1. /\ inbox \in Seq(RegistryMessages)
        /\ users \in [Users -> Sessions \cup {None}]
        BY DEF RegistryInv, TypeOK
  <2>2. CASE HandleRegisterUser
    <3>1. PICK s \in Sessions : Head(inbox) = RegisterUser(s)
          BY <2>1, <2>2, HeadFacts DEF HandleRegisterUser, Receive
    <3>2. Head(inbox).user = Owner[s]
          BY <3>1, MessageFacts
    <3>3. users' = users \/ (users[Owner[s]] = None /\ users' = [users EXCEPT ![Owner[s]] = Head(inbox).sender])
          BY <2>2, <3>2 DEF HandleRegisterUser, Register
    <3> QED  BY <3>3, <2>1
  <2>3. CASE HandleUnregisterUser
    <3>1. PICK v \in Users : Head(inbox) = UnregisterUser(v) /\ Head(inbox) = inbox[1]
                            /\ 1 \in 1..Len(inbox)
          BY <2>1, <2>3, HeadFacts DEF HandleUnregisterUser, Receive
    <3>2. users' = [users EXCEPT ![v] = None]
          BY <2>3, <3>1, MessageFacts DEF HandleUnregisterUser
    <3>3. u = v
          BY <3>2, <2>1
    <3> QED  BY <3>1, <3>3 DEF RegistryInv, MessagesOnTheWay
  <2>4. ASSUME NEW s \in Sessions, SessionStep(s)
        PROVE  users' = users
        BY <2>4 DEF SessionStep, Connect, Start, Refused, RecvTaskEnds,
                    SendTaskEnds, EndRun, DropSendTask, DropRecvTask
  <2> QED  BY <2>2, <2>3, <2>4 DEF Next, RouterStep
<1> QED  BY <1>1, RegistryCorrect, PTL DEF Spec, NoStaleUnregister

-----------------------------------------------------------------------------
(* Refinement of Presence *)

\* Initial states map to initial states of Presence.
LEMMA InitRefines == Init => Abstract!Init
BY OwnerAssumption DEF Init, Abstract!Init, StandingOf

\* A step that changes nobody's standing and ends nobody is a stutter.
LEMMA StutterRefines ==
    ASSUME UNCHANGED <<users, response>>,
           {s \in Sessions : phase'[s] = "ended"} = {s \in Sessions : phase[s] = "ended"}
    PROVE  UNCHANGED Abstract!vars
BY DEF Abstract!vars, StandingOf

\* The end of UserSession::run is Presence's End: the session still holds its
\* place, and is over from now on.
LEMMA EndRunRefines ==
    ASSUME RegistryInv, NEW s \in Sessions, EndRun(s)
    PROVE  Abstract!End(s)
<1>1. /\ phase[s] = "running" /\ phase' = [phase EXCEPT ![s] = "ended"]
      /\ UNCHANGED <<users, response>>
      BY DEF EndRun
<1>2. phase \in [Sessions -> Phases]
      BY DEF RegistryInv, TypeOK
<1>3. response[s] = "Ok" /\ users[Owner[s]] = s
      BY <1>1 DEF RegistryInv, PhaseMatchesResponse, AdmittedHolds
<1>4. StandingOf(s) = "present"
      BY <1>3 DEF StandingOf
<1>5. {t \in Sessions : phase'[t] = "ended"}
        = {t \in Sessions : phase[t] = "ended"} \cup {s}
      BY <1>1, <1>2
<1>6. \A t \in Sessions : StandingOf(t)' = StandingOf(t)
      BY <1>1 DEF StandingOf
<1> QED  BY <1>1, <1>4, <1>5, <1>6 DEF Abstract!End

\* handle_register_user admits when the place is free and refuses when it is
\* not, and touches no other connection.
LEMMA RegisterRefines ==
    ASSUME RegistryInv, HandleRegisterUser
    PROVE  \E s \in Sessions : Abstract!Admit(s) \/ Abstract!Refuse(s)
<1>1. /\ inbox \in Seq(RegistryMessages) /\ inbox # << >>
      /\ response \in [Sessions -> Responses]
      /\ users \in [Users -> Sessions \cup {None}]
      /\ phase' = phase
      BY DEF RegistryInv, TypeOK, HandleRegisterUser, Receive
<1>2. PICK s \in Sessions : Head(inbox) = RegisterUser(s) /\ Head(inbox) = inbox[1]
                           /\ 1 \in 1..Len(inbox)
      BY <1>1, HeadFacts DEF HandleRegisterUser, Receive
<1>3. Head(inbox).user = Owner[s] /\ Head(inbox).sender = s /\ Owner[s] \in Users
      BY <1>2, MessageFacts, OwnerAssumption
<1>4. response[s] = "pending"
      BY <1>2 DEF RegistryInv, MessagesOnTheWay
<1>5. StandingOf(s) = "waiting"
      BY <1>4 DEF StandingOf
<1>6. CASE users[Owner[s]] # None
  <2>1. users' = users /\ response' = [response EXCEPT ![s] = "Err"]
        BY <1>3, <1>6 DEF HandleRegisterUser
  <2>2. StandingOf(s)' = "refused"
        BY <1>1, <2>1 DEF StandingOf
  <2>3. \A t \in Sessions : t # s => StandingOf(t)' = StandingOf(t)
        BY <1>1, <2>1 DEF StandingOf
  <2> QED  BY <1>1, <1>5, <1>6, <2>1, <2>2, <2>3 DEF Abstract!Refuse
<1>7. CASE users[Owner[s]] = None
  <2>1. /\ users' = [users EXCEPT ![Owner[s]] = s]
        /\ response' = [response EXCEPT ![s] = "Ok"]
        BY <1>3, <1>7 DEF HandleRegisterUser, Register
  <2>2. StandingOf(s)' = "present"
        BY <1>1, <1>3, <2>1 DEF StandingOf
  <2>3. ASSUME NEW t \in Sessions, t # s
        PROVE  StandingOf(t)' = StandingOf(t)
    <3>1. response'[t] = response[t]
          BY <2>1, <2>3, <1>1
    <3>2. users'[Owner[t]] = t <=> users[Owner[t]] = t
          BY <2>1, <2>3, <1>1, <1>3, <1>7, NoneAssumption, OwnerAssumption
    <3> QED  BY <3>1, <3>2 DEF StandingOf
  <2> QED  BY <1>1, <1>5, <1>7, <2>1, <2>2, <2>3 DEF Abstract!Admit
<1> QED  BY <1>6, <1>7

\* handle_unregister_user is Leave of the session that ended and held the place.
LEMMA UnregisterRefines ==
    ASSUME RegistryInv, HandleUnregisterUser
    PROVE  \E s \in Sessions : Abstract!Leave(s)
<1>1. /\ inbox \in Seq(RegistryMessages) /\ inbox # << >>
      /\ users \in [Users -> Sessions \cup {None}]
      /\ UNCHANGED <<phase, response>>
      BY DEF RegistryInv, TypeOK, HandleUnregisterUser, Receive, sessionVars
<1>2. PICK u \in Users : Head(inbox) = UnregisterUser(u) /\ Head(inbox) = inbox[1]
                        /\ 1 \in 1..Len(inbox)
      BY <1>1, HeadFacts DEF HandleUnregisterUser, Receive
<1>3. users' = [users EXCEPT ![u] = None]
      BY <1>2, MessageFacts DEF HandleUnregisterUser
<1>4. users[u] # None /\ phase[users[u]] = "ended"
      BY <1>2 DEF RegistryInv, MessagesOnTheWay
<1>5. PICK s \in Sessions : s = users[u]
      BY <1>1, <1>4
<1>6. Owner[s] = u /\ response[s] = "Ok"
      BY <1>4, <1>5 DEF RegistryInv, HolderWasAdmitted
<1>7. StandingOf(s) = "present" /\ StandingOf(s)' = "gone"
      BY <1>1, <1>3, <1>5, <1>6, NoneAssumption DEF StandingOf
<1>8. ASSUME NEW t \in Sessions, t # s
      PROVE  StandingOf(t)' = StandingOf(t)
  <2>1. users'[Owner[t]] = t <=> users[Owner[t]] = t
        BY <1>8, <1>1, <1>3, <1>5, NoneAssumption, OwnerAssumption
  <2> QED  BY <2>1, <1>1 DEF StandingOf
<1> QED  BY <1>1, <1>3, <1>4, <1>5, <1>6, <1>7, <1>8 DEF Abstract!Leave

\* Every step of the router maps to a step of Presence or to a stutter.
LEMMA NextRefines ==
    ASSUME RegistryInv, [Next]_vars
    PROVE  [Abstract!Next]_(Abstract!vars)
<1>1. CASE HandleRegisterUser
      BY <1>1, RegisterRefines DEF Abstract!Next
<1>2. CASE HandleUnregisterUser
      BY <1>2, UnregisterRefines DEF Abstract!Next
<1>3. ASSUME NEW s \in Sessions, SessionStep(s)
      PROVE  [Abstract!Next]_(Abstract!vars)
  <2>1. CASE EndRun(s)
        BY <2>1, EndRunRefines DEF Abstract!Next
  <2>2. CASE ~EndRun(s)
    <3>1. phase \in [Sessions -> Phases]
          BY DEF RegistryInv, TypeOK
    <3>2. /\ UNCHANGED <<users, response>>
          /\ \/ phase' = phase
             \/ /\ phase[s] \in {"new", "registering"}
                /\ \/ phase' = [phase EXCEPT ![s] = "registering"]
                   \/ phase' = [phase EXCEPT ![s] = "running"]
                   \/ phase' = [phase EXCEPT ![s] = "refused"]
          BY <1>3, <2>2 DEF SessionStep, Connect, Start, Refused, RecvTaskEnds,
                            SendTaskEnds, DropSendTask, DropRecvTask
    <3>3. \A t \in Sessions : phase'[t] = "ended" <=> phase[t] = "ended"
          BY <3>1, <3>2
    <3> QED  BY <3>2, <3>3, StutterRefines
  <2> QED  BY <2>1, <2>2
<1>4. CASE UNCHANGED vars
      BY <1>4, StutterRefines DEF vars
<1> QED  BY <1>1, <1>2, <1>3, <1>4 DEF Next, RouterStep

\* The router implements the abstract presence specification.
THEOREM RouterImplementsPresence == Spec => ImplementsPresence
<1>1. Init => Abstract!Init
      BY InitRefines
<1>2. RegistryInv /\ [Next]_vars => [Abstract!Next]_(Abstract!vars)
      BY NextRefines
<1> QED  BY <1>1, <1>2, RegistryCorrect, PTL
         DEF Spec, ImplementsPresence, Abstract!Spec
=============================================================================
