----------------------------- MODULE ChatProofs -----------------------------
(***************************************************************************)
(* The way of a chat message through the system, proved for any number of  *)
(* users, sessions, rooms and messages and any channel capacity.           *)
(*                                                                         *)
(* A message is in one place at a time: with the receive task that         *)
(* numbered it, in the router's channel, in the channel of one room, or    *)
(* handed out.  `outcome` tells which: "none", "unanswered" (router or     *)
(* room), then being written, written, failed, or answered "room not       *)
(* found".  Within one author's messages, a later place holds smaller ids. *)
(* ChatInv says this of what direct messages and rooms share, PostInv adds *)
(* the rooms' channels.  The ordering properties follow since a frame that *)
(* is handed out is new to everybody, and greater than the author's        *)
(* earlier ones; the truth of an acknowledgment, since the outcome it      *)
(* repeats is final and its waiting task, once gone, does not come back.   *)
(*                                                                         *)
(* Sequences are reasoned about by two relations only: what a sequence     *)
(* contains, and which element is before which.                            *)
(***************************************************************************)
EXTENDS DirectMessages, Rooms, SequenceTheorems, TLAPS

Chats ==
    [type : {"SendDirectMessage"}, id : Ids, to : Users]
        \cup [type : {"SendRoomMessage"}, id : Ids, room : RoomIds]

RoomRequests ==
    [type : {"JoinRoom"}, user : Users, sender : Sessions, room : RoomIds]
        \cup [type : {"LeaveRoom"}, user : Users, room : RoomIds]

InboxMessages == RegistryMessages \cup Chats \cup RoomRequests

Frames == {DirectMessage(i) : i \in Ids} \cup {RoomMessage(r, i) : r \in RoomIds, i \in Ids}
AckFrames == {Ack(i, status) : i \in Ids, status \in Answered}
Outgoing == Frames \cup AckFrames

Begun == {"writing", "Persisted", "Failed"}

DeliveryTypeOK ==
    /\ inbox \in Seq(InboxMessages)
    /\ channel \in [Sessions -> Seq(Frames)]
    /\ acks \in [Sessions -> Seq(AckFrames)]
    /\ written \in [Sessions -> Seq(Outgoing)]
    /\ nextId \in Nat
    /\ draft \in [Sessions -> Chats \cup {NoDraft}]
    /\ author \in [Ids -> Sessions \cup {None}]
    /\ outcome \in [Ids -> {"none", "unanswered", "RoomNotFound"} \cup Begun]
    /\ waiting \subseteq Ids
    /\ store \subseteq Ids

\* An id is taken once; its message waits in the receive task that took it.
DraftInv ==
    /\ \A i \in Ids : i >= nextId => outcome[i] = "none"
    /\ \A s \in Sessions : draft[s] # NoDraft =>
           /\ draft[s].id < nextId
           /\ outcome[draft[s].id] = "none"
           /\ author[draft[s].id] = s

\* Then it is in the router's channel, behind the earlier ones of its author.
InboxInv ==
    \A m \in Chats : Contains(inbox, m) =>
        /\ outcome[m.id] = "unanswered"
        /\ \A s \in Sessions :
               draft[s] # NoDraft /\ author[m.id] = s => m.id < draft[s].id
        /\ \A n \in Chats :
               Before(inbox, m, n) /\ author[m.id] = author[n.id] => m.id < n.id

\* What was handed to a recipient is in neither place any more, and came
\* before all that is.
FrameInv ==
    /\ \A s \in Sessions, i \in Ids :
           Contains(Sent(s), DirectMessage(i)) =>
               /\ outcome[i] \in Begun
               /\ \A m \in Chats :
                      Contains(inbox, m) /\ author[m.id] = author[i] => i < m.id
               /\ \A t \in Sessions :
                      draft[t] # NoDraft /\ author[i] = t => i < draft[t].id
    /\ \A s \in Sessions, r \in RoomIds, i \in Ids :
           Contains(Sent(s), RoomMessage(r, i)) => outcome[i] \in Begun

\* An acknowledgment tells the outcome, which is final.
AckInv ==
    \A s \in Sessions, i \in Ids, status \in Answered :
        Contains(SentAcks(s), Ack(i, status)) =>
            /\ outcome[i] = status
            /\ i \notin waiting
            /\ author[i] = s
            /\ \A other \in Answered :
                   ~Before(SentAcks(s), Ack(i, status), Ack(i, other))

StoreInv ==
    \A i \in Ids :
        /\ outcome[i] = "Persisted" => i \in store
        /\ i \in store => outcome[i] \in Begun

ChatInv ==
    /\ DeliveryTypeOK /\ DraftInv /\ InboxInv /\ FrameInv /\ AckInv /\ StoreInv
    /\ SenderOrderKept

-----------------------------------------------------------------------------
(* Sequences *)

LEMMA AppendBefore ==
    ASSUME NEW S, NEW seq \in Seq(S), NEW e \in S
    PROVE  /\ Append(seq, e) \in Seq(S)
           /\ \A x : Contains(Append(seq, e), x) <=> Contains(seq, x) \/ x = e
           /\ \A x, y : Before(Append(seq, e), x, y)
                            <=> Before(seq, x, y) \/ (Contains(seq, x) /\ y = e)
<1> DEFINE new == Append(seq, e)
           n == Len(seq)
<1>1. /\ new \in Seq(S) /\ Len(new) = n + 1 /\ n \in Nat
      /\ \A i \in 1..n : new[i] = seq[i]
      /\ new[n + 1] = e
  BY AppendProperties, LenProperties
<1>2. \A i \in 1..n + 1 : i \in 1..n \/ i = n + 1
  BY <1>1
<1>3. \A i \in 1..n : i \in 1..n + 1 /\ i < n + 1
  BY <1>1
<1>4. n + 1 \in 1..n + 1
  BY <1>1
<1> HIDE DEF new, n
<1>5. ASSUME NEW x PROVE Contains(new, x) <=> Contains(seq, x) \/ x = e
  BY <1>1, <1>2, <1>3, <1>4 DEF Contains, n
<1>6. ASSUME NEW x, NEW y
      PROVE  Before(new, x, y) <=> Before(seq, x, y) \/ (Contains(seq, x) /\ y = e)
  <2>1. ASSUME Before(new, x, y)
        PROVE  Before(seq, x, y) \/ (Contains(seq, x) /\ y = e)
    <3>1. PICK j \in 1..n + 1, k \in 1..n + 1 : j < k /\ new[j] = x /\ new[k] = y
      BY <1>1, <2>1 DEF Before
    <3>2. j \in 1..n
      BY <1>1, <3>1
    <3> QED
      BY <1>1, <1>2, <3>1, <3>2 DEF Before, Contains, n
  <2>2. ASSUME Before(seq, x, y) PROVE Before(new, x, y)
    <3>1. PICK j \in 1..n, k \in 1..n : j < k /\ seq[j] = x /\ seq[k] = y
      BY <2>2 DEF Before, n
    <3> QED
      BY <1>1, <1>3, <3>1 DEF Before
  <2>3. ASSUME Contains(seq, x), y = e PROVE Before(new, x, y)
    <3>1. PICK j \in 1..n : seq[j] = x
      BY <2>3 DEF Contains, n
    <3> QED
      BY <1>1, <1>3, <1>4, <2>3, <3>1 DEF Before
  <2> QED
    BY <2>1, <2>2, <2>3
<1> QED
  BY <1>1, <1>5, <1>6 DEF new

LEMMA BeforeContains ==
    ASSUME NEW seq, NEW x, NEW y, Before(seq, x, y)
    PROVE  Contains(seq, x) /\ Contains(seq, y)
  BY DEF Before, Contains

LEMMA EmptyBefore ==
    /\ \A x : ~Contains(<< >>, x)
    /\ \A x, y : ~Before(<< >>, x, y)
  BY EmptySeq DEF Contains, Before

LEMMA TailBefore ==
    ASSUME NEW S, NEW seq \in Seq(S), seq # << >>
    PROVE  /\ Tail(seq) \in Seq(S) /\ Head(seq) \in S
           /\ \A x : Contains(seq, x) <=> x = Head(seq) \/ Contains(Tail(seq), x)
           /\ \A x, y : Before(seq, x, y) <=>
                  Before(Tail(seq), x, y) \/ (x = Head(seq) /\ Contains(Tail(seq), y))
<1> DEFINE tl == Tail(seq)
           n == Len(seq)
<1>1. /\ tl \in Seq(S) /\ Len(tl) = n - 1 /\ n \in Nat /\ n # 0
      /\ Head(seq) \in S /\ Head(seq) = seq[1]
      /\ \A i \in 1..n - 1 : tl[i] = seq[i + 1]
  BY HeadTailProperties, LenProperties, EmptySeq
<1>2. \A i \in 1..n : i = 1 \/ (i - 1 \in 1..n - 1 /\ tl[i - 1] = seq[i])
  BY <1>1
<1>3. \A i \in 1..n - 1 : i + 1 \in 1..n /\ i + 1 > 1
  BY <1>1
<1>4. 1 \in 1..n
  BY <1>1
<1> HIDE DEF tl, n
<1>5. ASSUME NEW x PROVE Contains(seq, x) <=> x = Head(seq) \/ Contains(tl, x)
  BY <1>1, <1>2, <1>3, <1>4 DEF Contains, n
<1>6. ASSUME NEW x, NEW y
      PROVE  Before(seq, x, y) <=>
                 Before(tl, x, y) \/ (x = Head(seq) /\ Contains(tl, y))
  <2>1. ASSUME Before(seq, x, y)
        PROVE  Before(tl, x, y) \/ (x = Head(seq) /\ Contains(tl, y))
    <3>1. PICK j \in 1..n, k \in 1..n : j < k /\ seq[j] = x /\ seq[k] = y
      BY <2>1 DEF Before, n
    <3>2. k - 1 \in 1..n - 1 /\ tl[k - 1] = y
      BY <1>1, <1>2, <3>1
    <3>3. CASE j = 1
      BY <1>1, <3>1, <3>2, <3>3 DEF Contains
    <3>4. CASE j # 1
      <4>1. j - 1 \in 1..n - 1 /\ tl[j - 1] = x
        BY <1>2, <3>1, <3>4
      <4>2. j - 1 < k - 1
        BY <1>1, <3>1
      <4> QED
        BY <1>1, <3>2, <4>1, <4>2 DEF Before
    <3> QED
      BY <3>3, <3>4
  <2>2. ASSUME Before(tl, x, y) PROVE Before(seq, x, y)
    <3>1. PICK j \in 1..n - 1, k \in 1..n - 1 : j < k /\ tl[j] = x /\ tl[k] = y
      BY <1>1, <2>2 DEF Before
    <3>2. /\ j + 1 \in 1..n /\ k + 1 \in 1..n /\ j + 1 < k + 1
          /\ seq[j + 1] = x /\ seq[k + 1] = y
      BY <1>1, <1>3, <3>1
    <3> QED
      BY <3>2 DEF Before, n
  <2>3. ASSUME x = Head(seq), Contains(tl, y) PROVE Before(seq, x, y)
    <3>1. PICK k \in 1..n - 1 : tl[k] = y
      BY <1>1, <2>3 DEF Contains
    <3>2. k + 1 \in 1..n /\ 1 < k + 1 /\ seq[k + 1] = y /\ seq[1] = x
      BY <1>1, <1>3, <2>3, <3>1
    <3> QED
      BY <1>4, <3>2 DEF Before, n
  <2> QED
    BY <2>1, <2>2, <2>3
<1> QED
  BY <1>1, <1>5, <1>6 DEF tl

LEMMA ConcatBefore ==
    ASSUME NEW S, NEW a \in Seq(S), NEW b \in Seq(S)
    PROVE  /\ \A x : Contains(a \o b, x) <=> Contains(a, x) \/ Contains(b, x)
           /\ \A x, y : Before(a \o b, x, y) <=>
                  \/ Before(a, x, y) \/ Before(b, x, y)
                  \/ Contains(a, x) /\ Contains(b, y)
<1> DEFINE c == a \o b
           m == Len(a)
           n == Len(b)
<1>1. /\ m \in Nat /\ n \in Nat /\ Len(c) = m + n
      /\ \A i \in 1..m + n : c[i] = IF i <= m THEN a[i] ELSE b[i - m]
  BY ConcatProperties, LenProperties
<1>2. \A i \in 1..m : i \in 1..m + n /\ c[i] = a[i]
  BY <1>1
<1>3. \A i \in 1..n : m + i \in 1..m + n /\ c[m + i] = b[i]
  BY <1>1
<1>4. \A i \in 1..m + n : \/ i \in 1..m /\ c[i] = a[i]
                          \/ i - m \in 1..n /\ c[i] = b[i - m]
  BY <1>1
<1> HIDE DEF c, m, n
<1>5. ASSUME NEW x PROVE Contains(c, x) <=> Contains(a, x) \/ Contains(b, x)
  BY <1>1, <1>2, <1>3, <1>4 DEF Contains, m, n
<1>6. ASSUME NEW x, NEW y
      PROVE  Before(c, x, y) <=> \/ Before(a, x, y) \/ Before(b, x, y)
                                 \/ Contains(a, x) /\ Contains(b, y)
  <2>1. ASSUME Before(c, x, y)
        PROVE  \/ Before(a, x, y) \/ Before(b, x, y)
               \/ Contains(a, x) /\ Contains(b, y)
    <3>1. PICK j \in 1..m + n, k \in 1..m + n : j < k /\ c[j] = x /\ c[k] = y
      BY <1>1, <2>1 DEF Before
    <3>2. CASE k \in 1..m
      <4>1. j \in 1..m
        BY <1>1, <3>1, <3>2
      <4> QED
        BY <1>2, <3>1, <3>2, <4>1 DEF Before, m
    <3>3. CASE j \in 1..m /\ k \notin 1..m
      BY <1>2, <1>4, <3>1, <3>3 DEF Contains, m, n
    <3>4. CASE j \notin 1..m /\ k \notin 1..m
      <4>1. /\ j - m \in 1..n /\ k - m \in 1..n /\ j - m < k - m
            /\ b[j - m] = x /\ b[k - m] = y
        BY <1>1, <1>4, <3>1, <3>4
      <4> QED
        BY <4>1 DEF Before, n
    <3> QED
      BY <3>2, <3>3, <3>4
  <2>2. ASSUME Before(a, x, y) PROVE Before(c, x, y)
    <3>1. PICK j \in 1..m, k \in 1..m : j < k /\ a[j] = x /\ a[k] = y
      BY <2>2 DEF Before, m
    <3> QED
      BY <1>1, <1>2, <3>1 DEF Before
  <2>3. ASSUME Before(b, x, y) PROVE Before(c, x, y)
    <3>1. PICK j \in 1..n, k \in 1..n : j < k /\ b[j] = x /\ b[k] = y
      BY <2>3 DEF Before, n
    <3>2. m + j < m + k
      BY <1>1, <3>1
    <3> QED
      BY <1>1, <1>3, <3>1, <3>2 DEF Before
  <2>4. ASSUME Contains(a, x), Contains(b, y) PROVE Before(c, x, y)
    <3>1. PICK j \in 1..m : a[j] = x
      BY <2>4 DEF Contains, m
    <3>2. PICK k \in 1..n : b[k] = y
      BY <2>4 DEF Contains, n
    <3>3. j < m + k
      BY <1>1, <3>1, <3>2
    <3> QED
      BY <1>1, <1>2, <1>3, <3>1, <3>2, <3>3 DEF Before
  <2> QED
    BY <2>1, <2>2, <2>3, <2>4
<1> QED
  BY <1>5, <1>6 DEF c

LEMMA ConcatAppendBefore ==
    ASSUME NEW S, NEW w \in Seq(S), NEW q \in Seq(S), NEW e \in S
    PROVE  /\ \A x : Contains(w \o Append(q, e), x) <=> Contains(w \o q, x) \/ x = e
           /\ \A x, y : Before(w \o Append(q, e), x, y) <=>
                  Before(w \o q, x, y) \/ (Contains(w \o q, x) /\ y = e)
<1> DEFINE new == Append(q, e)
<1>1. /\ new \in Seq(S)
      /\ \A x : Contains(new, x) <=> Contains(q, x) \/ x = e
      /\ \A x, y : Before(new, x, y) <=> Before(q, x, y) \/ (Contains(q, x) /\ y = e)
  BY AppendBefore
<1> HIDE DEF new
<1>2. /\ \A x : Contains(w \o q, x) <=> Contains(w, x) \/ Contains(q, x)
      /\ \A x, y : Before(w \o q, x, y) <=>
             \/ Before(w, x, y) \/ Before(q, x, y)
             \/ Contains(w, x) /\ Contains(q, y)
  BY ConcatBefore
<1>3. /\ \A x : Contains(w \o new, x) <=> Contains(w, x) \/ Contains(new, x)
      /\ \A x, y : Before(w \o new, x, y) <=>
             \/ Before(w, x, y) \/ Before(new, x, y)
             \/ Contains(w, x) /\ Contains(new, y)
  BY <1>1, ConcatBefore
<1>4. ASSUME NEW x PROVE Contains(w \o new, x) <=> Contains(w \o q, x) \/ x = e
  BY <1>1, <1>2, <1>3
<1>5. ASSUME NEW x, NEW y
      PROVE  Before(w \o new, x, y) <=>
                 Before(w \o q, x, y) \/ (Contains(w \o q, x) /\ y = e)
  BY <1>1, <1>2, <1>3
<1> QED
  BY <1>4, <1>5 DEF new

-----------------------------------------------------------------------------
(* Messages and frames *)

LEMMA ChatFacts ==
    /\ \A m \in Chats : m.id \in Ids /\ m # NoDraft /\ m \notin RegistryMessages \cup RoomRequests
    /\ \A i, j \in Ids : DirectMessage(i) = DirectMessage(j) => i = j
    /\ \A i \in Ids, r \in RoomIds, j \in Ids : DirectMessage(i) # RoomMessage(r, j)
    /\ \A q, r \in RoomIds, i, j \in Ids : RoomMessage(q, i) = RoomMessage(r, j) => q = r /\ i = j
    /\ \A f \in Frames, a \in AckFrames : f # a
    /\ \A i, j, st, sk : Ack(i, st) = Ack(j, sk) => i = j /\ st = sk
    /\ \A i \in Ids : DirectMessage(i) \in Frames
    /\ \A i \in Ids, r \in RoomIds : RoomMessage(r, i) \in Frames
    /\ \A i \in Ids, st \in Answered : Ack(i, st) \in AckFrames
    /\ Answered = {"Persisted", "Failed", "RoomNotFound"}
<1>1. \A m \in Chats : m.id \in Ids /\ m # NoDraft /\ m \notin RegistryMessages \cup RoomRequests
  BY DEF Chats, NoDraft, RegistryMessages, RoomRequests, RegisterUser, UnregisterUser
<1>2. /\ \A i, j \in Ids : DirectMessage(i) = DirectMessage(j) => i = j
      /\ \A i \in Ids, r \in RoomIds, j \in Ids : DirectMessage(i) # RoomMessage(r, j)
      /\ \A q, r \in RoomIds, i, j \in Ids : RoomMessage(q, i) = RoomMessage(r, j) => q = r /\ i = j
  BY DEF DirectMessage, RoomMessage
<1>3. \A f \in Frames, a \in AckFrames : f # a
  BY DEF Frames, AckFrames, DirectMessage, RoomMessage, Ack
<1>4. \A i, j, st, sk : Ack(i, st) = Ack(j, sk) => i = j /\ st = sk
  BY DEF Ack
<1>5. /\ \A i \in Ids : DirectMessage(i) \in Frames
      /\ \A i \in Ids, r \in RoomIds : RoomMessage(r, i) \in Frames
      /\ \A i \in Ids, st \in Answered : Ack(i, st) \in AckFrames
  BY DEF Frames, AckFrames
<1>6. Answered = {"Persisted", "Failed", "RoomNotFound"}
  BY DEF Answered, Writes!PersistResults
<1> QED
  BY <1>1, <1>2, <1>3, <1>4, <1>5, <1>6

\* The two queues of a session, each behind what is written.
LEMMA WireFacts ==
    ASSUME NEW w \in Seq(Outgoing), NEW c \in Seq(Frames), NEW a \in Seq(AckFrames)
    PROVE  /\ \A x : Contains(w \o c, x) <=> Contains(w, x) \/ Contains(c, x)
           /\ \A x, y : Before(w \o c, x, y) <=>
                  \/ Before(w, x, y) \/ Before(c, x, y)
                  \/ Contains(w, x) /\ Contains(c, y)
           /\ \A x : Contains(w \o a, x) <=> Contains(w, x) \/ Contains(a, x)
           /\ \A x, y : Before(w \o a, x, y) <=>
                  \/ Before(w, x, y) \/ Before(a, x, y)
                  \/ Contains(w, x) /\ Contains(a, y)
<1>1. c \in Seq(Outgoing) /\ a \in Seq(Outgoing)
  BY SeqMonotonic DEF Outgoing
<1> QED
  BY <1>1, ConcatBefore

-----------------------------------------------------------------------------
(* Steps that only take something away *)

\* Nothing new is on the way to the router, to a socket or acknowledged.
FewerInbox ==
    /\ \A m \in Chats : Contains(inbox', m) => Contains(inbox, m)
    /\ \A m, n \in Chats : Before(inbox', m, n) => Before(inbox, m, n)

FewerSent ==
    \A s \in Sessions :
        /\ \A f \in Frames : Contains(Sent(s)', f) => Contains(Sent(s), f)
        /\ \A f, g \in Frames : Before(Sent(s)', f, g) => Before(Sent(s), f, g)

FewerAcks ==
    \A s \in Sessions :
        /\ \A a \in AckFrames : Contains(SentAcks(s)', a) => Contains(SentAcks(s), a)
        /\ \A a, b \in AckFrames :
               Before(SentAcks(s)', a, b) => Before(SentAcks(s), a, b)

\* No frame is new to any recipient; a message new to the router is new to all.
NothingDelivered ==
    /\ FewerSent
    /\ \A m \in Chats : Contains(inbox', m) => Contains(inbox, m) \/ outcome[m.id] = "none"
    /\ \A i \in Ids : outcome[i] = "unanswered" => outcome'[i] = "unanswered"

LEMMA SameSent == UNCHANGED <<channel, written>> => FewerSent
  BY DEF FewerSent, Sent

LEMMA SameAcks == UNCHANGED <<acks, written>> => FewerAcks
  BY DEF FewerAcks, SentAcks

LEMMA SameInbox == UNCHANGED inbox => FewerInbox
  BY DEF FewerInbox

LEMMA FewerKeeps ==
    ASSUME ChatInv, DeliveryTypeOK', FewerInbox, FewerSent, FewerAcks,
           UNCHANGED messageVars
    PROVE  ChatInv' /\ NothingDelivered
<1>1. UNCHANGED <<nextId, draft, author, outcome, waiting, store>>
  BY DEF messageVars
<1>2. DraftInv' /\ StoreInv'
  BY <1>1 DEF ChatInv, DraftInv, StoreInv
<1>3. InboxInv'
  BY <1>1 DEF ChatInv, InboxInv, FewerInbox
<1>4. FrameInv'
  BY <1>1, ChatFacts DEF ChatInv, FrameInv, FewerSent, FewerInbox
<1>5. AckInv'
  BY <1>1, ChatFacts DEF ChatInv, AckInv, FewerAcks
<1>6. SenderOrderKept'
  BY <1>1, ChatFacts DEF ChatInv, SenderOrderKept, FewerSent
<1>7. NothingDelivered
  BY <1>1 DEF NothingDelivered, FewerInbox
<1> QED
  BY <1>2, <1>3, <1>4, <1>5, <1>6, <1>7 DEF ChatInv

\* The router takes its oldest message.
LEMMA ReceiveFewer ==
    ASSUME DeliveryTypeOK, NEW type, Receive(type)
    PROVE  /\ FewerInbox /\ inbox' \in Seq(InboxMessages)
           /\ Head(inbox) \in InboxMessages /\ Head(inbox).type = type
           /\ Contains(inbox, Head(inbox))
           /\ \A m : Contains(inbox', m) => Before(inbox, Head(inbox), m)
<1>1. /\ inbox \in Seq(InboxMessages) /\ inbox # << >> /\ inbox' = Tail(inbox)
      /\ Head(inbox).type = type
  BY DEF DeliveryTypeOK, Receive
<1> QED
  BY <1>1, TailBefore DEF FewerInbox

\* A message that is not a chat message is sent to it.
LEMMA RequestFewer ==
    ASSUME DeliveryTypeOK, NEW m \in RegistryMessages \cup RoomRequests,
           inbox' = Append(inbox, m)
    PROVE  FewerInbox /\ inbox' \in Seq(InboxMessages)
<1>1. inbox \in Seq(InboxMessages) /\ m \in InboxMessages /\ m \notin Chats
  BY ChatFacts DEF DeliveryTypeOK, InboxMessages
<1> QED
  BY <1>1, AppendBefore DEF FewerInbox

LEMMA WriteMessageStep ==
    ASSUME ChatInv, NEW s \in Sessions, WriteMessage(s)
    PROVE  ChatInv' /\ NothingDelivered
<1> DEFINE w == written[s]
           c == channel[s]
           h == Head(channel[s])
<1>1. /\ w \in Seq(Outgoing) /\ c \in Seq(Frames) /\ acks[s] \in Seq(AckFrames) /\ c # << >>
  BY DEF ChatInv, DeliveryTypeOK, WriteMessage
<1>2. /\ Tail(c) \in Seq(Frames) /\ h \in Frames
      /\ \A x : Contains(c, x) <=> x = h \/ Contains(Tail(c), x)
      /\ \A x, y : Before(c, x, y) <=> Before(Tail(c), x, y) \/ (x = h /\ Contains(Tail(c), y))
  BY <1>1, TailBefore
<1>3. /\ Append(w, h) \in Seq(Outgoing)
      /\ \A x : Contains(Append(w, h), x) <=> Contains(w, x) \/ x = h
      /\ \A x, y : Before(Append(w, h), x, y) <=> Before(w, x, y) \/ (Contains(w, x) /\ y = h)
  BY <1>1, <1>2, AppendBefore DEF Outgoing
<1>4. /\ written' = [written EXCEPT ![s] = Append(w, h)]
      /\ channel' = [channel EXCEPT ![s] = Tail(c)]
      /\ UNCHANGED <<vars, acks, messageVars>>
  BY DEF WriteMessage
<1> HIDE DEF w, c, h
<1>5. DeliveryTypeOK'
  BY <1>2, <1>3, <1>4 DEF ChatInv, DeliveryTypeOK, vars, messageVars
<1>6. ASSUME NEW t \in Sessions
      PROVE  /\ t = s => written'[t] = Append(w, h) /\ channel'[t] = Tail(c)
             /\ t # s => written'[t] = written[t] /\ channel'[t] = channel[t]
             /\ acks'[t] = acks[t]
  BY <1>4 DEF ChatInv, DeliveryTypeOK
<1>7. FewerSent
  <2> SUFFICES ASSUME NEW t \in Sessions
               PROVE  /\ \A f : Contains(Sent(t)', f) => Contains(Sent(t), f)
                      /\ \A f, g : Before(Sent(t)', f, g) => Before(Sent(t), f, g)
    BY DEF FewerSent
  <2>1. CASE t # s
    BY <2>1, <1>6 DEF Sent
  <2>2. CASE t = s
    <3>1. Sent(t) = w \o c /\ Sent(t)' = Append(w, h) \o Tail(c)
      BY <2>2, <1>6 DEF Sent, w, c
    <3>2. /\ \A x : Contains(w \o c, x) <=> Contains(w, x) \/ Contains(c, x)
          /\ \A x, y : Before(w \o c, x, y) <=>
                 Before(w, x, y) \/ Before(c, x, y) \/ (Contains(w, x) /\ Contains(c, y))
      BY <1>1, WireFacts
    <3>3. /\ \A x : Contains(Append(w, h) \o Tail(c), x) <=>
                 Contains(Append(w, h), x) \/ Contains(Tail(c), x)
          /\ \A x, y : Before(Append(w, h) \o Tail(c), x, y) <=>
                 \/ Before(Append(w, h), x, y) \/ Before(Tail(c), x, y)
                 \/ Contains(Append(w, h), x) /\ Contains(Tail(c), y)
      BY <1>1, <1>2, <1>3, WireFacts
    <3>4. \A f : Contains(Append(w, h) \o Tail(c), f) => Contains(w \o c, f)
      BY <1>2, <1>3, <3>2, <3>3
    <3>5. ASSUME NEW f, NEW g, Before(Append(w, h) \o Tail(c), f, g)
          PROVE  Before(w \o c, f, g)
      BY <1>2, <1>3, <3>2, <3>3, <3>5
    <3> QED
      BY <3>1, <3>4, <3>5
  <2> QED
    BY <2>1, <2>2
<1>8. FewerAcks
  <2> SUFFICES ASSUME NEW t \in Sessions
               PROVE  /\ \A a \in AckFrames : Contains(SentAcks(t)', a) => Contains(SentAcks(t), a)
                      /\ \A a, b \in AckFrames :
                             Before(SentAcks(t)', a, b) => Before(SentAcks(t), a, b)
    BY DEF FewerAcks
  <2>1. CASE t # s
    BY <2>1, <1>6 DEF SentAcks
  <2>2. CASE t = s
    <3>1. SentAcks(t) = w \o acks[s] /\ SentAcks(t)' = Append(w, h) \o acks[s]
      BY <2>2, <1>6 DEF SentAcks, w
    <3>2. h \notin AckFrames
      BY <1>2, ChatFacts
    <3>3. /\ \A x : Contains(w \o acks[s], x) <=> Contains(w, x) \/ Contains(acks[s], x)
          /\ \A x, y : Before(w \o acks[s], x, y) <=>
                 \/ Before(w, x, y) \/ Before(acks[s], x, y)
                 \/ Contains(w, x) /\ Contains(acks[s], y)
      BY <1>1, WireFacts
    <3>4. /\ \A x : Contains(Append(w, h) \o acks[s], x) <=>
                 Contains(Append(w, h), x) \/ Contains(acks[s], x)
          /\ \A x, y : Before(Append(w, h) \o acks[s], x, y) <=>
                 \/ Before(Append(w, h), x, y) \/ Before(acks[s], x, y)
                 \/ Contains(Append(w, h), x) /\ Contains(acks[s], y)
      BY <1>1, <1>3, WireFacts
    <3>5. \A a \in AckFrames : Contains(Append(w, h) \o acks[s], a) => Contains(w \o acks[s], a)
      BY <1>3, <3>2, <3>3, <3>4
    <3>6. ASSUME NEW a \in AckFrames, NEW b \in AckFrames, Before(Append(w, h) \o acks[s], a, b)
          PROVE  Before(w \o acks[s], a, b)
      BY <1>3, <3>2, <3>3, <3>4, <3>6
    <3> QED
      BY <3>1, <3>5, <3>6
  <2> QED
    BY <2>1, <2>2
<1> QED
  BY <1>4, <1>5, <1>7, <1>8, SameInbox, FewerKeeps DEF vars

LEMMA WriteAckStep ==
    ASSUME ChatInv, NEW s \in Sessions, WriteAck(s)
    PROVE  ChatInv' /\ NothingDelivered
<1> DEFINE w == written[s]
           c == acks[s]
           h == Head(acks[s])
<1>1. /\ w \in Seq(Outgoing) /\ c \in Seq(AckFrames) /\ channel[s] \in Seq(Frames) /\ c # << >>
  BY DEF ChatInv, DeliveryTypeOK, WriteAck
<1>2. /\ Tail(c) \in Seq(AckFrames) /\ h \in AckFrames
      /\ \A x : Contains(c, x) <=> x = h \/ Contains(Tail(c), x)
      /\ \A x, y : Before(c, x, y) <=> Before(Tail(c), x, y) \/ (x = h /\ Contains(Tail(c), y))
  BY <1>1, TailBefore
<1>3. /\ Append(w, h) \in Seq(Outgoing)
      /\ \A x : Contains(Append(w, h), x) <=> Contains(w, x) \/ x = h
      /\ \A x, y : Before(Append(w, h), x, y) <=> Before(w, x, y) \/ (Contains(w, x) /\ y = h)
  BY <1>1, <1>2, AppendBefore DEF Outgoing
<1>4. /\ written' = [written EXCEPT ![s] = Append(w, h)]
      /\ acks' = [acks EXCEPT ![s] = Tail(c)]
      /\ UNCHANGED <<vars, channel, messageVars>>
  BY DEF WriteAck
<1> HIDE DEF w, c, h
<1>5. DeliveryTypeOK'
  BY <1>2, <1>3, <1>4 DEF ChatInv, DeliveryTypeOK, vars, messageVars
<1>6. ASSUME NEW t \in Sessions
      PROVE  /\ t = s => written'[t] = Append(w, h) /\ acks'[t] = Tail(c)
             /\ t # s => written'[t] = written[t] /\ acks'[t] = acks[t]
             /\ channel'[t] = channel[t]
  BY <1>4 DEF ChatInv, DeliveryTypeOK
<1>7. FewerAcks
  <2> SUFFICES ASSUME NEW t \in Sessions
               PROVE  /\ \A a : Contains(SentAcks(t)', a) => Contains(SentAcks(t), a)
                      /\ \A a, b : Before(SentAcks(t)', a, b) => Before(SentAcks(t), a, b)
    BY DEF FewerAcks
  <2>1. CASE t # s
    BY <2>1, <1>6 DEF SentAcks
  <2>2. CASE t = s
    <3>1. SentAcks(t) = w \o c /\ SentAcks(t)' = Append(w, h) \o Tail(c)
      BY <2>2, <1>6 DEF SentAcks, w, c
    <3>2. /\ \A x : Contains(w \o c, x) <=> Contains(w, x) \/ Contains(c, x)
          /\ \A x, y : Before(w \o c, x, y) <=>
                 Before(w, x, y) \/ Before(c, x, y) \/ (Contains(w, x) /\ Contains(c, y))
      BY <1>1, WireFacts
    <3>3. /\ \A x : Contains(Append(w, h) \o Tail(c), x) <=>
                 Contains(Append(w, h), x) \/ Contains(Tail(c), x)
          /\ \A x, y : Before(Append(w, h) \o Tail(c), x, y) <=>
                 \/ Before(Append(w, h), x, y) \/ Before(Tail(c), x, y)
                 \/ Contains(Append(w, h), x) /\ Contains(Tail(c), y)
      BY <1>1, <1>2, <1>3, WireFacts
    <3>4. \A a : Contains(Append(w, h) \o Tail(c), a) => Contains(w \o c, a)
      BY <1>2, <1>3, <3>2, <3>3
    <3>5. ASSUME NEW a, NEW b, Before(Append(w, h) \o Tail(c), a, b)
          PROVE  Before(w \o c, a, b)
      BY <1>2, <1>3, <3>2, <3>3, <3>5
    <3> QED
      BY <3>1, <3>4, <3>5
  <2> QED
    BY <2>1, <2>2
<1>8. FewerSent
  <2> SUFFICES ASSUME NEW t \in Sessions
               PROVE  /\ \A f \in Frames : Contains(Sent(t)', f) => Contains(Sent(t), f)
                      /\ \A f, g \in Frames : Before(Sent(t)', f, g) => Before(Sent(t), f, g)
    BY DEF FewerSent
  <2>1. CASE t # s
    BY <2>1, <1>6 DEF Sent
  <2>2. CASE t = s
    <3>1. Sent(t) = w \o channel[s] /\ Sent(t)' = Append(w, h) \o channel[s]
      BY <2>2, <1>6 DEF Sent, w
    <3>2. h \notin Frames
      BY <1>2, ChatFacts
    <3>3. /\ \A x : Contains(w \o channel[s], x) <=> Contains(w, x) \/ Contains(channel[s], x)
          /\ \A x, y : Before(w \o channel[s], x, y) <=>
                 \/ Before(w, x, y) \/ Before(channel[s], x, y)
                 \/ Contains(w, x) /\ Contains(channel[s], y)
      BY <1>1, WireFacts
    <3>4. /\ \A x : Contains(Append(w, h) \o channel[s], x) <=>
                 Contains(Append(w, h), x) \/ Contains(channel[s], x)
          /\ \A x, y : Before(Append(w, h) \o channel[s], x, y) <=>
                 \/ Before(Append(w, h), x, y) \/ Before(channel[s], x, y)
                 \/ Contains(Append(w, h), x) /\ Contains(channel[s], y)
      BY <1>1, <1>3, WireFacts
    <3>5. \A f \in Frames : Contains(Append(w, h) \o channel[s], f) => Contains(w \o channel[s], f)
      BY <1>3, <3>2, <3>3, <3>4
    <3>6. ASSUME NEW f \in Frames, NEW g \in Frames, Before(Append(w, h) \o channel[s], f, g)
          PROVE  Before(w \o channel[s], f, g)
      BY <1>3, <3>2, <3>3, <3>4, <3>6
    <3> QED
      BY <3>1, <3>5, <3>6
  <2> QED
    BY <2>1, <2>2
<1> QED
  BY <1>4, <1>5, <1>7, <1>8, SameInbox, FewerKeeps DEF vars

LEMMA DropFewer ==
    ASSUME DeliveryTypeOK, NEW s \in Sessions, DropReceivers(s)
    PROVE  /\ FewerSent /\ FewerAcks
           /\ channel' \in [Sessions -> Seq(Frames)]
           /\ acks' \in [Sessions -> Seq(AckFrames)]
<1>1. /\ channel' = [channel EXCEPT ![s] = << >>] /\ acks' = [acks EXCEPT ![s] = << >>]
      /\ written' = written
  BY DEF DropReceivers
<1>2. << >> \in Seq(Frames) /\ << >> \in Seq(AckFrames)
  BY EmptySeq
<1>3. ASSUME NEW t \in Sessions
      PROVE  /\ written[t] \in Seq(Outgoing) /\ channel[t] \in Seq(Frames)
             /\ acks[t] \in Seq(AckFrames)
             /\ channel'[t] \in {<< >>, channel[t]} /\ acks'[t] \in {<< >>, acks[t]}
  BY <1>1 DEF DeliveryTypeOK
<1>4. FewerSent
  <2> SUFFICES ASSUME NEW t \in Sessions
               PROVE  /\ \A f : Contains(Sent(t)', f) => Contains(Sent(t), f)
                      /\ \A f, g : Before(Sent(t)', f, g) => Before(Sent(t), f, g)
    BY DEF FewerSent
  <2>1. CASE channel'[t] = channel[t]
    BY <2>1, <1>1 DEF Sent
  <2>2. CASE channel'[t] = << >>
    <3>1. Sent(t)' = written[t] \o << >> /\ Sent(t) = written[t] \o channel[t]
      BY <2>2, <1>1 DEF Sent
    <3> QED
      BY <3>1, <1>2, <1>3, EmptyBefore, WireFacts
  <2> QED
    BY <1>3, <2>1, <2>2
<1>5. FewerAcks
  <2> SUFFICES ASSUME NEW t \in Sessions
               PROVE  /\ \A a : Contains(SentAcks(t)', a) => Contains(SentAcks(t), a)
                      /\ \A a, b : Before(SentAcks(t)', a, b) => Before(SentAcks(t), a, b)
    BY DEF FewerAcks
  <2>1. CASE acks'[t] = acks[t]
    BY <2>1, <1>1 DEF SentAcks
  <2>2. CASE acks'[t] = << >>
    <3>1. SentAcks(t)' = written[t] \o << >> /\ SentAcks(t) = written[t] \o acks[t]
      BY <2>2, <1>1 DEF SentAcks
    <3> QED
      BY <3>1, <1>2, <1>3, EmptyBefore, WireFacts
  <2> QED
    BY <1>3, <2>1, <2>2
<1> QED
  BY <1>1, <1>2, <1>4, <1>5 DEF DeliveryTypeOK

LEMMA LifeCycleKeeps ==
    ASSUME ChatInv, NEW s \in Sessions, LifeCycleStep(s)
    PROVE  ChatInv' /\ NothingDelivered
<1>1. DeliveryTypeOK /\ Owner[s] \in Users
  BY OwnerAssumption DEF ChatInv
<1>2. RegisterUser(s) \in RegistryMessages /\ UnregisterUser(Owner[s]) \in RegistryMessages
  BY <1>1 DEF RegistryMessages
<1>3. CASE Opens(s) \/ RunStep(s) \/ ClientLeaves(s) \/ RecvTaskDropped(s)
  <2>1. UNCHANGED deliveryVars
    BY <1>3 DEF Opens, RunStep, ClientLeaves, RecvTaskDropped
  <2>2. \/ UNCHANGED inbox
        \/ inbox' = Append(inbox, RegisterUser(s))
        \/ inbox' = Append(inbox, UnregisterUser(Owner[s]))
    BY <1>3 DEF Opens, RunStep, ClientLeaves, RecvTaskDropped, Connect, Start, Refused,
                EndRun, RecvTaskEnds, DropRecvTask
  <2>3. FewerInbox /\ inbox' \in Seq(InboxMessages)
    <3>1. CASE UNCHANGED inbox
      BY <3>1, <1>1, SameInbox DEF DeliveryTypeOK
    <3>2. CASE inbox' = Append(inbox, RegisterUser(s))
      BY <3>2, <1>1, <1>2, RequestFewer
    <3>3. CASE inbox' = Append(inbox, UnregisterUser(Owner[s]))
      BY <3>3, <1>1, <1>2, RequestFewer
    <3> QED
      BY <2>2, <3>1, <3>2, <3>3
  <2>4. DeliveryTypeOK' /\ UNCHANGED <<messageVars, channel, acks, written>>
    BY <1>1, <2>1, <2>3 DEF DeliveryTypeOK, deliveryVars, messageVars
  <2> QED
    BY <2>3, <2>4, SameSent, SameAcks, FewerKeeps
<1>4. CASE SendTaskBreaks(s) \/ SendTaskDropped(s)
  <2>1. DropReceivers(s) /\ UNCHANGED inbox
    BY <1>4 DEF SendTaskBreaks, SendTaskDropped, SendTaskEnds, DropSendTask
  <2>2. UNCHANGED <<written, messageVars>>
    BY <2>1 DEF DropReceivers
  <2>3. /\ FewerSent /\ FewerAcks
        /\ channel' \in [Sessions -> Seq(Frames)]
        /\ acks' \in [Sessions -> Seq(AckFrames)]
    BY <1>1, <2>1, DropFewer
  <2>4. DeliveryTypeOK'
    BY <1>1, <2>1, <2>2, <2>3 DEF DeliveryTypeOK, messageVars
  <2> QED
    BY <2>1, <2>2, <2>3, <2>4, SameInbox, FewerKeeps
<1> QED
  BY <1>3, <1>4 DEF LifeCycleStep

LEMMA RegistryKeeps ==
    ASSUME ChatInv, RegistryStep
    PROVE  ChatInv' /\ NothingDelivered
<1>1. PICK type \in {"RegisterUser", "UnregisterUser"} : Receive(type)
  BY DEF RegistryStep, RouterStep, HandleRegisterUser, HandleUnregisterUser
<1>2. DeliveryTypeOK /\ UNCHANGED deliveryVars
  BY DEF ChatInv, RegistryStep
<1>3. FewerInbox /\ inbox' \in Seq(InboxMessages)
  BY <1>1, <1>2, ReceiveFewer
<1>4. DeliveryTypeOK' /\ UNCHANGED <<messageVars, channel, acks, written>>
  BY <1>2, <1>3 DEF DeliveryTypeOK, deliveryVars, messageVars
<1> QED
  BY <1>3, <1>4, SameSent, SameAcks, FewerKeeps

-----------------------------------------------------------------------------
(* A message comes into being and goes to the router *)

LEMMA NumberStep ==
    ASSUME ChatInv, NEW s \in Sessions, NEW m \in Chats, m.id = nextId, Number(s, m)
    PROVE  ChatInv' /\ NothingDelivered
<1>1. /\ nextId \in Ids /\ nextId \in Nat
      /\ draft' = [draft EXCEPT ![s] = m]
      /\ author' = [author EXCEPT ![nextId] = s]
      /\ nextId' = nextId + 1
      /\ UNCHANGED <<inbox, channel, acks, written, outcome, waiting, store>>
  BY DEF ChatInv, DeliveryTypeOK, Number, vars, channelVars
<1>2. DeliveryTypeOK'
  BY <1>1 DEF ChatInv, DeliveryTypeOK
<1>3. /\ \A i \in Ids : i # nextId => author'[i] = author[i]
      /\ author'[nextId] = s
      /\ \A t \in Sessions : draft'[t] = IF t = s THEN m ELSE draft[t]
  BY <1>1 DEF ChatInv, DeliveryTypeOK
<1>4. \A i \in Ids : i \in Nat
  BY SizeAssumption DEF Ids
<1>5. \A i \in Ids : outcome[i] # "none" => i < nextId /\ author'[i] = author[i]
  BY <1>1, <1>3, <1>4 DEF ChatInv, DraftInv
<1>6. \A t \in Sessions : Sent(t)' = Sent(t) /\ SentAcks(t)' = SentAcks(t)
  BY <1>1 DEF Sent, SentAcks
<1>7. DraftInv'
  <2>1. \A i \in Ids : i >= nextId' => outcome'[i] = "none"
    BY <1>1, <1>4 DEF ChatInv, DraftInv
  <2>2. ASSUME NEW t \in Sessions, draft'[t] # NoDraft
        PROVE  /\ draft'[t].id < nextId' /\ outcome'[draft'[t].id] = "none"
               /\ author'[draft'[t].id] = t
    <3>1. CASE t = s
      BY <3>1, <1>1, <1>3, <1>4 DEF ChatInv, DraftInv
    <3>2. CASE t # s
      <4>1. draft'[t] = draft[t] /\ draft[t] \in Chats /\ draft[t].id \in Ids
        BY <2>2, <3>2, <1>3, ChatFacts DEF ChatInv, DeliveryTypeOK
      <4>2. draft[t].id < nextId /\ outcome[draft[t].id] = "none" /\ author[draft[t].id] = t
        BY <2>2, <4>1 DEF ChatInv, DraftInv
      <4>3. draft[t].id # nextId /\ draft[t].id < nextId + 1
        <5>1. \A x, y \in Nat : x < y => x # y /\ x < y + 1
          OBVIOUS
        <5>2. draft[t].id \in Nat /\ nextId \in Nat
          BY <1>1, <1>4, <4>1
        <5> QED
          BY <4>2, <5>1, <5>2
      <4>4. author'[draft[t].id] = author[draft[t].id]
        BY <1>3, <4>1, <4>3
      <4> QED
        BY <1>1, <4>1, <4>2, <4>3, <4>4
    <3> QED
      BY <3>1, <3>2
  <2> QED
    BY <2>1, <2>2 DEF DraftInv
<1>8. InboxInv'
  <2> SUFFICES ASSUME NEW n \in Chats, Contains(inbox, n)
               PROVE  /\ outcome[n.id] = "unanswered"
                      /\ \A t \in Sessions :
                             draft'[t] # NoDraft /\ author'[n.id] = t => n.id < draft'[t].id
                      /\ \A k \in Chats :
                             Before(inbox, n, k) /\ author'[n.id] = author'[k.id] => n.id < k.id
    BY <1>1 DEF InboxInv
  <2>1. outcome[n.id] = "unanswered" /\ n.id \in Ids
    BY ChatFacts DEF ChatInv, InboxInv
  <2>2. n.id < nextId /\ author'[n.id] = author[n.id]
    BY <1>5, <2>1
  <2>3. ASSUME NEW t \in Sessions, draft'[t] # NoDraft, author'[n.id] = t
        PROVE  n.id < draft'[t].id
    BY <1>3, <2>2, <2>3 DEF ChatInv, InboxInv
  <2>4. ASSUME NEW k \in Chats, Before(inbox, n, k), author'[n.id] = author'[k.id]
        PROVE  n.id < k.id
    <3>1. Contains(inbox, k) /\ k.id \in Ids
      BY <2>4, BeforeContains, ChatFacts
    <3>2. author'[k.id] = author[k.id]
      BY <1>5, <3>1 DEF ChatInv, InboxInv
    <3> QED
      BY <2>2, <2>4, <3>2 DEF ChatInv, InboxInv
  <2> QED
    BY <2>1, <2>3, <2>4
<1>9. FrameInv'
  <2>1. ASSUME NEW t \in Sessions, NEW i \in Ids, Contains(Sent(t)', DirectMessage(i))
        PROVE  /\ outcome'[i] \in Begun
               /\ \A n \in Chats :
                      Contains(inbox', n) /\ author'[n.id] = author'[i] => i < n.id
               /\ \A u \in Sessions :
                      draft'[u] # NoDraft /\ author'[i] = u => i < draft'[u].id
    <3>1. Contains(Sent(t), DirectMessage(i)) /\ outcome[i] \in Begun
      BY <2>1, <1>6 DEF ChatInv, FrameInv
    <3>2. i < nextId /\ author'[i] = author[i]
      BY <1>5, <3>1 DEF Begun
    <3>3. \A n \in Chats : Contains(inbox, n) => author'[n.id] = author[n.id]
      BY <1>5, ChatFacts DEF ChatInv, InboxInv
    <3> QED
      BY <1>1, <1>3, <3>1, <3>2, <3>3 DEF ChatInv, FrameInv
  <2> QED
    BY <2>1, <1>1, <1>6 DEF ChatInv, FrameInv
<1>10. AckInv'
  <2>1. \A i \in Ids, status \in Answered : outcome[i] = status => author'[i] = author[i]
    BY <1>5, ChatFacts
  <2> QED
    BY <1>1, <1>6, <2>1 DEF ChatInv, AckInv
<1>11. SenderOrderKept'
  <2>1. ASSUME NEW t \in Sessions, NEW x \in Ids, NEW y \in Ids,
               Before(Sent(t), DirectMessage(x), DirectMessage(y)),
               author'[x] = author'[y]
        PROVE  x < y
    <3>1. outcome[x] \in Begun /\ outcome[y] \in Begun
      BY <2>1, BeforeContains DEF ChatInv, FrameInv
    <3>2. author[x] = author[y]
      BY <2>1, <3>1, <1>5 DEF Begun
    <3> QED
      BY <2>1, <3>2 DEF ChatInv, SenderOrderKept
  <2> QED
    BY <2>1, <1>6 DEF SenderOrderKept
<1>12. StoreInv'
  BY <1>1 DEF ChatInv, StoreInv
<1>13. NothingDelivered
  BY <1>1, SameSent DEF NothingDelivered
<1> QED
  BY <1>2, <1>7, <1>8, <1>9, <1>10, <1>11, <1>12, <1>13 DEF ChatInv

LEMMA SendDraftStep ==
    ASSUME ChatInv, NEW s \in Sessions, SendDraft(s)
    PROVE  ChatInv' /\ NothingDelivered
<1> DEFINE m == draft[s]
<1>1. m \in Chats /\ m # NoDraft /\ m.id \in Ids
  BY ChatFacts DEF ChatInv, DeliveryTypeOK, SendDraft
<1>2. /\ inbox' = Append(inbox, m)
      /\ outcome' = [outcome EXCEPT ![m.id] = "unanswered"]
      /\ waiting' = waiting \cup {m.id}
      /\ draft' = [draft EXCEPT ![s] = NoDraft]
      /\ UNCHANGED <<channel, acks, written, nextId, author, store>>
  BY DEF SendDraft, channelVars
<1>3. /\ outcome[m.id] = "none" /\ author[m.id] = s /\ m.id < nextId
  BY <1>1 DEF ChatInv, DraftInv
<1> HIDE DEF m
<1>4. /\ inbox' \in Seq(InboxMessages)
      /\ \A x : Contains(inbox', x) <=> Contains(inbox, x) \/ x = m
      /\ \A x, y : Before(inbox', x, y) <=> Before(inbox, x, y) \/ (Contains(inbox, x) /\ y = m)
  <2>1. inbox \in Seq(InboxMessages) /\ m \in InboxMessages
    BY <1>1 DEF ChatInv, DeliveryTypeOK, InboxMessages
  <2>2. inbox' = Append(inbox, m)
    BY <1>2
  <2> QED
    BY <2>1, <2>2, AppendBefore
<1>5. DeliveryTypeOK'
  BY <1>1, <1>2, <1>4 DEF ChatInv, DeliveryTypeOK
<1>6. /\ \A i \in Ids : i # m.id => outcome'[i] = outcome[i]
      /\ outcome'[m.id] = "unanswered"
      /\ \A t \in Sessions : draft'[t] = IF t = s THEN NoDraft ELSE draft[t]
  BY <1>1, <1>2 DEF ChatInv, DeliveryTypeOK
<1>7. \A i \in Ids : outcome[i] # "none" => i # m.id /\ outcome'[i] = outcome[i]
  BY <1>3, <1>6
<1>8. \A t \in Sessions : Sent(t)' = Sent(t) /\ SentAcks(t)' = SentAcks(t)
  BY <1>2 DEF Sent, SentAcks
<1>9. DraftInv'
  <2>1. \A i \in Ids : i >= nextId' => outcome'[i] = "none"
    BY <1>1, <1>2, <1>3, <1>6, SizeAssumption DEF ChatInv, DeliveryTypeOK, DraftInv, Ids
  <2>2. ASSUME NEW t \in Sessions, draft'[t] # NoDraft
        PROVE  /\ draft'[t].id < nextId' /\ outcome'[draft'[t].id] = "none"
               /\ author'[draft'[t].id] = t
    <3>1. t # s /\ draft'[t] = draft[t] /\ draft[t].id \in Ids
      BY <2>2, <1>6, ChatFacts DEF ChatInv, DeliveryTypeOK
    <3>2. author[draft[t].id] = t /\ draft[t].id # m.id
      BY <2>2, <3>1, <1>3 DEF ChatInv, DraftInv
    <3> QED
      BY <2>2, <3>1, <3>2, <1>2, <1>6 DEF ChatInv, DraftInv
  <2> QED
    BY <2>1, <2>2 DEF DraftInv
<1>10. ~Contains(inbox, m)
  BY <1>1, <1>3 DEF ChatInv, InboxInv
<1>11. InboxInv'
  <2> SUFFICES ASSUME NEW n \in Chats, Contains(inbox', n)
               PROVE  /\ outcome'[n.id] = "unanswered"
                      /\ \A t \in Sessions :
                             draft'[t] # NoDraft /\ author[n.id] = t => n.id < draft'[t].id
                      /\ \A k \in Chats :
                             Before(inbox', n, k) /\ author[n.id] = author[k.id] => n.id < k.id
    BY <1>2 DEF InboxInv
  <2>1. CASE n = m
    <3>1. \A k : ~Before(inbox', m, k)
      BY <1>4, <1>10, BeforeContains
    <3> QED
      BY <2>1, <3>1, <1>3, <1>6
  <2>2. CASE n # m
    <3>1. Contains(inbox, n) /\ n.id \in Ids
      BY <2>2, <1>4, ChatFacts
    <3>2. outcome[n.id] = "unanswered" /\ outcome'[n.id] = "unanswered"
      BY <3>1, <1>7 DEF ChatInv, InboxInv
    <3>3. ASSUME NEW t \in Sessions, draft'[t] # NoDraft, author[n.id] = t
          PROVE  n.id < draft'[t].id
      BY <3>1, <3>3, <1>6 DEF ChatInv, InboxInv
    <3>4. ASSUME NEW k \in Chats, Before(inbox', n, k), author[n.id] = author[k.id]
          PROVE  n.id < k.id
      <4>1. CASE k = m
        BY <4>1, <3>1, <3>4, <1>1, <1>3 DEF ChatInv, InboxInv, m
      <4>2. CASE k # m
        BY <4>2, <3>1, <3>4, <1>4 DEF ChatInv, InboxInv
      <4> QED
        BY <4>1, <4>2
    <3> QED
      BY <3>2, <3>3, <3>4
  <2> QED
    BY <2>1, <2>2
<1>12. FrameInv'
  <2>1. ASSUME NEW t \in Sessions, NEW i \in Ids, Contains(Sent(t)', DirectMessage(i))
        PROVE  /\ outcome'[i] \in Begun
               /\ \A n \in Chats :
                      Contains(inbox', n) /\ author'[n.id] = author'[i] => i < n.id
               /\ \A u \in Sessions :
                      draft'[u] # NoDraft /\ author'[i] = u => i < draft'[u].id
    <3>1. Contains(Sent(t), DirectMessage(i)) /\ outcome[i] \in Begun
      BY <2>1, <1>8 DEF ChatInv, FrameInv
    <3>2. outcome'[i] \in Begun
      BY <3>1, <1>7 DEF Begun
    <3>3. ASSUME NEW n \in Chats, Contains(inbox', n), author[n.id] = author[i]
          PROVE  i < n.id
      <4>1. CASE n = m
        BY <4>1, <3>1, <3>3, <1>1, <1>3 DEF ChatInv, FrameInv, m
      <4>2. CASE n # m
        BY <4>2, <3>1, <3>3, <1>4 DEF ChatInv, FrameInv
      <4> QED
        BY <4>1, <4>2
    <3>4. ASSUME NEW u \in Sessions, draft'[u] # NoDraft, author[i] = u
          PROVE  i < draft'[u].id
      BY <3>1, <3>4, <1>6 DEF ChatInv, FrameInv
    <3> QED
      BY <1>2, <3>2, <3>3, <3>4
  <2>2. ASSUME NEW t \in Sessions, NEW r \in RoomIds, NEW i \in Ids,
               Contains(Sent(t)', RoomMessage(r, i))
        PROVE  outcome'[i] \in Begun
    <3>1. outcome[i] \in Begun
      BY <2>2, <1>8 DEF ChatInv, FrameInv
    <3> QED
      BY <3>1, <1>7 DEF Begun
  <2> QED
    BY <2>1, <2>2 DEF FrameInv
<1>13. AckInv'
  <2>1. \A i \in Ids, status \in Answered : outcome[i] = status =>
            outcome'[i] = status /\ (i \in waiting' <=> i \in waiting)
    BY <1>2, <1>7, ChatFacts
  <2> QED
    BY <1>2, <1>8, <2>1 DEF ChatInv, AckInv
<1>14. SenderOrderKept'
  BY <1>2, <1>8 DEF ChatInv, SenderOrderKept
<1>15. StoreInv'
  BY <1>2, <1>3, <1>6 DEF ChatInv, StoreInv, Begun
<1>16. NothingDelivered
  BY <1>2, <1>3, <1>4, <1>7, SameSent DEF NothingDelivered
<1> QED
  BY <1>5, <1>9, <1>11, <1>12, <1>13, <1>14, <1>15, <1>16 DEF ChatInv

-----------------------------------------------------------------------------
(* The outcome of a message advances *)

\* The outcome of message i, which is with neither a receive task nor the router
\* any more, changes to v.
LEMMA OutcomeAdvances ==
    ASSUME ChatInv, NEW i \in Ids, NEW v \in {"writing", "Persisted", "Failed", "RoomNotFound"},
           outcome[i] \in {"unanswered", "writing"},
           outcome' = [outcome EXCEPT ![i] = v],
           v = "Persisted" => i \in store,
           v = "RoomNotFound" => outcome[i] = "unanswered",
           FewerInbox,
           \A m \in Chats : Contains(inbox', m) => m.id # i,
           UNCHANGED <<acks, written, nextId, draft, author, waiting, store>>
    PROVE  /\ outcome' \in [Ids -> {"none", "unanswered", "RoomNotFound"} \cup Begun]
           /\ DraftInv' /\ InboxInv' /\ AckInv' /\ StoreInv'
           /\ \A j \in Ids : outcome[j] \in Begun /\ v \in Begun => outcome'[j] \in Begun
<1>1. outcome' \in [Ids -> {"none", "unanswered", "RoomNotFound"} \cup Begun]
  BY DEF ChatInv, DeliveryTypeOK, Begun
<1>2. \A j \in Ids : outcome'[j] = IF j = i THEN v ELSE outcome[j]
  BY DEF ChatInv, DeliveryTypeOK
<1>3. \A j \in Ids : outcome[j] = "none" => outcome'[j] = "none"
  BY <1>2
<1>4. \A j \in Ids, status \in Answered : outcome[j] = status => outcome'[j] = status
  BY <1>2, ChatFacts
<1>5. DraftInv'
  <2>1. \A s \in Sessions : draft[s] # NoDraft => draft[s].id \in Ids
    BY ChatFacts DEF ChatInv, DeliveryTypeOK
  <2> QED
    BY <1>3, <2>1 DEF ChatInv, DraftInv
<1>6. InboxInv'
  <2>1. ASSUME NEW m \in Chats, Contains(inbox', m)
        PROVE  Contains(inbox, m) /\ outcome'[m.id] = "unanswered"
    <3>1. m.id \in Ids /\ m.id # i /\ Contains(inbox, m)
      BY <2>1, ChatFacts DEF FewerInbox
    <3>2. outcome[m.id] = "unanswered"
      BY <3>1 DEF ChatInv, InboxInv
    <3> QED
      BY <1>2, <3>1, <3>2
  <2> QED
    BY <2>1 DEF ChatInv, InboxInv, FewerInbox
<1>7. AckInv'
  <2>1. \A t \in Sessions : SentAcks(t)' = SentAcks(t)
    BY DEF SentAcks
  <2> QED
    BY <1>4, <2>1 DEF ChatInv, AckInv
<1>8. StoreInv'
  BY <1>2 DEF ChatInv, StoreInv, Begun
<1>9. \A j \in Ids : outcome[j] \in Begun /\ v \in Begun => outcome'[j] \in Begun
  BY <1>2
<1> QED
  BY <1>1, <1>5, <1>6, <1>7, <1>8, <1>9

LEMMA ReturnsStep ==
    ASSUME ChatInv, NEW i \in Ids, PersistTaskReturns(i)
    PROVE  ChatInv' /\ NothingDelivered
<1>1. PICK v \in {"Persisted", "Failed"} :
          /\ outcome[i] = "writing" /\ (v = "Persisted" => i \in store)
          /\ outcome' = [outcome EXCEPT ![i] = v] /\ store' = store
  BY DEF PersistTaskReturns, Writes!PersistResults, Writes!Returns
<1>2. UNCHANGED <<inbox, channel, acks, written, nextId, draft, author, waiting, store>>
  BY <1>1 DEF PersistTaskReturns, vars, channelVars
<1>3. FewerInbox /\ FewerSent
  BY <1>2, SameInbox, SameSent
<1>4. \A m \in Chats : Contains(inbox', m) => m.id # i
  BY <1>1, <1>2 DEF ChatInv, InboxInv
<1>5. /\ outcome' \in [Ids -> {"none", "unanswered", "RoomNotFound"} \cup Begun]
      /\ DraftInv' /\ InboxInv' /\ AckInv' /\ StoreInv'
      /\ \A j \in Ids : outcome[j] \in Begun => outcome'[j] \in Begun
  BY <1>1, <1>2, <1>3, <1>4, OutcomeAdvances DEF Begun
<1>6. \A t \in Sessions : Sent(t)' = Sent(t)
  BY <1>2 DEF Sent
<1>7. FrameInv' /\ SenderOrderKept'
  BY <1>2, <1>5, <1>6 DEF ChatInv, FrameInv, SenderOrderKept
<1>8. DeliveryTypeOK'
  BY <1>2, <1>5 DEF ChatInv, DeliveryTypeOK
<1>9. \A j \in Ids : outcome[j] = "unanswered" => outcome'[j] = "unanswered"
  BY <1>1 DEF ChatInv, DeliveryTypeOK
<1>10. NothingDelivered
  BY <1>2, <1>3, <1>9 DEF NothingDelivered
<1> QED
  BY <1>5, <1>7, <1>8, <1>10 DEF ChatInv

LEMMA TakesEffectStep ==
    ASSUME ChatInv, NEW i \in Ids, WriteTakesEffect(i)
    PROVE  ChatInv' /\ NothingDelivered
<1>1. /\ outcome[i] \in {"writing", "Failed"} /\ store' = store \cup {i}
      /\ UNCHANGED <<inbox, channel, acks, written, nextId, draft, author, outcome, waiting>>
  BY DEF WriteTakesEffect, Writes!TakesEffect, vars, channelVars
<1>2. \A t \in Sessions : Sent(t)' = Sent(t) /\ SentAcks(t)' = SentAcks(t)
  BY <1>1 DEF Sent, SentAcks
<1>3. DeliveryTypeOK' /\ DraftInv' /\ InboxInv'
  BY <1>1 DEF ChatInv, DeliveryTypeOK, DraftInv, InboxInv
<1>4. FrameInv' /\ AckInv' /\ SenderOrderKept'
  BY <1>1, <1>2 DEF ChatInv, FrameInv, AckInv, SenderOrderKept
<1>5. StoreInv'
  BY <1>1 DEF ChatInv, StoreInv, Begun
<1>6. NothingDelivered
  BY <1>1, SameSent DEF NothingDelivered
<1> QED
  BY <1>3, <1>4, <1>5, <1>6 DEF ChatInv

LEMMA AcknowledgeStep ==
    ASSUME ChatInv, NEW i \in Ids, Acknowledge(i)
    PROVE  ChatInv' /\ NothingDelivered
<1> DEFINE a == Ack(i, outcome[i])
<1>1. /\ i \in waiting /\ outcome[i] \in Answered /\ waiting' = waiting \ {i}
      /\ UNCHANGED <<inbox, channel, written, nextId, draft, author, outcome, store>>
      /\ acks' = acks \/ acks' = [acks EXCEPT ![author[i]] = Append(@, a)]
  BY DEF Acknowledge, vars
<1>2. a \in AckFrames
  BY <1>1, ChatFacts
<1> HIDE DEF a
<1>3. ASSUME NEW t \in Sessions
      PROVE  /\ acks'[t] \in Seq(AckFrames)
             /\ \/ acks'[t] = acks[t]
                \/ t = author[i] /\ acks'[t] = Append(acks[t], a)
  <2>1. acks[t] \in Seq(AckFrames)
    BY DEF ChatInv, DeliveryTypeOK
  <2>2. Append(acks[t], a) \in Seq(AckFrames)
    BY <1>2, <2>1, AppendBefore
  <2>3. \/ acks'[t] = acks[t]
        \/ t = author[i] /\ acks'[t] = Append(acks[t], a)
    BY <1>1 DEF ChatInv, DeliveryTypeOK
  <2> QED
    BY <2>1, <2>2, <2>3
<1>4. DeliveryTypeOK'
  <2>1. acks' = [t \in Sessions |-> acks'[t]]
    BY <1>1 DEF ChatInv, DeliveryTypeOK
  <2>2. acks' \in [Sessions -> Seq(AckFrames)]
    BY <1>3, <2>1
  <2> QED
    BY <1>1, <2>2 DEF ChatInv, DeliveryTypeOK
<1>5. \A t \in Sessions : Sent(t)' = Sent(t)
  BY <1>1 DEF Sent
<1>6. DraftInv' /\ InboxInv' /\ StoreInv'
  BY <1>1 DEF ChatInv, DraftInv, InboxInv, StoreInv
<1>7. FrameInv' /\ SenderOrderKept'
  BY <1>1, <1>5 DEF ChatInv, FrameInv, SenderOrderKept
<1>8. AckInv'
  <2> SUFFICES ASSUME NEW t \in Sessions, NEW j \in Ids, NEW status \in Answered,
                      Contains(SentAcks(t)', Ack(j, status))
               PROVE  /\ outcome[j] = status /\ j \notin waiting' /\ author[j] = t
                      /\ \A other \in Answered :
                             ~Before(SentAcks(t)', Ack(j, status), Ack(j, other))
    BY <1>1 DEF AckInv
  <2>1. CASE acks'[t] = acks[t]
    <3>1. SentAcks(t)' = SentAcks(t)
      BY <1>1, <2>1 DEF SentAcks
    <3> QED
      BY <1>1, <3>1 DEF ChatInv, AckInv
  <2>2. CASE t = author[i] /\ acks'[t] = Append(acks[t], a)
    <3>1. /\ \A x : Contains(SentAcks(t)', x) <=> Contains(SentAcks(t), x) \/ x = a
          /\ \A x, y : Before(SentAcks(t)', x, y) <=>
                 Before(SentAcks(t), x, y) \/ (Contains(SentAcks(t), x) /\ y = a)
      <4>1. written[t] \in Seq(Outgoing) /\ acks[t] \in Seq(Outgoing) /\ a \in Outgoing
        BY <1>2, SeqMonotonic DEF ChatInv, DeliveryTypeOK, Outgoing
      <4>2. SentAcks(t) = written[t] \o acks[t]
        BY DEF SentAcks
      <4>3. SentAcks(t)' = written[t] \o Append(acks[t], a)
        BY <1>1, <2>2 DEF SentAcks
      <4> QED
        BY <4>1, <4>2, <4>3, ConcatAppendBefore
    <3>2. \A other \in Answered : ~Contains(SentAcks(t), Ack(i, other))
      BY <1>1 DEF ChatInv, AckInv
    <3>3. CASE j = i
      <4>1. Ack(j, status) = a
        BY <3>1, <3>2, <3>3
      <4>2. status = outcome[i]
        BY <4>1, ChatFacts DEF a
      <4>3. \A other \in Answered : ~Before(SentAcks(t)', Ack(j, status), Ack(j, other))
        BY <3>1, <3>2, <3>3, BeforeContains
      <4> QED
        BY <1>1, <2>2, <3>3, <4>2, <4>3
    <3>4. CASE j # i
      <4>1. \A other \in Answered : Ack(j, other) # a
        BY <3>4, ChatFacts DEF a
      <4>2. Contains(SentAcks(t), Ack(j, status))
        BY <3>1, <4>1
      <4>3. /\ outcome[j] = status /\ j \notin waiting /\ author[j] = t
            /\ \A other \in Answered : ~Before(SentAcks(t), Ack(j, status), Ack(j, other))
        BY <4>2 DEF ChatInv, AckInv
      <4> QED
        BY <1>1, <3>1, <4>1, <4>3
    <3> QED
      BY <3>3, <3>4
  <2> QED
    BY <1>3, <2>1, <2>2
<1>9. NothingDelivered
  BY <1>1, SameSent DEF NothingDelivered
<1> QED
  BY <1>4, <1>6, <1>7, <1>8, <1>9 DEF ChatInv

-----------------------------------------------------------------------------
(* A frame is handed to recipients *)

\* At most this frame is new on the way to a socket, behind all that is there.
MoreSent(frame) ==
    \A s \in Sessions :
        /\ \A f \in Frames : Contains(Sent(s)', f) => Contains(Sent(s), f) \/ f = frame
        /\ \A f, g \in Frames :
               Before(Sent(s)', f, g) =>
                   Before(Sent(s), f, g) \/ (Contains(Sent(s), f) /\ g = frame)

LEMMA HandedOver ==
    ASSUME DeliveryTypeOK, NEW frame \in Frames, written' = written,
           channel' = [t \in Sessions |-> channel'[t]],
           \A t \in Sessions : channel'[t] \in {channel[t], Append(channel[t], frame)}
    PROVE  MoreSent(frame) /\ channel' \in [Sessions -> Seq(Frames)]
<1>1. ASSUME NEW t \in Sessions
      PROVE  /\ channel[t] \in Seq(Frames) /\ Append(channel[t], frame) \in Seq(Frames)
             /\ channel[t] \in Seq(Outgoing) /\ written[t] \in Seq(Outgoing)
             /\ frame \in Outgoing
  BY AppendBefore, SeqMonotonic DEF DeliveryTypeOK, Outgoing
<1>2. MoreSent(frame)
  <2> SUFFICES ASSUME NEW t \in Sessions
               PROVE  /\ \A f : Contains(Sent(t)', f) => Contains(Sent(t), f) \/ f = frame
                      /\ \A f, g : Before(Sent(t)', f, g) =>
                             Before(Sent(t), f, g) \/ (Contains(Sent(t), f) /\ g = frame)
    BY DEF MoreSent
  <2>1. CASE channel'[t] = channel[t]
    BY <2>1 DEF Sent
  <2>2. CASE channel'[t] = Append(channel[t], frame)
    <3>1. Sent(t)' = written[t] \o Append(channel[t], frame)
      BY <2>2 DEF Sent
    <3>2. Sent(t) = written[t] \o channel[t]
      BY DEF Sent
    <3> QED
      BY <1>1, <3>1, <3>2, ConcatAppendBefore
  <2> QED
    BY <2>1, <2>2
<1>3. \A t \in Sessions : channel'[t] \in Seq(Frames)
  BY <1>1
<1> QED
  BY <1>2, <1>3

\* The router or a room hands message i to its recipients and starts its write.
LEMMA BeginStep ==
    ASSUME ChatInv, NEW i \in Ids, NEW frame \in Frames,
           outcome[i] = "unanswered", BeginWrite(i),
           FewerInbox, inbox' \in Seq(InboxMessages),
           \A m \in Chats : Contains(inbox', m) => m.id # i,
           written' = written, channel' = [t \in Sessions |-> channel'[t]],
           \A t \in Sessions : channel'[t] \in {channel[t], Append(channel[t], frame)},
           UNCHANGED <<acks, nextId, draft, author, waiting>>,
           \/ \E r \in RoomIds : frame = RoomMessage(r, i)
           \/ /\ frame = DirectMessage(i)
              /\ \E h \in Chats : h.id = i /\ Contains(inbox, h)
              /\ \A m \in Chats : Contains(inbox', m) /\ author[m.id] = author[i] => i < m.id
    PROVE  ChatInv' /\ MoreSent(frame)
<1>1. outcome' = [outcome EXCEPT ![i] = "writing"] /\ store' = store
  BY DEF BeginWrite, Writes!Begin
<1>2. MoreSent(frame) /\ channel' \in [Sessions -> Seq(Frames)]
  BY HandedOver DEF ChatInv
<1>3. /\ outcome' \in [Ids -> {"none", "unanswered", "RoomNotFound"} \cup Begun]
      /\ DraftInv' /\ InboxInv' /\ AckInv' /\ StoreInv'
      /\ \A j \in Ids : outcome[j] \in Begun => outcome'[j] \in Begun
  BY <1>1, OutcomeAdvances DEF Begun
<1>4. DeliveryTypeOK'
  BY <1>1, <1>2, <1>3 DEF ChatInv, DeliveryTypeOK
<1>5. outcome'[i] \in Begun
  BY <1>1 DEF ChatInv, DeliveryTypeOK, Begun
<1>6. \A j \in Ids : frame = DirectMessage(j) => j = i
  BY ChatFacts
<1>7. FrameInv'
  <2>1. ASSUME NEW t \in Sessions, NEW j \in Ids, Contains(Sent(t)', DirectMessage(j))
        PROVE  /\ outcome'[j] \in Begun
               /\ \A n \in Chats :
                      Contains(inbox', n) /\ author[n.id] = author[j] => j < n.id
               /\ \A u \in Sessions :
                      draft[u] # NoDraft /\ author[j] = u => j < draft[u].id
    <3>1. CASE Contains(Sent(t), DirectMessage(j))
      BY <1>3, <3>1 DEF ChatInv, FrameInv, FewerInbox
    <3>2. CASE frame = DirectMessage(j)
      <4>1. j = i
        BY <1>6, <3>2
      <4>2. \A r \in RoomIds : frame # RoomMessage(r, i)
        BY <3>2, ChatFacts
      <4>3. PICK h \in Chats : h.id = i /\ Contains(inbox, h)
        BY <4>2
      <4>4. \A u \in Sessions : draft[u] # NoDraft /\ author[j] = u => j < draft[u].id
        BY <4>1, <4>3 DEF ChatInv, InboxInv
      <4> QED
        BY <1>5, <4>1, <4>2, <4>4
    <3> QED
      BY <1>2, <2>1, <3>1, <3>2, ChatFacts DEF MoreSent
  <2>2. ASSUME NEW t \in Sessions, NEW r \in RoomIds, NEW j \in Ids,
               Contains(Sent(t)', RoomMessage(r, j))
        PROVE  outcome'[j] \in Begun
    <3>1. CASE Contains(Sent(t), RoomMessage(r, j))
      BY <1>3, <3>1 DEF ChatInv, FrameInv
    <3>2. CASE frame = RoomMessage(r, j)
      <4>1. j = i
        BY <3>2, ChatFacts
      <4> QED
        BY <1>5, <4>1
    <3> QED
      BY <1>2, <2>2, <3>1, <3>2, ChatFacts DEF MoreSent
  <2> QED
    BY <2>1, <2>2 DEF FrameInv
<1>8. SenderOrderKept'
  <2>1. ASSUME NEW t \in Sessions, NEW x \in Ids, NEW y \in Ids,
               Before(Sent(t)', DirectMessage(x), DirectMessage(y)),
               author[x] = author[y]
        PROVE  x < y
    <3>1. CASE Before(Sent(t), DirectMessage(x), DirectMessage(y))
      BY <2>1, <3>1 DEF ChatInv, SenderOrderKept
    <3>2. CASE Contains(Sent(t), DirectMessage(x)) /\ DirectMessage(y) = frame
      <4>1. y = i
        BY <1>6, <3>2
      <4>2. PICK h \in Chats : h.id = i /\ Contains(inbox, h)
        BY <3>2, ChatFacts
      <4> QED
        BY <2>1, <3>2, <4>1, <4>2 DEF ChatInv, FrameInv
    <3> QED
      BY <1>2, <2>1, <3>1, <3>2, ChatFacts DEF MoreSent
  <2> QED
    BY <2>1 DEF SenderOrderKept
<1> QED
  BY <1>2, <1>3, <1>4, <1>7, <1>8 DEF ChatInv

\* The router takes a chat message out of its channel: what is left of the
\* same author is younger.
LEMMA ReceiveChat ==
    ASSUME ChatInv, NEW type, Receive(type), Head(inbox) \in Chats
    PROVE  /\ outcome[Head(inbox).id] = "unanswered" /\ Head(inbox).id \in Ids
           /\ \A m \in Chats : Contains(inbox', m) =>
                  /\ m.id # Head(inbox).id
                  /\ author[m.id] = author[Head(inbox).id] => Head(inbox).id < m.id
<1> DEFINE h == Head(inbox)
<1>1. /\ FewerInbox /\ Contains(inbox, h)
      /\ \A m : Contains(inbox', m) => Before(inbox, h, m)
  BY ReceiveFewer DEF ChatInv
<1> HIDE DEF h
<1>2. h \in Chats
  BY DEF h
<1>3. outcome[h.id] = "unanswered" /\ h.id \in Ids
  BY <1>1, <1>2, ChatFacts DEF ChatInv, InboxInv
<1>4. \A m \in Chats : Contains(inbox', m) /\ author[m.id] = author[h.id] => h.id < m.id
  BY <1>1, <1>2 DEF ChatInv, InboxInv
<1>5. h.id \in Nat
  BY <1>3, SizeAssumption DEF Ids
<1>6. ASSUME NEW m \in Chats, Contains(inbox', m) PROVE m.id # h.id
  <2>1. CASE m.id = h.id
    <3>1. h.id < h.id
      BY <1>4, <1>6, <2>1
    <3>2. \A x \in Nat : ~(x < x)
      OBVIOUS
    <3> QED
      BY <1>5, <3>1, <3>2
  <2> QED
    BY <2>1
<1> QED
  BY <1>3, <1>4, <1>6 DEF h

LEMMA HandleDirectMessageStep ==
    ASSUME ChatInv, HandleDirectMessage
    PROVE  ChatInv'
<1> DEFINE h == Head(inbox)
           i == Head(inbox).id
<1>1. /\ Receive("SendDirectMessage") /\ BeginWrite(i) /\ channel' = Forward(h.to, i)
      /\ UNCHANGED <<acks, written, nextId, draft, author, waiting>>
  BY DEF HandleDirectMessage
<1>2. /\ FewerInbox /\ inbox' \in Seq(InboxMessages) /\ Contains(inbox, h)
      /\ h \in InboxMessages /\ h.type = "SendDirectMessage"
  BY <1>1, ReceiveFewer DEF ChatInv
<1>3. h \in Chats
  BY <1>2 DEF InboxMessages, Chats, RegistryMessages, RoomRequests, RegisterUser, UnregisterUser
<1>4. /\ outcome[i] = "unanswered" /\ i \in Ids
      /\ \A m \in Chats : Contains(inbox', m) =>
             m.id # i /\ (author[m.id] = author[i] => i < m.id)
  BY <1>1, <1>3, ReceiveChat
<1>5. DirectMessage(i) \in Frames
  BY <1>4, ChatFacts
<1> HIDE DEF i
<1>6. /\ channel' = [t \in Sessions |-> channel'[t]]
      /\ \A t \in Sessions : channel'[t] \in {channel[t], Append(channel[t], DirectMessage(i))}
  <2>1. channel \in [Sessions -> Seq(Frames)]
    BY DEF ChatInv, DeliveryTypeOK
  <2>2. \/ channel' = channel
        \/ channel' = [channel EXCEPT ![users[h.to]] = Append(@, DirectMessage(i))]
    BY <1>1 DEF Forward, TrySend
  <2> QED
    BY <2>1, <2>2
<1>7. h.id = i
  BY DEF i
<1> QED
  BY <1>1, <1>2, <1>3, <1>4, <1>5, <1>6, <1>7, BeginStep

-----------------------------------------------------------------------------
(* The invariant of direct messages *)

LEMMA DeliveryInitInv ==
    ASSUME Init, DeliveryInit
    PROVE  ChatInv
<1>1. << >> \in Seq(InboxMessages) /\ << >> \in Seq(Frames) /\ << >> \in Seq(AckFrames)
      /\ << >> \in Seq(Outgoing)
  BY EmptySeq
<1>2. DeliveryTypeOK
  BY <1>1 DEF Init, DeliveryInit, DeliveryTypeOK, Begun
<1>3. \A s \in Sessions : Sent(s) = << >> /\ SentAcks(s) = << >>
  <2>1. << >> \o << >> = << >>
    BY ConcatEmptySeq, <1>1
  <2> QED
    BY <2>1 DEF DeliveryInit, Sent, SentAcks
<1>4. DraftInv /\ StoreInv
  BY DEF DeliveryInit, DraftInv, StoreInv
<1>5. InboxInv
  BY EmptyBefore DEF Init, InboxInv
<1>6. FrameInv /\ AckInv /\ SenderOrderKept
  BY <1>3, EmptyBefore DEF FrameInv, AckInv, SenderOrderKept
<1> QED
  BY <1>2, <1>4, <1>5, <1>6 DEF ChatInv

LEMMA StutterKeeps ==
    ASSUME ChatInv, UNCHANGED dmVars
    PROVE  ChatInv' /\ NothingDelivered
<1>1. UNCHANGED <<inbox, channel, acks, written, messageVars>>
  BY DEF dmVars, vars, deliveryVars, messageVars
<1>2. DeliveryTypeOK'
  BY <1>1 DEF ChatInv, DeliveryTypeOK, messageVars
<1> QED
  BY <1>1, <1>2, SameInbox, SameSent, SameAcks, FewerKeeps

LEMMA DeliveryKeeps ==
    ASSUME ChatInv, NEW s \in Sessions, DeliveryStep(s)
    PROVE  ChatInv' /\ NothingDelivered
  BY SendDraftStep, WriteMessageStep, WriteAckStep DEF DeliveryStep

LEMMA PersistKeeps ==
    ASSUME ChatInv, NEW i \in Ids, PersistStep(i)
    PROVE  ChatInv' /\ NothingDelivered
  BY TakesEffectStep, ReturnsStep, AcknowledgeStep DEF PersistStep

\* ChatInv holds of every behaviour of the sessions, the router and the writes
\* with direct messages.
THEOREM DirectMessageInvariant == DMSpec => []ChatInv
<1>1. DMInit => ChatInv
  BY DeliveryInitInv DEF DMInit
<1>2. ASSUME ChatInv, [DMNext]_dmVars PROVE ChatInv'
  <2>1. CASE RegistryStep
    BY <1>2, <2>1, RegistryKeeps
  <2>2. CASE HandleDirectMessage
    BY <1>2, <2>2, HandleDirectMessageStep
  <2>3. ASSUME NEW s \in Sessions, LifeCycleStep(s) PROVE ChatInv'
    BY <1>2, <2>3, LifeCycleKeeps
  <2>4. ASSUME NEW s \in Sessions, DeliveryStep(s) PROVE ChatInv'
    BY <1>2, <2>4, DeliveryKeeps
  <2>5. ASSUME NEW s \in Sessions, NEW to \in Users, ReceiveDirectMessage(s, to)
        PROVE  ChatInv'
    <3> DEFINE m == [type |-> "SendDirectMessage", id |-> nextId, to |-> to]
    <3>1. Number(s, m) /\ nextId \in Ids
      BY <2>5 DEF ReceiveDirectMessage, Number
    <3>2. m \in Chats /\ m.id = nextId
      BY <3>1 DEF Chats
    <3> HIDE DEF m
    <3> QED
      BY <1>2, <3>1, <3>2, NumberStep
  <2>6. ASSUME NEW i \in Ids, PersistStep(i) PROVE ChatInv'
    BY <1>2, <2>6, PersistKeeps
  <2>7. CASE UNCHANGED dmVars
    BY <1>2, <2>7, StutterKeeps
  <2> QED
    BY <1>2, <2>1, <2>2, <2>3, <2>4, <2>5, <2>6, <2>7 DEF DMNext
<1> QED
  BY <1>1, <1>2, PTL DEF DMSpec

\* The receive task, the router's channel and the recipient's try_send never
\* reorder or repeat one sender's messages on their way to a recipient.
THEOREM OrderOfSenderKept == DMSpec => []SenderOrderKept
<1>1. ChatInv => SenderOrderKept
  BY DEF ChatInv
<1> QED
  BY <1>1, DirectMessageInvariant, PTL

LEMMA AckTrue ==
    ASSUME ChatInv
    PROVE  AckTellsTheTruth
  BY ChatFacts DEF ChatInv, AckInv, StoreInv, AckTellsTheTruth

\* A MessageAck of a direct message tells what persistence answered, at most once
\* and to the session that sent the message; Persisted means that it is stored.
THEOREM DirectMessageAckTrue == DMSpec => []AckTellsTheTruth
  BY DirectMessageInvariant, AckTrue, PTL

-----------------------------------------------------------------------------
(* Rooms *)

Post(i) == [type |-> "SendMessage", id |-> i]

RoomMessages ==
    [type : {"AddMember"}, user : Users, sender : Sessions]
        \cup [type : {"RemoveMember"}, user : Users]
        \cup {Post(i) : i \in Ids}

RoomTypeOK ==
    /\ roomInbox \in [RoomIds -> Seq(RoomMessages)]
    /\ members \in [RoomIds -> [Users -> Sessions \cup {None}]]

\* A message a room has still to handle is nowhere else: not with the router,
\* not with another room, and not a second time in the room's channel.
PostInv ==
    \A r \in RoomIds, i \in Ids : Contains(roomInbox[r], Post(i)) =>
        /\ outcome[i] = "unanswered"
        /\ ~Before(roomInbox[r], Post(i), Post(i))
        /\ \A q \in RoomIds : Contains(roomInbox[q], Post(i)) => q = r
        /\ \A m \in Chats : Contains(inbox, m) => m.id # i

RoomInv == ChatInv /\ RoomTypeOK /\ PostInv /\ SameOrderForAll

LEMMA PostFacts ==
    /\ \A i \in Ids : Post(i) \in RoomMessages
    /\ \A i, j : Post(i) = Post(j) => i = j
    /\ \A u, t, i : [type |-> "AddMember", user |-> u, sender |-> t] # Post(i)
    /\ \A u, i : [type |-> "RemoveMember", user |-> u] # Post(i)
    /\ \A m \in RoomMessages : m.type = "SendMessage" => m.id \in Ids /\ m = Post(m.id)
    /\ \A m \in RoomMessages : m.type = "AddMember" => m.user \in Users /\ m.sender \in Sessions
<1>1. \A i \in Ids : Post(i) \in RoomMessages
  BY DEF RoomMessages
<1>2. \A i, j : Post(i) = Post(j) => i = j
  BY DEF Post
<1>3. /\ \A u, t, i : [type |-> "AddMember", user |-> u, sender |-> t] # Post(i)
      /\ \A u, i : [type |-> "RemoveMember", user |-> u] # Post(i)
  BY DEF Post
<1>4. \A m \in RoomMessages : m.type = "SendMessage" => m.id \in Ids /\ m = Post(m.id)
  <2> SUFFICES ASSUME NEW m \in RoomMessages, m.type = "SendMessage"
               PROVE  m.id \in Ids /\ m = Post(m.id)
    OBVIOUS
  <2>1. PICK i \in Ids : m = Post(i)
    BY DEF RoomMessages
  <2>2. Post(i).id = i
    BY DEF Post
  <2> QED
    BY <2>1, <2>2
<1>5. \A m \in RoomMessages : m.type = "AddMember" => m.user \in Users /\ m.sender \in Sessions
  BY DEF RoomMessages, Post
<1> QED
  BY <1>1, <1>2, <1>3, <1>4, <1>5

FewerPosts ==
    \A r \in RoomIds, i \in Ids :
        /\ Contains(roomInbox'[r], Post(i)) => Contains(roomInbox[r], Post(i))
        /\ Before(roomInbox'[r], Post(i), Post(i)) => Before(roomInbox[r], Post(i), Post(i))

\* A step that neither posts a message nor delivers one.
LEMMA QuietKeeps ==
    ASSUME RoomInv, ChatInv', RoomTypeOK', FewerPosts, NothingDelivered
    PROVE  RoomInv'
<1>1. PostInv'
  <2> SUFFICES ASSUME NEW r \in RoomIds, NEW i \in Ids, Contains(roomInbox'[r], Post(i))
               PROVE  /\ outcome'[i] = "unanswered"
                      /\ ~Before(roomInbox'[r], Post(i), Post(i))
                      /\ \A q \in RoomIds : Contains(roomInbox'[q], Post(i)) => q = r
                      /\ \A m \in Chats : Contains(inbox', m) => m.id # i
    BY DEF PostInv
  <2>1. /\ outcome[i] = "unanswered"
        /\ ~Before(roomInbox[r], Post(i), Post(i))
        /\ \A q \in RoomIds : Contains(roomInbox[q], Post(i)) => q = r
        /\ \A m \in Chats : Contains(inbox, m) => m.id # i
    BY DEF RoomInv, PostInv, FewerPosts
  <2>2. outcome'[i] = "unanswered"
    BY <2>1 DEF NothingDelivered
  <2>3. \A m \in Chats : Contains(inbox', m) => m.id # i
    BY <2>1 DEF NothingDelivered
  <2> QED
    BY <2>1, <2>2, <2>3 DEF FewerPosts
<1>2. SameOrderForAll'
  BY ChatFacts DEF RoomInv, SameOrderForAll, NothingDelivered, FewerSent
<1> QED
  BY <1>1, <1>2 DEF RoomInv

LEMMA UntouchedRooms ==
    ASSUME RoomInv, UNCHANGED <<roomInbox, members>>
    PROVE  RoomTypeOK' /\ FewerPosts
  BY DEF RoomInv, RoomTypeOK, FewerPosts

\* A message that is not a post is sent to room r.
LEMMA MemberRequest ==
    ASSUME RoomInv, NEW r \in RoomIds, NEW m \in RoomMessages,
           \A i \in Ids : m # Post(i), ToRoom(r, m), UNCHANGED members
    PROVE  RoomTypeOK' /\ FewerPosts
<1>1. roomInbox \in [RoomIds -> Seq(RoomMessages)]
  BY DEF RoomInv, RoomTypeOK
<1> DEFINE new == Append(roomInbox[r], m)
<1>2. roomInbox' = [roomInbox EXCEPT ![r] = new]
  BY DEF ToRoom
<1>3. /\ new \in Seq(RoomMessages)
      /\ \A x : Contains(new, x) <=> Contains(roomInbox[r], x) \/ x = m
      /\ \A x, y : Before(new, x, y)
                       <=> Before(roomInbox[r], x, y) \/ (Contains(roomInbox[r], x) /\ y = m)
  <2>1. roomInbox[r] \in Seq(RoomMessages)
    BY <1>1
  <2> QED
    BY <2>1, AppendBefore
<1> HIDE DEF new
<1>4. RoomTypeOK'
  BY <1>1, <1>2, <1>3 DEF RoomInv, RoomTypeOK
<1>5. FewerPosts
  BY <1>1, <1>2, <1>3 DEF FewerPosts
<1> QED
  BY <1>4, <1>5

\* Room r takes its oldest message.
LEMMA RoomReceiveFewer ==
    ASSUME RoomInv, NEW r \in RoomIds, NEW type, RoomReceive(r, type)
    PROVE  /\ FewerPosts /\ roomInbox' \in [RoomIds -> Seq(RoomMessages)]
           /\ Head(roomInbox[r]) \in RoomMessages /\ Head(roomInbox[r]).type = type
           /\ Contains(roomInbox[r], Head(roomInbox[r]))
           /\ \A q \in RoomIds : q # r => roomInbox'[q] = roomInbox[q]
           /\ \A m : Contains(roomInbox'[r], m) => Before(roomInbox[r], Head(roomInbox[r]), m)
<1>1. roomInbox \in [RoomIds -> Seq(RoomMessages)]
  BY DEF RoomInv, RoomTypeOK
<1> DEFINE q0 == roomInbox[r]
<1>2. /\ q0 \in Seq(RoomMessages) /\ q0 # << >> /\ Head(q0).type = type
      /\ roomInbox' = [roomInbox EXCEPT ![r] = Tail(q0)]
  BY <1>1 DEF RoomReceive
<1> HIDE DEF q0
<1>3. /\ Tail(q0) \in Seq(RoomMessages) /\ Head(q0) \in RoomMessages
      /\ \A x : Contains(q0, x) <=> x = Head(q0) \/ Contains(Tail(q0), x)
      /\ \A x, y : Before(q0, x, y) <=>
             Before(Tail(q0), x, y) \/ (x = Head(q0) /\ Contains(Tail(q0), y))
  BY <1>2, TailBefore
<1>4. /\ roomInbox'[r] = Tail(q0) /\ roomInbox[r] = q0
      /\ \A q \in RoomIds : q # r => roomInbox'[q] = roomInbox[q]
  BY <1>1, <1>2 DEF q0
<1>5. roomInbox' \in [RoomIds -> Seq(RoomMessages)]
  BY <1>1, <1>2, <1>3
<1>6. FewerPosts
  <2> SUFFICES ASSUME NEW q \in RoomIds, NEW i \in Ids
               PROVE  /\ Contains(roomInbox'[q], Post(i)) => Contains(roomInbox[q], Post(i))
                      /\ Before(roomInbox'[q], Post(i), Post(i))
                             => Before(roomInbox[q], Post(i), Post(i))
    BY DEF FewerPosts
  <2> QED
    BY <1>3, <1>4
<1> QED
  BY <1>2, <1>3, <1>4, <1>5, <1>6

\* Steps of the router and the rooms that leave the messages alone.
LEMMA QuietChat ==
    ASSUME RoomInv, FewerInbox, inbox' \in Seq(InboxMessages), UNCHANGED deliveryVars
    PROVE  ChatInv' /\ NothingDelivered
<1>1. DeliveryTypeOK /\ ChatInv
  BY DEF RoomInv, ChatInv
<1>2. DeliveryTypeOK' /\ UNCHANGED <<messageVars, channel, acks, written>>
  BY <1>1 DEF DeliveryTypeOK, deliveryVars, messageVars
<1> QED
  BY <1>1, <1>2, SameSent, SameAcks, FewerKeeps

LEMMA RequestStep ==
    ASSUME RoomInv, NEW m \in RoomRequests, Request(m),
           UNCHANGED <<deliveryVars, roomInbox, members>>
    PROVE  RoomInv'
<1>1. FewerInbox /\ inbox' \in Seq(InboxMessages)
  <2>1. DeliveryTypeOK /\ inbox' = Append(inbox, m)
    BY DEF RoomInv, ChatInv, Request
  <2> QED
    BY <2>1, RequestFewer
<1>2. ChatInv' /\ NothingDelivered
  BY <1>1, QuietChat
<1> QED
  BY <1>2, UntouchedRooms, QuietKeeps

LEMMA HandleJoinRoomStep ==
    ASSUME RoomInv, HandleJoinRoom
    PROVE  RoomInv'
<1> DEFINE m == Head(inbox)
           add == [type |-> "AddMember", user |-> m.user, sender |-> m.sender]
<1>1. /\ Receive("JoinRoom") /\ ToRoom(m.room, add)
      /\ UNCHANGED <<deliveryVars, members>>
  BY DEF HandleJoinRoom
<1>2. /\ FewerInbox /\ inbox' \in Seq(InboxMessages)
      /\ m \in InboxMessages /\ m.type = "JoinRoom"
  BY <1>1, ReceiveFewer DEF RoomInv, ChatInv
<1>3. m.room \in RoomIds /\ m.user \in Users /\ m.sender \in Sessions
  BY <1>2 DEF InboxMessages, RoomRequests, Chats, RegistryMessages, RegisterUser, UnregisterUser
<1>4. add \in RoomMessages /\ \A i \in Ids : add # Post(i)
  BY <1>3, PostFacts DEF RoomMessages
<1> HIDE DEF add, m
<1>5. RoomTypeOK' /\ FewerPosts
  BY <1>1, <1>3, <1>4, MemberRequest
<1>6. ChatInv' /\ NothingDelivered
  BY <1>1, <1>2, QuietChat
<1> QED
  BY <1>5, <1>6, QuietKeeps

LEMMA HandleLeaveRoomStep ==
    ASSUME RoomInv, HandleLeaveRoom
    PROVE  RoomInv'
<1> DEFINE m == Head(inbox)
           remove == [type |-> "RemoveMember", user |-> m.user]
<1>1. /\ ToRoom(m.room, remove) \/ UNCHANGED roomInbox
      /\ UNCHANGED <<deliveryVars, members>>
  BY DEF HandleLeaveRoom
<1>2. /\ FewerInbox /\ inbox' \in Seq(InboxMessages)
      /\ m \in InboxMessages /\ m.type = "LeaveRoom"
  <2>1. Receive("LeaveRoom")
    BY DEF HandleLeaveRoom
  <2> QED
    BY <2>1, ReceiveFewer DEF RoomInv, ChatInv
<1>3. m.room \in RoomIds /\ m.user \in Users
  BY <1>2 DEF InboxMessages, RoomRequests, Chats, RegistryMessages, RegisterUser, UnregisterUser
<1>4. remove \in RoomMessages /\ \A i \in Ids : remove # Post(i)
  BY <1>3, PostFacts DEF RoomMessages
<1> HIDE DEF remove, m
<1>5. RoomTypeOK' /\ FewerPosts
  BY <1>1, <1>3, <1>4, MemberRequest, UntouchedRooms
<1>6. ChatInv' /\ NothingDelivered
  BY <1>1, <1>2, QuietChat
<1> QED
  BY <1>5, <1>6, QuietKeeps

\* The router hands a message to its room, or answers that there is none.
LEMMA HandleRoomMessageStep ==
    ASSUME RoomInv, HandleRoomMessage
    PROVE  RoomInv'
<1> DEFINE m == Head(inbox)
           i == Head(inbox).id
           r == Head(inbox).room
<1>1. /\ Receive("SendRoomMessage")
      /\ UNCHANGED <<channel, acks, written, nextId, draft, author, waiting, store, members>>
      /\ \/ ToRoom(r, Post(i)) /\ UNCHANGED outcome
         \/ outcome' = [outcome EXCEPT ![i] = "RoomNotFound"] /\ UNCHANGED roomInbox
  BY DEF HandleRoomMessage, channelVars, Post
<1>2. /\ FewerInbox /\ inbox' \in Seq(InboxMessages) /\ Contains(inbox, m)
      /\ m \in InboxMessages /\ m.type = "SendRoomMessage" /\ ChatInv
  BY <1>1, ReceiveFewer DEF RoomInv, ChatInv
<1>3. m \in Chats /\ r \in RoomIds
  BY <1>2 DEF InboxMessages, RoomRequests, Chats, RegistryMessages, RegisterUser, UnregisterUser
<1>4. /\ outcome[i] = "unanswered" /\ i \in Ids
      /\ \A n \in Chats : Contains(inbox', n) => n.id # i
  BY <1>1, <1>2, <1>3, ReceiveChat
<1>5. \A q \in RoomIds : ~Contains(roomInbox[q], Post(i))
  BY <1>2, <1>3, <1>4 DEF RoomInv, PostInv
<1> HIDE DEF i, r, m
<1>6. CASE ToRoom(r, Post(i)) /\ UNCHANGED outcome
  <2>1. ChatInv' /\ NothingDelivered
    BY <1>1, <1>2, <1>6, QuietChat DEF deliveryVars
  <2> DEFINE new == Append(roomInbox[r], Post(i))
  <2>2. roomInbox \in [RoomIds -> Seq(RoomMessages)]
    BY DEF RoomInv, RoomTypeOK
  <2>3. roomInbox' = [roomInbox EXCEPT ![r] = new]
    BY <1>6 DEF ToRoom
  <2>4. /\ new \in Seq(RoomMessages)
        /\ \A x : Contains(new, x) <=> Contains(roomInbox[r], x) \/ x = Post(i)
        /\ \A x, y : Before(new, x, y) <=>
               Before(roomInbox[r], x, y) \/ (Contains(roomInbox[r], x) /\ y = Post(i))
    <3>1. roomInbox[r] \in Seq(RoomMessages) /\ Post(i) \in RoomMessages
      BY <1>3, <1>4, <2>2, PostFacts
    <3> QED
      BY <3>1, AppendBefore
  <2> HIDE DEF new
  <2>5. \A q \in RoomIds : roomInbox'[q] = IF q = r THEN new ELSE roomInbox[q]
    BY <2>2, <2>3
  <2>6. RoomTypeOK'
    BY <1>1, <2>2, <2>3, <2>4 DEF RoomInv, RoomTypeOK
  <2>7. PostInv'
    <3> SUFFICES ASSUME NEW q \in RoomIds, NEW j \in Ids, Contains(roomInbox'[q], Post(j))
                 PROVE  /\ outcome'[j] = "unanswered"
                        /\ ~Before(roomInbox'[q], Post(j), Post(j))
                        /\ \A p \in RoomIds : Contains(roomInbox'[p], Post(j)) => p = q
                        /\ \A n \in Chats : Contains(inbox', n) => n.id # j
      BY DEF PostInv
    <3>1. CASE j = i
      <4>1. \A p \in RoomIds : Contains(roomInbox'[p], Post(i)) => p = r
        BY <1>5, <2>5
      <4>2. q = r /\ ~Before(new, Post(i), Post(i))
        BY <1>3, <1>5, <2>4, <3>1, <4>1, BeforeContains
      <4> QED
        BY <1>3, <1>4, <1>6, <2>5, <3>1, <4>1, <4>2
    <3>2. CASE j # i
      <4>1. \A p \in RoomIds : Contains(roomInbox'[p], Post(j)) => Contains(roomInbox[p], Post(j))
        BY <2>4, <2>5, <3>2, PostFacts
      <4>2. \A p \in RoomIds : Before(roomInbox'[p], Post(j), Post(j))
                                   => Before(roomInbox[p], Post(j), Post(j))
        BY <2>4, <2>5, <3>2, PostFacts
      <4>3. /\ outcome[j] = "unanswered"
            /\ ~Before(roomInbox[q], Post(j), Post(j))
            /\ \A p \in RoomIds : Contains(roomInbox[p], Post(j)) => p = q
            /\ \A n \in Chats : Contains(inbox, n) => n.id # j
        BY <4>1 DEF RoomInv, PostInv
      <4> QED
        BY <1>2, <1>6, <4>1, <4>2, <4>3 DEF FewerInbox
    <3> QED
      BY <3>1, <3>2
  <2>8. SameOrderForAll'
    BY <2>1, ChatFacts DEF RoomInv, SameOrderForAll, NothingDelivered, FewerSent
  <2> QED
    BY <2>1, <2>6, <2>7, <2>8 DEF RoomInv
<1>7. CASE outcome' = [outcome EXCEPT ![i] = "RoomNotFound"] /\ UNCHANGED roomInbox
  <2>1. /\ outcome' \in [Ids -> {"none", "unanswered", "RoomNotFound"} \cup Begun]
        /\ DraftInv' /\ InboxInv' /\ AckInv' /\ StoreInv'
    BY <1>1, <1>2, <1>4, <1>7, OutcomeAdvances
  <2>2. \A t \in Sessions : Sent(t)' = Sent(t)
    BY <1>1 DEF Sent
  <2>3. \A j \in Ids : j # i => outcome'[j] = outcome[j]
    BY <1>7 DEF RoomInv, ChatInv, DeliveryTypeOK
  <2>4. \A j \in Ids : outcome[j] \in Begun => outcome'[j] \in Begun
    BY <1>4, <2>3 DEF Begun
  <2>5. FrameInv' /\ SenderOrderKept' /\ SameOrderForAll'
    BY <1>1, <1>2, <2>2, <2>4
       DEF RoomInv, ChatInv, FrameInv, SenderOrderKept, SameOrderForAll, FewerInbox
  <2>6. DeliveryTypeOK'
    BY <1>1, <1>2, <2>1 DEF ChatInv, DeliveryTypeOK
  <2>7. RoomTypeOK'
    BY <1>1, <1>7 DEF RoomInv, RoomTypeOK
  <2>8. PostInv'
    BY <1>2, <1>5, <1>7, <2>3 DEF RoomInv, PostInv, FewerInbox
  <2> QED
    BY <2>1, <2>5, <2>6, <2>7, <2>8 DEF RoomInv, ChatInv
<1> QED
  BY <1>1, <1>6, <1>7

\* The members change, the messages do not.
LEMMA MembersStep ==
    ASSUME RoomInv, NEW r \in RoomIds,
           HandleAddMember(r) \/ HandleRemoveMember(r) \/ Cleanup(r)
    PROVE  RoomInv'
<1>1. ChatInv' /\ NothingDelivered
  <2>1. UNCHANGED dmVars /\ ChatInv
    BY DEF RoomInv, HandleAddMember, HandleRemoveMember, Cleanup, dmVars
  <2> QED
    BY <2>1, StutterKeeps
<1>2. FewerPosts /\ roomInbox' \in [RoomIds -> Seq(RoomMessages)]
  <2>1. CASE HandleAddMember(r) \/ HandleRemoveMember(r)
    BY <2>1, RoomReceiveFewer DEF HandleAddMember, HandleRemoveMember
  <2>2. CASE Cleanup(r)
    BY <2>2 DEF Cleanup, RoomInv, RoomTypeOK, FewerPosts
  <2> QED
    BY <2>1, <2>2
<1>3. members' \in [RoomIds -> [Users -> Sessions \cup {None}]]
  <2>1. members \in [RoomIds -> [Users -> Sessions \cup {None}]]
    BY DEF RoomInv, RoomTypeOK
  <2>2. CASE HandleAddMember(r)
    <3>1. Head(roomInbox[r]).user \in Users /\ Head(roomInbox[r]).sender \in Sessions
      BY <2>2, RoomReceiveFewer, PostFacts DEF HandleAddMember
    <3>2. \/ members' = members
          \/ members' = [members EXCEPT ![r][Head(roomInbox[r]).user] = Head(roomInbox[r]).sender]
      BY <2>2 DEF HandleAddMember
    <3> QED
      BY <2>1, <3>1, <3>2
  <2>3. CASE HandleRemoveMember(r)
    <3>1. members' = [members EXCEPT ![r][Head(roomInbox[r]).user] = None]
      BY <2>3 DEF HandleRemoveMember
    <3> QED
      BY <2>1, <3>1
  <2>4. CASE Cleanup(r)
    <3>1. Retained(r) \in [Users -> Sessions \cup {None}]
      BY <2>1 DEF Retained
    <3> QED
      BY <2>1, <2>4, <3>1 DEF Cleanup
  <2> QED
    BY <2>2, <2>3, <2>4
<1> QED
  BY <1>1, <1>2, <1>3, QuietKeeps DEF RoomTypeOK

\* The broadcast: message i of room r is new to everybody, and comes last.
LEMMA HandleSendMessageStep ==
    ASSUME RoomInv, NEW r \in RoomIds, HandleSendMessage(r)
    PROVE  RoomInv'
<1> DEFINE m == Head(roomInbox[r])
           i == Head(roomInbox[r]).id
           frame == RoomMessage(r, i)
<1>1. /\ RoomReceive(r, "SendMessage") /\ BeginWrite(i) /\ channel' = Broadcast(r, frame)
      /\ UNCHANGED <<inbox, acks, written, nextId, draft, author, waiting, members>>
  BY DEF HandleSendMessage, vars
<1>2. /\ FewerPosts /\ roomInbox' \in [RoomIds -> Seq(RoomMessages)]
      /\ m \in RoomMessages /\ m.type = "SendMessage" /\ Contains(roomInbox[r], m)
      /\ \A q \in RoomIds : q # r => roomInbox'[q] = roomInbox[q]
      /\ \A x : Contains(roomInbox'[r], x) => Before(roomInbox[r], m, x)
  BY <1>1, RoomReceiveFewer
<1>3. i \in Ids /\ m = Post(i)
  BY <1>2, PostFacts
<1> HIDE DEF m, i
<1>4. /\ outcome[i] = "unanswered"
      /\ ~Before(roomInbox[r], Post(i), Post(i))
      /\ \A q \in RoomIds : Contains(roomInbox[q], Post(i)) => q = r
      /\ \A n \in Chats : Contains(inbox, n) => n.id # i
  BY <1>2, <1>3 DEF RoomInv, PostInv
<1>5. frame \in Frames
  BY <1>3, ChatFacts
<1>6. /\ channel' = [t \in Sessions |-> channel'[t]]
      /\ \A t \in Sessions : channel'[t] \in {channel[t], Append(channel[t], frame)}
  <2> HIDE DEF frame
  <2>1. channel \in [Sessions -> Seq(Frames)]
    BY DEF RoomInv, ChatInv, DeliveryTypeOK
  <2>2. \A t \in Sessions : TrySend(channel, t, frame)[t] \in {channel[t], Append(channel[t], frame)}
    BY <2>1 DEF TrySend
  <2> QED
    BY <1>1, <2>2 DEF Broadcast
<1>7. ChatInv' /\ MoreSent(frame)
  <2>1. /\ ChatInv /\ FewerInbox /\ inbox' \in Seq(InboxMessages)
        /\ \A n \in Chats : Contains(inbox', n) => n.id # i
    BY <1>1, <1>4, SameInbox DEF RoomInv, ChatInv, DeliveryTypeOK
  <2> QED
    BY <1>1, <1>3, <1>4, <1>5, <1>6, <2>1, BeginStep
<1>8. RoomTypeOK'
  BY <1>1, <1>2 DEF RoomInv, RoomTypeOK
<1>9. PostInv'
  <2>1. outcome' = [outcome EXCEPT ![i] = "writing"]
    BY <1>1 DEF BeginWrite, Writes!Begin
  <2>2. \A q \in RoomIds : ~Contains(roomInbox'[q], Post(i))
    BY <1>2, <1>3, <1>4
  <2>3. \A j \in Ids : j # i => outcome'[j] = outcome[j]
    BY <2>1 DEF RoomInv, ChatInv, DeliveryTypeOK
  <2> QED
    BY <1>1, <1>2, <2>2, <2>3 DEF RoomInv, PostInv, FewerPosts
<1>10. \A t \in Sessions : ~Contains(Sent(t), frame)
  BY <1>3, <1>4 DEF RoomInv, ChatInv, FrameInv, Begun
<1>11. SameOrderForAll'
  <2> SUFFICES ASSUME NEW s \in Sessions, NEW t \in Sessions, NEW f \in Frames, NEW g \in Frames,
                      Before(Sent(s)', f, g), Before(Sent(t)', g, f)
               PROVE  Before(Sent(s), f, g) /\ Before(Sent(t), g, f)
    BY ChatFacts DEF RoomInv, SameOrderForAll
  <2>1. \/ Before(Sent(s), f, g)
        \/ Contains(Sent(s), f) /\ g = frame
    BY <1>7 DEF MoreSent
  <2>2. \/ Before(Sent(t), g, f)
        \/ Contains(Sent(t), g) /\ f = frame
    BY <1>7 DEF MoreSent
  <2>3. f # frame
    BY <1>10, <2>1, BeforeContains
  <2>4. g # frame
    BY <1>10, <2>2, BeforeContains
  <2> QED
    BY <2>1, <2>2, <2>3, <2>4
<1> QED
  BY <1>7, <1>8, <1>9, <1>11 DEF RoomInv

\* RoomInv holds of every behaviour of the sessions, the router, the rooms and the
\* writes.
THEOREM RoomInvariant == RoomSpec => []RoomInv
<1>1. RoomInit => RoomInv
  <2> SUFFICES ASSUME RoomInit PROVE RoomInv
    OBVIOUS
  <2>1. ChatInv
    BY DeliveryInitInv DEF RoomInit
  <2>2. RoomTypeOK
    BY EmptySeq DEF RoomInit, RoomTypeOK
  <2>3. PostInv
    BY EmptyBefore DEF RoomInit, PostInv
  <2>4. SameOrderForAll
    <3>1. \A s \in Sessions : Sent(s) = << >>
      BY ConcatEmptySeq, EmptySeq DEF RoomInit, DeliveryInit, Sent
    <3> QED
      BY <3>1, EmptyBefore DEF SameOrderForAll
  <2> QED
    BY <2>1, <2>2, <2>3, <2>4 DEF RoomInv
<1>2. ASSUME RoomInv, [RoomNext]_chatVars PROVE RoomInv'
  <2>1. ChatInv
    BY <1>2 DEF RoomInv
  <2>2. ASSUME UNCHANGED roomVars, ChatInv', NothingDelivered PROVE RoomInv'
    <3>1. UNCHANGED <<roomInbox, members>>
      BY <2>2 DEF roomVars
    <3> QED
      BY <1>2, <2>2, <3>1, UntouchedRooms, QuietKeeps
  <2>3. CASE RoomRouterStep
    BY <1>2, <2>1, <2>2, <2>3, RegistryKeeps, HandleJoinRoomStep, HandleLeaveRoomStep,
       HandleRoomMessageStep DEF RoomRouterStep
  <2>4. ASSUME NEW r \in RoomIds, RoomStep(r) \/ Cleanup(r) PROVE RoomInv'
    BY <1>2, <2>4, MembersStep, HandleSendMessageStep DEF RoomStep
  <2>5. ASSUME NEW s \in Sessions, LifeCycleStep(s) \/ DeliveryStep(s), UNCHANGED roomVars
        PROVE  RoomInv'
    BY <2>1, <2>2, <2>5, LifeCycleKeeps, DeliveryKeeps
  <2>6. ASSUME NEW s \in Sessions, NEW r \in RoomIds, ReceiveJoinRoom(s, r) PROVE RoomInv'
    <3> DEFINE m == [type |-> "JoinRoom", user |-> Owner[s], sender |-> s, room |-> r]
    <3>1. m \in RoomRequests
      BY OwnerAssumption DEF RoomRequests
    <3>2. Request(m) /\ UNCHANGED <<deliveryVars, roomInbox, members>>
      BY <2>6 DEF ReceiveJoinRoom
    <3> HIDE DEF m
    <3> QED
      BY <1>2, <3>1, <3>2, RequestStep
  <2>7. ASSUME NEW s \in Sessions, NEW r \in RoomIds, ReceiveRoomMessage(s, r) PROVE RoomInv'
    <3> DEFINE m == [type |-> "SendRoomMessage", id |-> nextId, room |-> r]
    <3>1. Number(s, m) /\ nextId \in Ids /\ UNCHANGED roomVars
      BY <2>7 DEF ReceiveRoomMessage, Number
    <3>2. m \in Chats /\ m.id = nextId
      BY <3>1 DEF Chats
    <3> HIDE DEF m
    <3> QED
      BY <2>1, <2>2, <3>1, <3>2, NumberStep
  <2>8. ASSUME NEW u \in Users, NEW r \in RoomIds, HostLeaveRoom(u, r) PROVE RoomInv'
    <3> DEFINE m == [type |-> "LeaveRoom", user |-> u, room |-> r]
    <3>1. m \in RoomRequests
      BY DEF RoomRequests
    <3>2. Request(m) /\ UNCHANGED <<deliveryVars, roomInbox, members>>
      BY <2>8 DEF HostLeaveRoom
    <3> HIDE DEF m
    <3> QED
      BY <1>2, <3>1, <3>2, RequestStep
  <2>9. ASSUME NEW i \in Ids, PersistStep(i), UNCHANGED roomVars PROVE RoomInv'
    BY <2>1, <2>2, <2>9, PersistKeeps
  <2>10. CASE UNCHANGED chatVars
    <3>1. UNCHANGED dmVars /\ UNCHANGED roomVars
      BY <2>10 DEF chatVars, dmVars
    <3> QED
      BY <2>1, <2>2, <3>1, StutterKeeps
  <2> QED
    BY <1>2, <2>3, <2>4, <2>5, <2>6, <2>7, <2>8, <2>9, <2>10 DEF RoomNext
<1> QED
  BY <1>1, <1>2, PTL DEF RoomSpec

\* The room actor's broadcast orders a room's messages once for all its members,
\* across full queues, joins, reconnections and the cleanup.
THEOREM RoomOrderForAll == RoomSpec => []SameOrderForAll
<1>1. RoomInv => SameOrderForAll
  BY DEF RoomInv
<1> QED
  BY <1>1, RoomInvariant, PTL

\* A message the router answers with "Room not found" is neither stored nor heard.
THEOREM UnknownRoomGoesNowhere == RoomSpec => []NotFoundGoesNowhere
<1>1. RoomInv => NotFoundGoesNowhere
  BY DEF RoomInv, ChatInv, StoreInv, FrameInv, NotFoundGoesNowhere, Begun
<1> QED
  BY <1>1, RoomInvariant, PTL

\* The same of the MessageAck of a room message, which may also say that there is
\* no such room.
THEOREM RoomAckTrue == RoomSpec => []AckTellsTheTruth
<1>1. RoomInv => AckTellsTheTruth
  BY AckTrue DEF RoomInv
<1> QED
  BY <1>1, RoomInvariant, PTL

\* No step but the room's RemoveMember takes a member out whose channel is open;
\* the cleanup's retain does not.
THEOREM OpenMembersStay == RoomSpec => OpenMemberStays
<1> DEFINE Stays(r, u) ==
        members[r][u] # None /\ members'[r][u] # members[r][u] =>
            \/ Closed(members[r][u])
            \/ /\ roomInbox[r] # << >>
               /\ Head(roomInbox[r]) = [type |-> "RemoveMember", user |-> u]
               /\ roomInbox'[r] = Tail(roomInbox[r])
<1>1. ASSUME RoomInv, [RoomNext]_chatVars, NEW r \in RoomIds, NEW u \in Users
      PROVE  Stays(r, u)
  <2>1. members \in [RoomIds -> [Users -> Sessions \cup {None}]]
    BY <1>1 DEF RoomInv, RoomTypeOK
  <2>2. CASE UNCHANGED members
    BY <2>2
  <2>3. ASSUME NEW q \in RoomIds, HandleAddMember(q) PROVE Stays(r, u)
    BY <2>1, <2>3 DEF HandleAddMember
  <2>4. ASSUME NEW q \in RoomIds, HandleRemoveMember(q) PROVE Stays(r, u)
    <3>1. /\ roomInbox[q] # << >> /\ Head(roomInbox[q]).type = "RemoveMember"
          /\ roomInbox' = [roomInbox EXCEPT ![q] = Tail(@)]
          /\ members' = [members EXCEPT ![q][Head(roomInbox[q]).user] = None]
      BY <2>4 DEF HandleRemoveMember, RoomReceive
    <3>2. roomInbox \in [RoomIds -> Seq(RoomMessages)]
      BY <1>1 DEF RoomInv, RoomTypeOK
    <3>3. Head(roomInbox[q]) \in RoomMessages
      BY <3>1, <3>2, HeadTailProperties
    <3>4. Head(roomInbox[q]) \in [type : {"RemoveMember"}, user : Users]
      BY <3>1, <3>3 DEF RoomMessages, Post
    <3>5. Head(roomInbox[q]) =
              [type |-> "RemoveMember", user |-> Head(roomInbox[q]).user]
      BY <3>4
    <3>6. roomInbox'[q] = Tail(roomInbox[q])
      BY <3>1, <3>2
    <3> HIDE <1>1, <2>4
    <3>7. CASE q = r /\ Head(roomInbox[q]).user = u
      BY <3>1, <3>5, <3>6, <3>7
    <3>8. CASE ~(q = r /\ Head(roomInbox[q]).user = u)
      BY <2>1, <3>1, <3>8
    <3> QED
      BY <3>7, <3>8
  <2>5. ASSUME NEW q \in RoomIds, Cleanup(q) PROVE Stays(r, u)
    BY <2>1, <2>5 DEF Cleanup, Retained
  <2>6. \/ UNCHANGED members
        \/ \E q \in RoomIds : HandleAddMember(q) \/ HandleRemoveMember(q) \/ Cleanup(q)
    BY <1>1 DEF RoomNext, RoomRouterStep, HandleJoinRoom, HandleLeaveRoom, HandleRoomMessage,
                RoomStep, HandleSendMessage, roomVars, chatVars, ReceiveJoinRoom,
                ReceiveRoomMessage, HostLeaveRoom
  <2> QED
    BY <2>2, <2>3, <2>4, <2>5, <2>6
<1>2. RoomInv /\ [RoomNext]_chatVars =>
          [\A r \in RoomIds, u \in Users : Stays(r, u)]_chatVars
  BY <1>1
<1> QED
  BY <1>2, RoomInvariant, PTL DEF RoomSpec, OpenMemberStays
=============================================================================
