---------------------------- MODULE UserSession ----------------------------
(***************************************************************************)
(* What a running session does with messages: the two bounded channels its *)
(* send task drains into the socket, the receive task that numbers a chat  *)
(* message and hands it to the router, and the task that waits for the     *)
(* persistence result of a message and turns it into an acknowledgment.    *)
(*                                                                         *)
(* Extends MessageRouter, whose inbox now also carries chat messages.      *)
(* DirectMessages and Rooms extend this module with what the router and    *)
(* the rooms do with those.                                                *)
(*                                                                         *)
(* Persistence is seen from the caller, as DurableWrite; the module        *)
(* PersistenceService shows that the retry loop implements it.             *)
(***************************************************************************)
EXTENDS MessageRouter, SequencesExt

CONSTANTS
    ChannelSize,   \* CHANNEL_BUFFER_SIZE, 100 in the code
    AckSize,       \* capacity of the ack channel, 100 in the code
    MaxMessages,   \* bound: chat messages ever sent
    Leavers        \* bound: the sessions whose connection may close or fail

ASSUME SizeAssumption ==
    /\ ChannelSize \in Nat \ {0}
    /\ AckSize \in Nat \ {0}
    /\ MaxMessages \in Nat
    /\ Leavers \subseteq Sessions

\* Message ids: Uuid::now_v1 is unique and increases with the time it is taken.
Ids == 1..MaxMessages

NoDraft == [type |-> "None"]

VARIABLES
    channel,   \* session_receiver's queue
    acks,      \* ack_receiver's queue
    written,   \* history: what the send task wrote to the socket, in order
    nextId,    \* the clock and counter behind Uuid::now_v1
    draft,     \* a numbered message the receive task has not sent yet
    author,    \* the session each id was taken by
    outcome,   \* the oneshot of each message, from its creation to its value
    waiting,   \* the ids whose acknowledgment task is waiting
    store      \* the ids whose row is in the database

channelVars == <<channel, acks, written>>
messageVars == <<nextId, draft, author, outcome, waiting, store>>
deliveryVars == <<channel, acks, written, nextId, draft, author, outcome,
                  waiting, store>>

DeliveryInit ==
    /\ channel = [s \in Sessions |-> << >>]
    /\ acks = [s \in Sessions |-> << >>]
    /\ written = [s \in Sessions |-> << >>]
    /\ nextId = 1
    /\ draft = [s \in Sessions |-> NoDraft]
    /\ author = [i \in Ids |-> None]
    /\ outcome = [i \in Ids |-> "none"]
    /\ waiting = {}
    /\ store = {}

-----------------------------------------------------------------------------
(* Channels *)

\* The receiving ends live in the send task and are dropped with it.
Closed(s) == sendTask[s] = "done"

CanTake(ch, s) == ~Closed(s) /\ Len(ch[s]) < ChannelSize

\* mpsc::Sender::try_send: the message is dropped if the queue is full or closed.
TrySend(ch, s, m) ==
    IF CanTake(ch, s) THEN [ch EXCEPT ![s] = Append(@, m)] ELSE ch

DirectMessage(i) == [type |-> "DirectMessage", id |-> i]
RoomMessage(r, i) == [type |-> "RoomMessage", id |-> i, room |-> r]
Ack(i, status) == [type |-> "MessageAck", id |-> i, status |-> status]

-----------------------------------------------------------------------------
(* The receive task: numbering a message and sending it are two steps, and  *)
(* other sessions' receive tasks run in between; there is no await, so the  *)
(* task itself cannot be dropped in between.                                *)

Number(s, message) ==
    /\ recvTask[s] \in Alive
    /\ draft[s] = NoDraft
    /\ nextId \in Ids
    /\ draft' = [draft EXCEPT ![s] = message]
    /\ author' = [author EXCEPT ![nextId] = s]
    /\ nextId' = nextId + 1
    /\ UNCHANGED <<vars, channelVars, outcome, waiting, store>>

\* Fault: the newest message goes first.
SendDraftFirst(s) ==
    /\ draft[s] # NoDraft
    /\ inbox' = <<draft[s]>> \o inbox
    /\ outcome' = [outcome EXCEPT ![draft[s].id] = "unanswered"]
    /\ waiting' = waiting \cup {draft[s].id}
    /\ draft' = [draft EXCEPT ![s] = NoDraft]
    /\ UNCHANGED <<users, online_users, sessionVars, channelVars,
                   nextId, author, store>>

\* Fault: the author sees the room message before the room has ordered it.
SendDraftEchoed(s) ==
    /\ draft[s] # NoDraft
    /\ inbox' = Append(inbox, draft[s])
    /\ channel' = TrySend(channel, s, RoomMessage(draft[s].room, draft[s].id))
    /\ outcome' = [outcome EXCEPT ![draft[s].id] = "unanswered"]
    /\ waiting' = waiting \cup {draft[s].id}
    /\ draft' = [draft EXCEPT ![s] = NoDraft]
    /\ UNCHANGED <<users, online_users, sessionVars, acks, written,
                   nextId, author, store>>

\* The message goes to the router and a task is spawned to wait for its fate.
SendDraft(s) ==
    /\ draft[s] # NoDraft
    /\ inbox' = Append(inbox, draft[s])
    /\ outcome' = [outcome EXCEPT ![draft[s].id] = "unanswered"]
    /\ waiting' = waiting \cup {draft[s].id}
    /\ draft' = [draft EXCEPT ![s] = NoDraft]
    /\ UNCHANGED <<users, online_users, sessionVars, channelVars,
                   nextId, author, store>>

-----------------------------------------------------------------------------
(* The persistence task spawned by the router or by a room *)

Writes == INSTANCE DurableWrite

\* The router or the room spawns the task that persists message i.
BeginWrite(i) == Writes!Begin(i)

\* The database executes the write; this may be after the caller gave up.
WriteTakesEffect(i) ==
    /\ Writes!TakesEffect(i)
    /\ UNCHANGED <<vars, channelVars, nextId, draft, author, waiting>>

PersistTaskReturns(i) ==
    /\ \E status \in Writes!PersistResults : Writes!Returns(i, status)
    /\ UNCHANGED <<vars, channelVars, nextId, draft, author, waiting>>

\* MessageStatus, with Failed("Room not found") told apart from other failures.
Answered == Writes!PersistResults \cup {"RoomNotFound"}

\* Fault: any result is acknowledged as Persisted.
AcknowledgePersisted(i) ==
    /\ i \in waiting
    /\ outcome[i] \in Answered
    /\ LET s == author[i]
       IN \/ /\ Closed(s)
             /\ UNCHANGED acks
          \/ /\ ~Closed(s)
             /\ Len(acks[s]) < AckSize
             /\ acks' = [acks EXCEPT ![s] = Append(@, Ack(i, "Persisted"))]
    /\ waiting' = waiting \ {i}
    /\ UNCHANGED <<vars, channel, written, nextId, draft, author, outcome, store>>

\* Fault: try_send instead of send().await, and the queue may be full.
AcknowledgeTries(i) ==
    /\ i \in waiting
    /\ outcome[i] \in Answered
    /\ LET s == author[i]
       IN acks' = IF Closed(s) \/ Len(acks[s]) >= AckSize THEN acks
                  ELSE [acks EXCEPT ![s] = Append(@, Ack(i, outcome[i]))]
    /\ waiting' = waiting \ {i}
    /\ UNCHANGED <<vars, channel, written, nextId, draft, author, outcome, store>>

\* ack_sender.send().await: waits while the queue is full, gives up when the
\* receiving end is gone.
Acknowledge(i) ==
    /\ i \in waiting
    /\ outcome[i] \in Answered
    /\ LET s == author[i]
       IN \/ /\ Closed(s)
             /\ UNCHANGED acks
          \/ /\ ~Closed(s)
             /\ Len(acks[s]) < AckSize
             /\ acks' = [acks EXCEPT ![s] = Append(@, Ack(i, outcome[i]))]
    /\ waiting' = waiting \ {i}
    /\ UNCHANGED <<vars, channel, written, nextId, draft, author, outcome, store>>

-----------------------------------------------------------------------------
(* The send task *)

\* Fault: a message that cannot be serialized is skipped.
WriteMessageSkips(s) ==
    /\ sendTask[s] \in Alive
    /\ channel[s] # << >>
    /\ channel' = [channel EXCEPT ![s] = Tail(@)]
    /\ UNCHANGED <<vars, acks, written, messageVars>>

WriteMessage(s) ==
    /\ sendTask[s] \in Alive
    /\ channel[s] # << >>
    /\ written' = [written EXCEPT ![s] = Append(@, Head(channel[s]))]
    /\ channel' = [channel EXCEPT ![s] = Tail(@)]
    /\ UNCHANGED <<vars, acks, messageVars>>

WriteAck(s) ==
    /\ sendTask[s] \in Alive
    /\ acks[s] # << >>
    /\ written' = [written EXCEPT ![s] = Append(@, Head(acks[s]))]
    /\ acks' = [acks EXCEPT ![s] = Tail(@)]
    /\ UNCHANGED <<vars, channel, messageVars>>

\* Whatever is queued is dropped with the receivers.
DropReceivers(s) ==
    /\ channel' = [channel EXCEPT ![s] = << >>]
    /\ acks' = [acks EXCEPT ![s] = << >>]
    /\ UNCHANGED <<written, messageVars>>

\* The receive task and every acknowledgment task hold an ack sender.
AckSendersGone(s) ==
    /\ recvTask[s] = "done"
    /\ \A i \in waiting : author[i] # s

\* A write fails, or ack_receiver.recv() returns None.
SendTaskBreaks(s) ==
    /\ s \in Leavers
    /\ \/ channel[s] # << >> \/ acks[s] # << >>
       \/ AckSendersGone(s)
    /\ SendTaskEnds(s)
    /\ DropReceivers(s)

-----------------------------------------------------------------------------
(* The steps of MessageRouter, in this setting *)

Opens(s) == Connect(s) /\ UNCHANGED deliveryVars

RunStep(s) == (Start(s) \/ Refused(s) \/ EndRun(s)) /\ UNCHANGED deliveryVars

\* The receive task stops at its only await, never with a numbered message.
ClientLeaves(s) ==
    s \in Leavers /\ RecvTaskEnds(s) /\ draft[s] = NoDraft /\ UNCHANGED deliveryVars

RecvTaskDropped(s) ==
    DropRecvTask(s) /\ draft[s] = NoDraft /\ UNCHANGED deliveryVars

SendTaskDropped(s) == DropSendTask(s) /\ DropReceivers(s)

LifeCycleStep(s) ==
    \/ Opens(s) \/ RunStep(s) \/ ClientLeaves(s) \/ SendTaskBreaks(s)
    \/ RecvTaskDropped(s) \/ SendTaskDropped(s)

DeliveryStep(s) == SendDraft(s) \/ WriteMessage(s) \/ WriteAck(s)

PersistStep(i) == WriteTakesEffect(i) \/ PersistTaskReturns(i) \/ Acknowledge(i)

RegistryStep == RouterStep /\ UNCHANGED deliveryVars

\* The specifications built on this module assume weak fairness of the tasks
\* the runtime has spawned (RunStep, SendDraft, the two Dropped actions,
\* Acknowledge), of the socket, which accepts or refuses a frame (the Write
\* actions or SendTaskBreaks), and of the write call, which returns.

-----------------------------------------------------------------------------
(* Properties of direct messages and room messages alike *)

\* x comes before y in a sequence.
Before(seq, x, y) == \E j, k \in 1..Len(seq) : j < k /\ seq[j] = x /\ seq[k] = y

\* What the send task of session s wrote, and will write of each of its queues
\* if the socket keeps up.
Sent(s) == written[s] \o channel[s]
SentAcks(s) == written[s] \o acks[s]

\* A client told Persisted finds the message in the database, and a message is
\* acknowledged at most once and to the session that sent it, not to a later
\* session of the same user.
AckTellsTheTruth ==
    \A s \in Sessions, i \in Ids, status \in Answered :
        Contains(SentAcks(s), Ack(i, status)) =>
            /\ status = "Persisted" => i \in store
            /\ author[i] = s
            /\ \A other \in Answered :
                   ~Before(SentAcks(s), Ack(i, status), Ack(i, other))

\* The acknowledgment of message i is on its author's socket, or the author's
\* connection is given up.
Settled(i) ==
    \E s \in Sessions :
        /\ author[i] = s
        /\ \/ \E status \in Answered : Contains(written[s], Ack(i, status))
           \/ Closed(s)

\* Every message handed to the router is acknowledged on the socket, as
\* persisted, failed or sent to an unknown room, unless the connection is
\* given up first.
EveryMessageAcknowledged ==
    \A i \in Ids : outcome[i] = "unanswered" ~> Settled(i)
=============================================================================
