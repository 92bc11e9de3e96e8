--------------------------- MODULE RabbitConsumer ---------------------------
(***************************************************************************)
(* The process that takes queued messages to the database: two consumers,  *)
(* one of direct messages and one of room messages, on channels of their   *)
(* own with a prefetch count of one.  A delivery is parsed, sent to the    *)
(* database in a logged batch and then acknowledged, whatever became of    *)
(* it.                                                                     *)
(*                                                                         *)
(* The broker keeps a message until it is acknowledged; one whose channel  *)
(* closes first goes back to its place, the head of the queue.  So the     *)
(* message a consumer holds is the head of its queue for as long as its    *)
(* channel is open.                                                        *)
(*                                                                         *)
(* No batch is ever executed: the statements leave out project_id, which   *)
(* the tables the services create have in their primary keys, and the      *)
(* database refuses the batch.  The error is logged and forgotten and the  *)
(* message acknowledged, so there are no rows in this model, and leaving   *)
(* the queue says that a message was tried, never that it was stored.      *)
(***************************************************************************)
EXTENDS Naturals, Sequences

CONSTANTS
    Direct,       \* the queue direct_messages
    Room,         \* the queue room_messages
    MaxQueued,    \* bound: messages ever published to each queue
    MaxFaults,    \* bound: channels that close and processes that crash
    Malformed     \* the messages that are not the JSON the handler expects

Queues == {Direct, Room}
\* A message is named by its queue and its number there.
Messages == UNION {{q} \X (1..MaxQueued[q]) : q \in Queues}

ASSUME RabbitAssumption ==
    /\ Direct # Room
    /\ MaxQueued \in [Queues -> Nat]
    /\ MaxFaults \in Nat
    /\ Malformed \subseteq Messages

VARIABLES
    published,     \* messages published to each queue so far, numbered from 1
    queue,         \* the broker: what is not acknowledged yet
    open,          \* whether the channel of each consumer is open
    consumer,      \* where each consumer is in start_consuming
    current,       \* the message it handles, 0 if none
    tried,         \* history: the messages process_message returned for
    taken,         \* history: the greatest number each consumer was delivered
    faults         \* counts closed channels and crashes

rabbitVars == <<published, queue, open, consumer, current, tried, taken, faults>>

RabbitInit ==
    /\ published = [q \in Queues |-> 0]
    /\ queue = [q \in Queues |-> << >>]
    /\ open = [q \in Queues |-> TRUE]
    /\ consumer = [q \in Queues |-> "starting"]
    /\ current = [q \in Queues |-> 0]
    /\ tried = {}
    /\ taken = [q \in Queues |-> 0]
    /\ faults = 0

-----------------------------------------------------------------------------
(* The broker *)

\* Queues are durable and take messages whether or not anybody consumes.
Publish(q) ==
    /\ published[q] < MaxQueued[q]
    /\ published' = [published EXCEPT ![q] = @ + 1]
    /\ queue' = [queue EXCEPT ![q] = Append(@, published'[q])]
    /\ UNCHANGED <<open, consumer, current, tried, taken, faults>>

Fault == faults < MaxFaults /\ faults' = faults + 1

\* The broker closes the channel, or the connection breaks (both channels close,
\* one after the other).
ChannelCloses(q) ==
    /\ Fault
    /\ consumer[q] \notin {"down", "ended"} /\ open[q]
    /\ open' = [open EXCEPT ![q] = FALSE]
    /\ UNCHANGED <<published, queue, consumer, current, tried, taken>>

-----------------------------------------------------------------------------
(* A consumer *)

At(q, place) == consumer[q] = place
Goto(q, place) == consumer' = [consumer EXCEPT ![q] = place]

\* basic_consume; its error ends start_consuming.
BeginConsuming(q) ==
    /\ At(q, "starting")
    /\ Goto(q, IF open[q] THEN "waiting" ELSE "ended")
    /\ UNCHANGED <<published, queue, open, current, tried, taken, faults>>

\* process_message begins: what cannot be parsed is an error at once, the rest
\* is sent to the database.
ProcessMessage(q, n) ==
    /\ current' = [current EXCEPT ![q] = n]
    /\ taken' = [taken EXCEPT ![q] = IF n > @ THEN n ELSE @]
    /\ IF <<q, n>> \in Malformed
       THEN Goto(q, "acking") /\ tried' = tried \cup {<<q, n>>}
       ELSE Goto(q, "writing") /\ tried' = tried

\* Fault: no_ack, the broker forgets a message when it delivers it.
TakeUnacknowledged(q) ==
    /\ At(q, "waiting") /\ open[q] /\ queue[q] # << >>
    /\ ProcessMessage(q, Head(queue[q]))
    /\ queue' = [queue EXCEPT ![q] = Tail(@)]
    /\ UNCHANGED <<published, open, faults>>

\* consumer.next() yields a delivery.
Take(q) ==
    /\ At(q, "waiting") /\ open[q] /\ queue[q] # << >>
    /\ ProcessMessage(q, Head(queue[q]))
    /\ UNCHANGED <<published, queue, open, faults>>

\* Errors on the stream are only logged; it ends with its channel.
StreamEnds(q) ==
    /\ At(q, "waiting") /\ ~open[q]
    /\ Goto(q, "ended")
    /\ UNCHANGED <<published, queue, open, current, tried, taken, faults>>

\* session.batch(...).await returns an error, the only thing it can return;
\* process_message logs it and returns Ok.
WriteFails(q) ==
    /\ At(q, "writing")
    /\ Goto(q, "acking")
    /\ tried' = tried \cup {<<q, current[q]>>}
    /\ UNCHANGED <<published, queue, open, current, taken, faults>>

\* Faults: a message whose processing failed is tried again, after the others
\* or at once.
AckOrRetryLater(q) ==
    /\ At(q, "acking")
    /\ queue' = IF ~open[q] THEN queue
                ELSE IF <<q, current[q]>> \in Malformed
                THEN [queue EXCEPT ![q] = Append(Tail(@), current[q])]
                ELSE [queue EXCEPT ![q] = Tail(@)]
    /\ current' = [current EXCEPT ![q] = 0]
    /\ Goto(q, "waiting")
    /\ UNCHANGED <<published, open, tried, taken, faults>>
AckOrRetryAtOnce(q) ==
    /\ At(q, "acking")
    /\ queue' = IF open[q] /\ <<q, current[q]>> \notin Malformed
                THEN [queue EXCEPT ![q] = Tail(@)] ELSE queue
    /\ current' = [current EXCEPT ![q] = 0]
    /\ Goto(q, "waiting")
    /\ UNCHANGED <<published, open, tried, taken, faults>>

\* delivery.ack: on a closed channel it is an error, which is only logged.
Acknowledge(q) ==
    /\ At(q, "acking")
    /\ queue' = IF open[q] THEN [queue EXCEPT ![q] = Tail(@)] ELSE queue
    /\ current' = [current EXCEPT ![q] = 0]
    /\ Goto(q, "waiting")
    /\ UNCHANGED <<published, open, tried, taken, faults>>

-----------------------------------------------------------------------------
(* The process *)

\* All that is under way is given up.
Exit ==
    /\ consumer' = [q \in Queues |-> "down"]
    /\ current' = [q \in Queues |-> 0]
    /\ open' = [q \in Queues |-> FALSE]
    /\ UNCHANGED <<published, queue, tried, taken>>

Crash ==
    /\ Fault
    /\ \E q \in Queues : ~At(q, "down")
    /\ Exit

\* tokio::join! waits for both consumers, then main returns.
MainReturns ==
    /\ \A q \in Queues : At(q, "ended")
    /\ Exit
    /\ UNCHANGED faults

\* Somebody starts the process again; a connection that fails is not counted.
Restart ==
    /\ \A q \in Queues : At(q, "down")
    /\ consumer' = [q \in Queues |-> "starting"]
    /\ open' = [q \in Queues |-> TRUE]
    /\ UNCHANGED <<published, queue, current, tried, taken, faults>>

-----------------------------------------------------------------------------
ConsumerStep(q) ==
    \/ BeginConsuming(q) \/ Take(q) \/ StreamEnds(q)
    \/ WriteFails(q) \/ Acknowledge(q)

RabbitNext ==
    \/ \E q \in Queues : Publish(q) \/ ChannelCloses(q) \/ ConsumerStep(q)
    \/ Crash \/ MainReturns \/ Restart

RabbitSpec == RabbitInit /\ [][RabbitNext]_rabbitVars

\* The consumers are polled, the broker delivers what is ready on an open
\* channel, and the driver returns from a batch.  Nothing restarts the process
\* by itself.
RabbitFairSpec ==
    /\ RabbitSpec
    /\ \A q \in Queues : WF_rabbitVars(ConsumerStep(q))
    /\ WF_rabbitVars(MainReturns)

-----------------------------------------------------------------------------
(* Properties *)

Queued(q, n) == \E j \in 1..Len(queue[q]) : queue[q][j] = n

\* A message leaves its queue only after its handler ran to the end on it: no
\* closed channel and no crash between two steps of a consumer takes a message
\* off its queue half way.  That is all the queue protects: the handler's
\* write is refused and the error forgotten, so the message is lost all the
\* same once it is acknowledged.
GoneMeansTried ==
    \A q \in Queues : \A n \in 1..published[q] :
        ~Queued(q, n) => <<q, n>> \in tried

\* A consumer works through its queue in the order of publication, also when
\* messages are delivered again after a crash: while it holds a message no
\* later one was ever delivered, and every earlier one was tried and is gone.
WorksInOrder ==
    \A q \in Queues : current[q] # 0 =>
        /\ current[q] = taken[q]
        /\ \A n \in 1..current[q] - 1 : <<q, n>> \in tried /\ ~Queued(q, n)

Served(q) == consumer[q] \notin {"down", "ended"}

\* A queue that is served from some time on is emptied: no message, malformed
\* or impossible to write, stops the ones behind it.  (A consumer that ends
\* while the other one goes on is not started again, and its queue not served.)
EveryMessageLeaves ==
    \A q \in Queues : <>[]Served(q) =>
        \A n \in 1..MaxQueued[q] : (n <= published[q] ~> n <= published[q] /\ ~Queued(q, n))
=============================================================================
