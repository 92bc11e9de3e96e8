--------------------------- MODULE DirectMessages ---------------------------
(***************************************************************************)
(* Direct messages, from the sender's socket to the recipient's.  The      *)
(* router starts the write to the database in a task of its own and hands  *)
(* the message to the recipient's channel without waiting for either.      *)
(***************************************************************************)
EXTENDS UserSession

dmVars == <<vars, deliveryVars>>

DMInit == Init /\ DeliveryInit

\* ChatMessage::SendDirectMessage arrives on the socket of session s.
ReceiveDirectMessage(s, to) ==
    Number(s, [type |-> "SendDirectMessage", id |-> nextId, to |-> to])

\* The recipient's channel as it is after the router's try_send, if the
\* recipient is registered.
Forward(to, i) ==
    IF users[to] = None THEN channel
    ELSE TrySend(channel, users[to], DirectMessage(i))

\* Fault: a recipient whose channel is closed is unregistered on the spot.
HandleEvicts ==
    /\ Receive("SendDirectMessage")
    /\ LET i == Head(inbox).id
           to == Head(inbox).to
           dead == users[to] # None /\ Closed(users[to])
       IN /\ BeginWrite(i)
          /\ channel' = Forward(to, i)
          /\ users' = IF dead THEN [users EXCEPT ![to] = None] ELSE users
          /\ online_users' = IF dead THEN [online_users EXCEPT ![to] = 0]
                                     ELSE online_users
    /\ UNCHANGED <<sessionVars, acks, written, nextId, draft, author, waiting>>

\* The write and the delivery are independent of each other's result.
HandleDirectMessage ==
    /\ Receive("SendDirectMessage")
    /\ LET i == Head(inbox).id
       IN /\ BeginWrite(i)
          /\ channel' = Forward(Head(inbox).to, i)
    /\ UNCHANGED <<users, online_users, sessionVars, acks, written,
                   nextId, draft, author, waiting>>

DMNext ==
    \/ RegistryStep
    \/ HandleDirectMessage
    \/ \E s \in Sessions :
        \/ LifeCycleStep(s)
        \/ DeliveryStep(s)
        \/ \E to \in Users : ReceiveDirectMessage(s, to)
    \/ \E i \in Ids : PersistStep(i)

DMSpec == DMInit /\ [][DMNext]_dmVars

DMFairness ==
    /\ WF_dmVars(RegistryStep \/ HandleDirectMessage)
    /\ \A s \in Sessions :
        /\ WF_dmVars(RunStep(s))
        /\ WF_dmVars(RecvTaskDropped(s))
        /\ WF_dmVars(SendTaskDropped(s))
        /\ WF_dmVars(SendDraft(s))
        /\ WF_dmVars(WriteMessage(s) \/ SendTaskBreaks(s))
        /\ WF_dmVars(WriteAck(s) \/ SendTaskBreaks(s))
    /\ \A i \in Ids : WF_dmVars(PersistTaskReturns(i)) /\ WF_dmVars(Acknowledge(i))

DMFairSpec == DMSpec /\ DMFairness

-----------------------------------------------------------------------------
(* Properties *)

\* Of the messages of one sender, a recipient sees a subsequence in the order
\* of their ids, each at most once: the pipeline of receive task, router and
\* bounded channel may drop messages but never reorders or repeats them.
SenderOrderKept ==
    \A s \in Sessions, x, y \in Ids :
        Before(Sent(s), DirectMessage(x), DirectMessage(y)) /\ author[x] = author[y]
            => x < y

\* What reached the recipient's channel is written to its socket, unless the
\* recipient's connection is given up first.
EveryQueuedMessageWritten ==
    \A i \in Ids, s \in Sessions :
        Contains(channel[s], DirectMessage(i))
            ~> Contains(written[s], DirectMessage(i)) \/ Closed(s)

\* MessageRouter, with the chat messages filtered out of the inbox.
Registry == INSTANCE MessageRouter
    WITH inbox <- SelectSeq(inbox, LAMBDA m : m \in RegistryMessages)

\* The registry does not notice the chat messages in its channel: every
\* behaviour, without them, is one of MessageRouter.
ImplementsRegistry == Registry!Spec
=============================================================================
