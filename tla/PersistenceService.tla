-------------------------- MODULE PersistenceService --------------------------
(***************************************************************************)
(* Writing a message through the chat service: the retry loop in PerOXO,   *)
(* the gRPC call it makes, and the logged batch the chat service executes. *)
(* Direct messages and room messages go through loops of the same shape.   *)
(*                                                                         *)
(* A call fails with a tonic Status when the connection does, and then the *)
(* request may have been executed, may still be executed later or may be   *)
(* lost.  A database error is an answer (success = false) and ends the     *)
(* loop; the batch it reports on may still be replayed from the batch log. *)
(***************************************************************************)
EXTENDS Naturals

CONSTANTS
    Ids,         \* the messages to be written, of one conversation or room
    MaxRetries,  \* 3 in the code
    Unset        \* the list's value before the first message

ASSUME MaxRetriesAssumption == MaxRetries \in Nat
ASSUME UnsetAssumption == Unset \notin Ids

Attempts == 1..MaxRetries + 1

VARIABLES
    task,      \* the task that persists each message
    attempts,  \* the loop variable of write_*_with_retry: failed attempts
    request,   \* what became of each attempt's request at the chat service
    store,     \* the messages in the database
    latest     \* the message that set the conversation's last_message in
               \* user_conversations, or the room's last_activity

persistVars == <<task, attempts, request, store, latest>>

PersistInit ==
    /\ task = [i \in Ids |-> "idle"]
    /\ attempts = [i \in Ids |-> 0]
    /\ request = [i \in Ids |-> [k \in Attempts |-> "unsent"]]
    /\ store = {}
    /\ latest = Unset

-----------------------------------------------------------------------------
(* PerOXO *)

\* client.write_dm(request.clone()): the next attempt's request is sent.
Call(i) ==
    /\ request' = [request EXCEPT ![i][attempts[i] + 1] = "sent"]
    /\ task' = [task EXCEPT ![i] = "calling"]
    /\ UNCHANGED <<attempts, store, latest>>

\* Fault: a message is persisted again whenever it is handled again.
BeginAgain(i) == task[i] \notin {"calling", "backoff"} /\ Call(i)

BeginPersist(i) == task[i] = "idle" /\ Call(i)

\* The backoff of 100 ms per failed attempt is over.
RetryCall(i) == task[i] = "backoff" /\ Call(i)

\* Fault: the success flag of the answer is not looked at.
AnyAnswerIsOk(i) ==
    /\ task[i] = "calling"
    /\ request[i][attempts[i] + 1] \in {"success", "failure"}
    /\ task' = [task EXCEPT ![i] = "Ok"]
    /\ UNCHANGED <<attempts, request, store, latest>>

\* Any answer ends the loop; success = false becomes an Err.
CallAnswered(i) ==
    LET answer == request[i][attempts[i] + 1]
    IN /\ task[i] = "calling"
       /\ answer \in {"success", "failure"}
       /\ task' = [task EXCEPT ![i] = IF answer = "success" THEN "Ok" ELSE "Err"]
       /\ UNCHANGED <<attempts, request, store, latest>>

\* Fault: off by one.
RetryAllowedStrictly(n) == n < MaxRetries

RetryAllowed(n) == n <= MaxRetries

\* Fault: failed attempts are not counted.
CallFailedUncounted(i) ==
    /\ task[i] = "calling"
    /\ task' = [task EXCEPT ![i] = "backoff"]
    /\ UNCHANGED <<attempts, request, store, latest>>

\* A Status: no answer will be seen for this attempt.
CallFailed(i) ==
    /\ task[i] = "calling"
    /\ attempts' = [attempts EXCEPT ![i] = @ + 1]
    /\ task' = [task EXCEPT ![i] = IF RetryAllowed(attempts[i] + 1)
                                  THEN "backoff" ELSE "Err"]
    /\ UNCHANGED <<request, store, latest>>

-----------------------------------------------------------------------------
(* The chat service and the database *)

\* What a batch writes: the row of the message, under its id, so that it can be
\* repeated; and, without a condition, the time the list shows, which is
\* last_message of both users' conversations or last_activity of the room.
Execute(i) ==
    /\ store' = store \cup {i}
    /\ latest' = i

\* Fault: success is answered before the batch is executed.
AnswerFirst(i, k) ==
    /\ request[i][k] = "sent"
    /\ request' = [request EXCEPT ![i][k] = "success"]
    /\ UNCHANGED <<task, attempts, store, latest>>

\* Fault: a batch that was answered is executed again.
ExecuteTwice(i, k) ==
    /\ request[i][k] \in {"sent", "success"}
    /\ request' = [request EXCEPT ![i][k] = "success"]
    /\ Execute(i)
    /\ UNCHANGED <<task, attempts>>

\* session.batch succeeds, and so does the handler.
ExecuteBatch(i, k) ==
    /\ request[i][k] = "sent"
    /\ request' = [request EXCEPT ![i][k] = "success"]
    /\ Execute(i)
    /\ UNCHANGED <<task, attempts>>

\* The request is not valid, or the batch fails.  The two are not told apart, so
\* ReplayBatch also covers requests that were only invalid: more than happens.
RefuseBatch(i, k) ==
    /\ request[i][k] = "sent"
    /\ request' = [request EXCEPT ![i][k] = "failure"]
    /\ UNCHANGED <<task, attempts, store, latest>>

\* A logged batch that timed out is replayed; a batch executed since may have
\* set the list already.
ReplayBatch(i, k) ==
    /\ request[i][k] = "failure"
    /\ store' = store \cup {i}
    /\ latest' = i \/ (latest # Unset /\ UNCHANGED latest)
    /\ UNCHANGED <<task, attempts, request>>

-----------------------------------------------------------------------------
PersistTask(i) == BeginPersist(i) \/ RetryCall(i) \/ CallAnswered(i) \/ CallFailed(i)

ServiceStep(i, k) == ExecuteBatch(i, k) \/ RefuseBatch(i, k) \/ ReplayBatch(i, k)

PersistNext ==
    \E i \in Ids : PersistTask(i) \/ \E k \in Attempts : ServiceStep(i, k)

PersistSpec == PersistInit /\ [][PersistNext]_persistVars

\* A call returns, with an answer or a Status, and a sleeping task wakes up.
PersistFairSpec ==
    /\ PersistSpec
    /\ \A i \in Ids : WF_persistVars(RetryCall(i) \/ CallAnswered(i) \/ CallFailed(i))

-----------------------------------------------------------------------------
(* Properties *)

\* Type invariant; attempts never exceed MaxRetries + 1, only ids are stored,
\* and the list shows a stored message.
PersistTypeOK ==
    /\ task \in [Ids -> {"idle", "calling", "backoff", "Ok", "Err"}]
    /\ attempts \in [Ids -> 0..MaxRetries + 1]
    /\ request \in [Ids -> [Attempts -> {"unsent", "sent", "success", "failure"}]]
    /\ store \subseteq Ids
    /\ latest \in store \cup {Unset}

\* A message reported as persisted is in the database, although the answer may
\* belong to any attempt and earlier attempts may still be under way.
OkMeansStored == \A i \in Ids : task[i] = "Ok" => i \in store

\* A message that failed was either answered with an error or attempted
\* MaxRetries + 1 times: the loop never gives up early and never runs over.
ErrMeansExhausted ==
    \A i \in Ids : task[i] = "Err" =>
        \/ attempts[i] <= MaxRetries /\ request[i][attempts[i] + 1] = "failure"
        \/ attempts[i] = MaxRetries + 1 /\ \A k \in Attempts : request[i][k] # "unsent"

\* Once the loop has returned it sends nothing any more: an answered write is
\* not attempted again.
NothingSentAfterReturn ==
    [][\A i \in Ids : task[i] \in {"Ok", "Err"} =>
          /\ task'[i] = task[i]
          /\ \A k \in Attempts : request'[i][k] = "sent" => request[i][k] = "sent"
      ]_persistVars

\* The conversation list moves back to a message that was reported as persisted
\* only because an attempt the loop had given up on is executed late, or its
\* batch replayed: a message persisted at the first attempt sets it once.
ListMovesBackOnlyLate ==
    [][\A i \in Ids : latest' = i /\ latest # i /\ task[i] = "Ok" =>
          \E k \in 1..attempts[i] : request[i][k] \in {"sent", "failure"}]_persistVars

\* The loop ends.
EveryPersistReturns == \A i \in Ids : task[i] = "calling" ~> task[i] \in {"Ok", "Err"}

\* Of the inductive invariant: the requests sent are those of the failed attempts
\* and of the one under way or answered, and a success means a stored row.
RequestsMatchLoop ==
    \A i \in Ids :
        /\ task[i] = "idle" => attempts[i] = 0 /\ request[i] = [k \in Attempts |-> "unsent"]
        /\ task[i] \in {"calling", "backoff"} => attempts[i] <= MaxRetries
        /\ task[i] = "calling" => request[i][attempts[i] + 1] # "unsent"
        /\ task[i] = "backoff" => request[i][attempts[i] + 1] = "unsent"
        /\ task[i] = "Ok" =>
             attempts[i] <= MaxRetries /\ request[i][attempts[i] + 1] = "success"
        /\ \A k \in Attempts :
             /\ k <= attempts[i] => request[i][k] # "unsent"
             /\ k > attempts[i] + 1 => request[i][k] = "unsent"
             /\ request[i][k] = "success" => i \in store

\* The inductive invariant of the retry loop.
PersistInv == PersistTypeOK /\ RequestsMatchLoop /\ OkMeansStored /\ ErrMeansExhausted

\* What DurableWrite sees of the loop.
OutcomeOf(i) ==
    IF task[i] = "idle" THEN "none"
    ELSE IF task[i] = "Ok" THEN "Persisted"
    ELSE IF task[i] = "Err" THEN "Failed"
    ELSE "writing"

Durable == INSTANCE DurableWrite
    WITH outcome <- [i \in Ids |-> OutcomeOf(i)]

\* The retry loop of write_*_with_retry, the calls and the batch implement the
\* write the router and the rooms rely on.
ImplementsDurableWrite == Durable!Spec
=============================================================================
