-------------------------- MODULE PersistenceProofs --------------------------
(***************************************************************************)
(* Proofs about PersistenceService, for any set of messages and any number *)
(* of retries.                                                             *)
(***************************************************************************)
EXTENDS PersistenceService, TLAPS

\* The invariant holds before anything is written.
LEMMA PersistInitInv == PersistInit => PersistInv
BY MaxRetriesAssumption
   DEF PersistInit, PersistInv, PersistTypeOK, RequestsMatchLoop,
       OkMeansStored, ErrMeansExhausted, Attempts

\* Sending the next request preserves the invariant.
LEMMA CallInv ==
    ASSUME PersistInv, NEW i \in Ids, task[i] \in {"idle", "backoff"}, Call(i)
    PROVE  PersistInv'
<1> USE MaxRetriesAssumption
<1>1. attempts[i] \in 0..MaxRetries /\ attempts[i] + 1 \in Attempts
      BY DEF PersistInv, PersistTypeOK, RequestsMatchLoop, Attempts
<1>2. PersistTypeOK'
      BY <1>1 DEF PersistInv, PersistTypeOK, Call
<1>3. RequestsMatchLoop'
      BY <1>1 DEF PersistInv, PersistTypeOK, RequestsMatchLoop, Call, Attempts
<1>4. OkMeansStored' /\ ErrMeansExhausted'
      BY <1>1 DEF PersistInv, PersistTypeOK, OkMeansStored, ErrMeansExhausted, Call
<1> QED  BY <1>2, <1>3, <1>4 DEF PersistInv

\* Returning on an answer preserves the invariant.
LEMMA CallAnsweredInv ==
    ASSUME PersistInv, NEW i \in Ids, CallAnswered(i)
    PROVE  PersistInv'
<1> USE MaxRetriesAssumption
<1>1. attempts[i] \in 0..MaxRetries /\ attempts[i] + 1 \in Attempts
      BY DEF PersistInv, PersistTypeOK, RequestsMatchLoop, Attempts, CallAnswered
<1>2. PersistTypeOK' /\ RequestsMatchLoop'
      BY DEF PersistInv, PersistTypeOK, RequestsMatchLoop, CallAnswered
<1>3. OkMeansStored' /\ ErrMeansExhausted'
      BY <1>1 DEF PersistInv, PersistTypeOK, RequestsMatchLoop, OkMeansStored,
                  ErrMeansExhausted, CallAnswered
<1> QED  BY <1>2, <1>3 DEF PersistInv

\* Counting a failed call, and giving up after the last one, preserves it.
LEMMA CallFailedInv ==
    ASSUME PersistInv, NEW i \in Ids, CallFailed(i)
    PROVE  PersistInv'
<1> USE MaxRetriesAssumption
<1>1. attempts[i] \in 0..MaxRetries
      BY DEF PersistInv, PersistTypeOK, RequestsMatchLoop, CallFailed
<1>2. PersistTypeOK'
      BY <1>1 DEF PersistInv, PersistTypeOK, CallFailed
<1>3. RequestsMatchLoop'
      BY <1>1 DEF PersistInv, PersistTypeOK, RequestsMatchLoop, CallFailed,
                  RetryAllowed, Attempts
<1>4. OkMeansStored'
      BY DEF PersistInv, PersistTypeOK, OkMeansStored, CallFailed
<1>5. ErrMeansExhausted'
      BY <1>1 DEF PersistInv, PersistTypeOK, RequestsMatchLoop, ErrMeansExhausted,
                  CallFailed, RetryAllowed, Attempts
<1> QED  BY <1>2, <1>3, <1>4, <1>5 DEF PersistInv

\* Whatever the chat service and the database do, also late, preserves it.
LEMMA ServiceInv ==
    ASSUME PersistInv, NEW i \in Ids, NEW k \in Attempts, ServiceStep(i, k)
    PROVE  PersistInv'
<1> USE MaxRetriesAssumption
<1>1. UNCHANGED <<task, attempts>> /\ store \subseteq store'
      BY DEF ServiceStep, ExecuteBatch, Execute, RefuseBatch, ReplayBatch
<1>2. PersistTypeOK'
  <2>1. CASE ExecuteBatch(i, k)
        BY <2>1 DEF PersistInv, PersistTypeOK, ExecuteBatch, Execute
  <2>2. CASE RefuseBatch(i, k)
        BY <2>2 DEF PersistInv, PersistTypeOK, RefuseBatch
  <2>3. CASE ReplayBatch(i, k)
        BY <2>3 DEF PersistInv, PersistTypeOK, ReplayBatch
  <2> QED  BY <2>1, <2>2, <2>3 DEF ServiceStep
<1>3. ASSUME NEW j \in Ids, NEW l \in Attempts
      PROVE  /\ request'[j][l] = "unsent" <=> request[j][l] = "unsent"
             /\ request[j][l] = "failure" => request'[j][l] = "failure"
             /\ request[j][l] = "success" => request'[j][l] = "success"
             /\ request'[j][l] = "success" => request[j][l] = "success" \/ j \in store'
      BY DEF PersistInv, PersistTypeOK, ServiceStep, ExecuteBatch, Execute, RefuseBatch, ReplayBatch
<1>4. ASSUME NEW j \in Ids, task[j] = "idle"
      PROVE  request'[j] = [l \in Attempts |-> "unsent"]
  <2>1. request' \in [Ids -> [Attempts -> {"unsent", "sent", "success", "failure"}]]
        BY <1>2 DEF PersistTypeOK
  <2>2. \A l \in Attempts : request'[j][l] = "unsent"
        BY <1>3, <1>4 DEF PersistInv, RequestsMatchLoop
  <2> QED  BY <2>1, <2>2
<1>5. ASSUME NEW j \in Ids
      PROVE  attempts[j] <= MaxRetries => attempts[j] + 1 \in Attempts
      BY DEF PersistInv, PersistTypeOK, Attempts
<1>6. RequestsMatchLoop'
      BY <1>1, <1>3, <1>4, <1>5 DEF PersistInv, RequestsMatchLoop
<1>7. OkMeansStored'
      BY <1>1 DEF PersistInv, OkMeansStored
<1>8. ErrMeansExhausted'
      BY <1>1, <1>3, <1>5 DEF PersistInv, ErrMeansExhausted
<1> QED  BY <1>2, <1>6, <1>7, <1>8 DEF PersistInv

\* Every step of the task that persists a message preserves it.
LEMMA TaskInv ==
    ASSUME PersistInv, NEW i \in Ids, PersistTask(i)
    PROVE  PersistInv'
BY CallInv, CallAnsweredInv, CallFailedInv DEF PersistTask, BeginPersist, RetryCall

\* The strengthened invariant holds in every reachable state.
THEOREM PersistCorrect == PersistSpec => []PersistInv
<1>1. PersistInv /\ [PersistNext]_persistVars => PersistInv'
  <2> SUFFICES ASSUME PersistInv, [PersistNext]_persistVars PROVE PersistInv'
      OBVIOUS
  <2>1. ASSUME NEW i \in Ids, PersistTask(i)
        PROVE  PersistInv'
        BY <2>1, TaskInv
  <2>2. ASSUME NEW i \in Ids, NEW k \in Attempts, ServiceStep(i, k)
        PROVE  PersistInv'
        BY <2>2, ServiceInv
  <2>3. CASE UNCHANGED persistVars
        BY <2>3 DEF PersistInv, PersistTypeOK, RequestsMatchLoop, OkMeansStored,
                    ErrMeansExhausted, persistVars
  <2> QED  BY <2>1, <2>2, <2>3 DEF PersistNext
<1> QED  BY <1>1, PersistInitInv, PTL DEF PersistSpec

\* A message reported as persisted is in the database.
THEOREM OkIsStored == PersistSpec => []OkMeansStored
<1>1. PersistInv => OkMeansStored
      BY DEF PersistInv
<1> QED  BY <1>1, PersistCorrect, PTL

\* The retry loop gives up only on an answer or after MaxRetries + 1 attempts.
THEOREM ErrIsExhausted == PersistSpec => []ErrMeansExhausted
<1>1. PersistInv => ErrMeansExhausted
      BY DEF PersistInv
<1> QED  BY <1>1, PersistCorrect, PTL

\* A returned loop stays returned and sends no request.
THEOREM QuietAfterReturn == PersistSpec => NothingSentAfterReturn
<1> DEFINE Act == \A i \in Ids : task[i] \in {"Ok", "Err"} =>
                    /\ task'[i] = task[i]
                    /\ \A k \in Attempts : request'[i][k] = "sent" => request[i][k] = "sent"
<1>1. PersistInv /\ [PersistNext]_persistVars => [Act]_persistVars
  <2> SUFFICES ASSUME PersistInv, PersistNext, NEW i \in Ids,
                      task[i] \in {"Ok", "Err"}
               PROVE  /\ task'[i] = task[i]
                      /\ \A k \in Attempts : request'[i][k] = "sent" => request[i][k] = "sent"
      OBVIOUS
  <2>1. ASSUME NEW j \in Ids, PersistTask(j)
        PROVE  j # i /\ task'[i] = task[i] /\ request'[i] = request[i]
        BY <2>1 DEF PersistTask, BeginPersist, RetryCall, Call, CallAnswered,
                    CallFailed, PersistInv, PersistTypeOK
  <2>2. ASSUME NEW j \in Ids, NEW k \in Attempts, ServiceStep(j, k)
        PROVE  /\ task' = task
               /\ \A l \in Attempts : request'[i][l] = "sent" => request[i][l] = "sent"
        BY <2>2 DEF ServiceStep, ExecuteBatch, Execute, RefuseBatch, ReplayBatch,
                    PersistInv, PersistTypeOK
  <2> QED  BY <2>1, <2>2 DEF PersistNext
<1> QED  BY <1>1, PersistCorrect, PTL DEF PersistSpec, NothingSentAfterReturn

\* The list moves back to a persisted message only by an attempt given up on.
THEOREM ListMovesBackLate == PersistSpec => ListMovesBackOnlyLate
<1> DEFINE Act == \A i \in Ids : latest' = i /\ latest # i /\ task[i] = "Ok" =>
                    \E k \in 1..attempts[i] : request[i][k] \in {"sent", "failure"}
<1>1. PersistInv /\ [PersistNext]_persistVars => [Act]_persistVars
  <2> SUFFICES ASSUME PersistInv, PersistNext, NEW i \in Ids,
                      latest' = i, latest # i, task[i] = "Ok"
               PROVE  \E k \in 1..attempts[i] : request[i][k] \in {"sent", "failure"}
      OBVIOUS
  <2>1. PICK j \in Ids, k \in Attempts : ServiceStep(j, k)
        BY DEF PersistNext, PersistTask, BeginPersist, RetryCall, Call, CallAnswered,
               CallFailed
  <2>2. j = i /\ request[i][k] \in {"sent", "failure"}
        BY <2>1 DEF ServiceStep, ExecuteBatch, Execute, RefuseBatch, ReplayBatch
  <2>3. k # attempts[i] + 1 /\ ~(k > attempts[i] + 1)
        BY <2>2 DEF PersistInv, RequestsMatchLoop
  <2>4. k \in Nat /\ k >= 1 /\ attempts[i] \in Nat
        BY MaxRetriesAssumption DEF Attempts, PersistInv, PersistTypeOK
  <2>5. k \in 1..attempts[i]
        BY <2>3, <2>4
  <2> QED  BY <2>2, <2>5
<1> QED  BY <1>1, PersistCorrect, PTL DEF PersistSpec, ListMovesBackOnlyLate

-----------------------------------------------------------------------------
(* Refinement of DurableWrite *)

\* A step of the persisting task begins a durable write, returns from it, or
\* stutters.
LEMMA TaskRefines ==
    ASSUME PersistInv, NEW i \in Ids, PersistTask(i)
    PROVE  [Durable!Next]_(Durable!vars)
<1>1. store' = store /\ task \in [Ids -> {"idle", "calling", "backoff", "Ok", "Err"}]
      BY DEF PersistInv, PersistTypeOK, PersistTask, BeginPersist, RetryCall, Call,
             CallAnswered, CallFailed
<1>2. PICK status \in {"calling", "backoff", "Ok", "Err"} :
         task' = [task EXCEPT ![i] = status]
      BY DEF PersistTask, BeginPersist, RetryCall, Call, CallAnswered, CallFailed
<1>3. \A j \in Ids : j # i => OutcomeOf(j)' = OutcomeOf(j)
      BY <1>1, <1>2 DEF OutcomeOf
<1>4. CASE task[i] = "idle"
  <2>1. status = "calling"
        BY <1>1, <1>2, <1>4 DEF PersistTask, BeginPersist, RetryCall, Call,
                                CallAnswered, CallFailed
  <2>2. OutcomeOf(i) = "none" /\ OutcomeOf(i)' = "writing"
        BY <1>1, <1>2, <1>4, <2>1 DEF OutcomeOf
  <2>3. Durable!Begin(i)
        BY <1>1, <1>3, <2>2 DEF Durable!Begin, Durable!PersistResults
  <2> QED  BY <2>3 DEF Durable!Next
<1>5. CASE task[i] # "idle" /\ status \in {"calling", "backoff"}
  <2>1. task[i] \in {"calling", "backoff"}
        BY <1>5 DEF PersistTask, BeginPersist, RetryCall, CallAnswered, CallFailed
  <2>2. OutcomeOf(i)' = OutcomeOf(i)
        BY <1>1, <1>2, <1>5, <2>1 DEF OutcomeOf
  <2> QED  BY <1>1, <1>3, <2>2 DEF Durable!vars
<1>6. CASE task[i] # "idle" /\ status \in {"Ok", "Err"}
  <2>1. task[i] = "calling"
        BY <1>1, <1>2, <1>6 DEF PersistTask, BeginPersist, RetryCall, Call,
                                CallAnswered, CallFailed
  <2>2. OutcomeOf(i) = "writing"
        BY <2>1 DEF OutcomeOf
  <2>3. status = "Ok" => i \in store
        BY <1>1, <1>2, TaskInv DEF PersistInv, OkMeansStored
  <2>4. OutcomeOf(i)' = IF status = "Ok" THEN "Persisted" ELSE "Failed"
        BY <1>1, <1>2, <1>6 DEF OutcomeOf
  <2>5. Durable!Returns(i, IF status = "Ok" THEN "Persisted" ELSE "Failed")
        BY <1>1, <1>3, <2>2, <2>3, <2>4 DEF Durable!Returns
  <2> QED  BY <2>5 DEF Durable!Next, Durable!PersistResults
<1> QED  BY <1>2, <1>4, <1>5, <1>6

\* A batch that is executed or replayed makes the write take effect, once.
LEMMA ServiceRefines ==
    ASSUME PersistInv, NEW i \in Ids, NEW k \in Attempts, ServiceStep(i, k)
    PROVE  [Durable!Next]_(Durable!vars)
<1>1. task' = task /\ (store' = store \/ store' = store \cup {i})
      BY DEF ServiceStep, ExecuteBatch, Execute, RefuseBatch, ReplayBatch
<1>2. \A j \in Ids : OutcomeOf(j)' = OutcomeOf(j)
      BY <1>1 DEF OutcomeOf
<1>3. CASE store' = store
      BY <1>2, <1>3 DEF Durable!vars
<1>4. CASE store' = store \cup {i} /\ i \notin store
  <2>1. request[i][k] # "unsent"
        BY DEF ServiceStep, ExecuteBatch, Execute, RefuseBatch, ReplayBatch
  <2>2. task[i] \in {"calling", "backoff", "Err"}
        BY <1>4, <2>1 DEF PersistInv, PersistTypeOK, RequestsMatchLoop, OkMeansStored
  <2>3. OutcomeOf(i) \in {"writing", "Failed"}
        BY <2>2 DEF OutcomeOf
  <2>4. Durable!TakesEffect(i)
        BY <1>2, <1>4, <2>3 DEF Durable!TakesEffect
  <2> QED  BY <2>4 DEF Durable!Next
<1> QED  BY <1>1, <1>3, <1>4

\* The retry loop, the calls and the batches implement the durable write.
THEOREM PersistImplementsDurableWrite == PersistSpec => ImplementsDurableWrite
<1>1. PersistInit => Durable!Init
      BY DEF PersistInit, Durable!Init, OutcomeOf
<1>2. PersistInv /\ [PersistNext]_persistVars
        => [Durable!Next]_(Durable!vars)
  <2>1. ASSUME PersistInv, UNCHANGED persistVars
        PROVE  UNCHANGED Durable!vars
        BY <2>1 DEF persistVars, OutcomeOf, Durable!vars
  <2> QED  BY <2>1, TaskRefines, ServiceRefines DEF PersistNext
<1> QED  BY <1>1, <1>2, PersistCorrect, PTL
         DEF PersistSpec, ImplementsDurableWrite, Durable!Spec
=============================================================================
