---------------------------- MODULE RabbitProofs ----------------------------
(***************************************************************************)
(* Proofs about RabbitConsumer, for any number of messages, any of them    *)
(* malformed, and any number of closed channels and crashes.               *)
(*                                                                         *)
(* The invariant says where each message is: a queue holds an unbroken     *)
(* run of numbers up to the last one published, all before it were tried,  *)
(* and what a consumer works on is the first of the run.  That holds       *)
(* whether or not the channel is still open, which is why a message that   *)
(* goes back to the broker finds its place again.                          *)
(***************************************************************************)
EXTENDS RabbitConsumer, SequenceTheorems, TLAPS

Places == {"down", "starting", "waiting", "writing", "acking", "ended"}
AtWork == {"writing", "acking"}

RabbitTypeOK ==
    /\ published \in [Queues -> Nat]
    /\ queue \in [Queues -> Seq(Nat)]
    /\ open \in [Queues -> BOOLEAN]
    /\ consumer \in [Queues -> Places]
    /\ current \in [Queues -> Nat]
    /\ tried \subseteq Queues \X Nat
    /\ taken \in [Queues -> Nat]

\* How many messages have left the queue.
Gone(q) == published[q] - Len(queue[q])

\* What is left are the last ones published, in order.
UnbrokenRun(q) ==
    /\ Len(queue[q]) <= published[q]
    /\ \A j \in 1..Len(queue[q]) : queue[q][j] = Gone(q) + j

GoneTried(q) == \A n \in 1..Gone(q) : <<q, n>> \in tried

\* No message beyond the first of the queue was ever delivered.
NothingBeyond(q) == taken[q] <= Gone(q) + 1

\* A consumer works on the first message of its queue, and has tried it when
\* it acknowledges it.
WorksOnTheFirst(q) ==
    IF consumer[q] \in AtWork
    THEN /\ queue[q] # << >>
         /\ current[q] = Gone(q) + 1
         /\ taken[q] = current[q]
         /\ consumer[q] = "acking" => <<q, current[q]>> \in tried
    ELSE current[q] = 0

QueueInv(q) ==
    UnbrokenRun(q) /\ GoneTried(q) /\ NothingBeyond(q) /\ WorksOnTheFirst(q)

RabbitInv ==
    /\ RabbitTypeOK
    /\ \A q \in Queues : QueueInv(q)

-----------------------------------------------------------------------------
(* The steps *)

LEMMA RabbitInitially == RabbitInit => RabbitInv
<1> SUFFICES ASSUME RabbitInit PROVE RabbitInv
  OBVIOUS
<1> USE DEF RabbitInit
<1>1. << >> \in Seq(Nat) /\ Len(<< >>) = 0
  BY EmptySeq
<1>2. RabbitTypeOK
  BY <1>1 DEF RabbitTypeOK, Places
<1>3. ASSUME NEW q \in Queues PROVE QueueInv(q)
  BY <1>1 DEF QueueInv, UnbrokenRun, GoneTried, NothingBeyond, WorksOnTheFirst, Gone,
              AtWork
<1> QED
  BY <1>2, <1>3 DEF RabbitInv

\* What is known of the numbers of one queue.
LEMMA QueueFacts ==
    ASSUME RabbitInv, NEW q \in Queues
    PROVE  /\ published[q] \in Nat /\ queue[q] \in Seq(Nat) /\ Len(queue[q]) \in Nat
           /\ taken[q] \in Nat /\ current[q] \in Nat /\ Gone(q) \in Nat
           /\ QueueInv(q)
           /\ queue[q] # << >> => Head(queue[q]) = Gone(q) + 1 /\ Len(queue[q]) > 0
<1>1. /\ published[q] \in Nat /\ queue[q] \in Seq(Nat) /\ taken[q] \in Nat
      /\ current[q] \in Nat /\ QueueInv(q)
  BY DEF RabbitInv, RabbitTypeOK
<1>2. Len(queue[q]) \in Nat /\ (queue[q] # << >> => Len(queue[q]) > 0)
  BY <1>1, LenProperties, EmptySeq
<1>3. Gone(q) \in Nat
  BY <1>1, <1>2 DEF QueueInv, UnbrokenRun, Gone
<1>4. queue[q] # << >> => Head(queue[q]) = Gone(q) + 1
  BY <1>1, <1>2 DEF QueueInv, UnbrokenRun
<1> QED
  BY <1>1, <1>2, <1>3, <1>4

\* What was tried stays tried.
LEMMA QueueStays ==
    ASSUME RabbitInv, NEW q \in Queues,
           queue'[q] = queue[q], published'[q] = published[q], taken'[q] = taken[q],
           tried \subseteq tried', WorksOnTheFirst(q)'
    PROVE  QueueInv(q)'
<1>1. Gone(q)' = Gone(q)
  BY DEF Gone
<1>2. UnbrokenRun(q)'
  BY <1>1, QueueFacts DEF QueueInv, UnbrokenRun
<1>3. GoneTried(q)'
  BY <1>1, QueueFacts DEF QueueInv, GoneTried
<1>4. NothingBeyond(q)'
  BY <1>1, QueueFacts DEF QueueInv, NothingBeyond
<1> QED
  BY <1>2, <1>3, <1>4 DEF QueueInv

\* A queue of which a step changes nothing.
LEMMA OtherQueue ==
    ASSUME RabbitInv, NEW q \in Queues,
           queue'[q] = queue[q], published'[q] = published[q], taken'[q] = taken[q],
           consumer'[q] = consumer[q], current'[q] = current[q], tried \subseteq tried'
    PROVE  QueueInv(q)'
<1>1. WorksOnTheFirst(q)'
  BY QueueFacts DEF QueueInv, WorksOnTheFirst, Gone
<1> QED
  BY <1>1, QueueStays

\* The next number joins the run at its end.
LEMMA PublishStep ==
    ASSUME RabbitInv, NEW q \in Queues, Publish(q)
    PROVE  RabbitInv'
<1> USE DEF Publish
<1> DEFINE n == published[q] + 1
<1>1. /\ published[q] \in Nat /\ queue[q] \in Seq(Nat) /\ Len(queue[q]) \in Nat
      /\ Gone(q) \in Nat /\ QueueInv(q)
  BY QueueFacts
<1>2. /\ published' = [published EXCEPT ![q] = n]
      /\ queue' = [queue EXCEPT ![q] = Append(queue[q], n)]
  BY DEF RabbitInv, RabbitTypeOK
<1>3. /\ Append(queue[q], n) \in Seq(Nat)
      /\ Append(queue[q], n) # << >>
      /\ Len(Append(queue[q], n)) = Len(queue[q]) + 1
      /\ \A j \in 1..Len(queue[q]) : Append(queue[q], n)[j] = queue[q][j]
      /\ Append(queue[q], n)[Len(queue[q]) + 1] = n
  BY <1>1, AppendProperties
<1>4. RabbitTypeOK'
  BY <1>1, <1>2, <1>3 DEF RabbitInv, RabbitTypeOK
<1>5. QueueInv(q)'
  <2>1. /\ published'[q] = n /\ Len(queue'[q]) = Len(queue[q]) + 1
        /\ queue'[q] # << >> /\ Gone(q)' = Gone(q)
        /\ \A j \in 1..Len(queue[q]) : queue'[q][j] = queue[q][j]
        /\ queue'[q][Len(queue[q]) + 1] = n
    BY <1>1, <1>2, <1>3 DEF RabbitInv, RabbitTypeOK, Gone
  <2>2. UnbrokenRun(q)'
    BY <1>1, <2>1 DEF QueueInv, UnbrokenRun, Gone
  <2>3. GoneTried(q)' /\ NothingBeyond(q)'
    BY <1>1, <2>1 DEF QueueInv, GoneTried, NothingBeyond
  <2>4. WorksOnTheFirst(q)'
    BY <1>1, <2>1 DEF QueueInv, WorksOnTheFirst
  <2> QED
    BY <2>2, <2>3, <2>4 DEF QueueInv
<1>6. \A p \in Queues \ {q} : queue'[p] = queue[p] /\ published'[p] = published[p]
  BY <1>2 DEF RabbitInv, RabbitTypeOK
<1>7. \A p \in Queues \ {q} : QueueInv(p)'
  BY <1>6, OtherQueue
<1> QED
  BY <1>4, <1>5, <1>7 DEF RabbitInv

\* The first of the run is delivered, for the first time or again.
LEMMA TakeStep ==
    ASSUME RabbitInv, NEW q \in Queues, Take(q)
    PROVE  RabbitInv'
<1> DEFINE n == Head(queue[q])
<1>1. /\ n = Gone(q) + 1 /\ Gone(q) \in Nat /\ taken[q] \in Nat /\ QueueInv(q)
      /\ queue[q] # << >>
  BY QueueFacts DEF Take
<1>2. /\ UNCHANGED <<published, queue, open>>
      /\ current' = [current EXCEPT ![q] = n]
      /\ taken' = [taken EXCEPT ![q] = IF n > taken[q] THEN n ELSE taken[q]]
      /\ \/ /\ consumer' = [consumer EXCEPT ![q] = "acking"]
            /\ tried' = tried \cup {<<q, n>>}
         \/ consumer' = [consumer EXCEPT ![q] = "writing"] /\ tried' = tried
  BY DEF RabbitInv, RabbitTypeOK, Take, ProcessMessage, Goto
<1> HIDE DEF n
<1>3. /\ current'[q] = n /\ taken'[q] = n /\ consumer'[q] \in {"acking", "writing"}
      /\ consumer'[q] = "acking" => <<q, n>> \in tried'
      /\ tried \subseteq tried'
  BY <1>1, <1>2 DEF RabbitInv, RabbitTypeOK, QueueInv, NothingBeyond
<1>4. RabbitTypeOK'
  <2>1. n \in Nat /\ tried \cup {<<q, n>>} \subseteq Queues \X Nat
    BY <1>1 DEF RabbitInv, RabbitTypeOK
  <2>2. consumer' \in [Queues -> Places] /\ tried' \subseteq Queues \X Nat
    BY <1>2, <2>1 DEF RabbitInv, RabbitTypeOK, Places
  <2> QED
    BY <1>1, <1>2, <2>1, <2>2 DEF RabbitInv, RabbitTypeOK
<1>5. QueueInv(q)'
  <2>1. Gone(q)' = Gone(q)
    BY <1>2 DEF Gone
  <2>2. WorksOnTheFirst(q)'
    BY <1>1, <1>2, <1>3, <2>1 DEF WorksOnTheFirst, AtWork
  <2>3. NothingBeyond(q)'
    BY <1>1, <1>2, <1>3, <2>1 DEF QueueInv, NothingBeyond
  <2> QED
    BY <1>1, <1>2, <1>3, <2>1, <2>2, <2>3 DEF QueueInv, UnbrokenRun, GoneTried
<1>6. \A p \in Queues \ {q} :
          taken'[p] = taken[p] /\ consumer'[p] = consumer[p] /\ current'[p] = current[p]
  BY <1>2 DEF RabbitInv, RabbitTypeOK
<1>7. \A p \in Queues \ {q} : QueueInv(p)'
  BY <1>2, <1>3, <1>6, OtherQueue
<1> QED
  BY <1>4, <1>5, <1>7 DEF RabbitInv

\* The first of the run leaves it, tried, or stays the first.
LEMMA AcknowledgeStep ==
    ASSUME RabbitInv, NEW q \in Queues, Acknowledge(q)
    PROVE  RabbitInv'
<1>1. /\ published[q] \in Nat /\ queue[q] \in Seq(Nat) /\ Len(queue[q]) \in Nat
      /\ Gone(q) \in Nat /\ taken[q] \in Nat /\ current[q] \in Nat /\ QueueInv(q)
  BY QueueFacts
<1>2. /\ queue[q] # << >> /\ current[q] = Gone(q) + 1 /\ taken[q] = current[q]
      /\ <<q, current[q]>> \in tried
  BY <1>1 DEF QueueInv, WorksOnTheFirst, AtWork, Acknowledge, At
<1>3. /\ Tail(queue[q]) \in Seq(Nat) /\ Len(Tail(queue[q])) = Len(queue[q]) - 1
      /\ \A j \in 1..Len(Tail(queue[q])) : Tail(queue[q])[j] = queue[q][j + 1]
  BY <1>1, <1>2, HeadTailProperties
<1>4. /\ UNCHANGED <<published, open, tried, taken>>
      /\ current' = [current EXCEPT ![q] = 0]
      /\ consumer' = [consumer EXCEPT ![q] = "waiting"]
      /\ queue' = IF open[q] THEN [queue EXCEPT ![q] = Tail(queue[q])] ELSE queue
  BY DEF RabbitInv, RabbitTypeOK, Acknowledge, Goto
<1>5. RabbitTypeOK'
  BY <1>3, <1>4 DEF RabbitInv, RabbitTypeOK, Places
<1>6. current'[q] = 0 /\ consumer'[q] = "waiting"
  BY <1>4 DEF RabbitInv, RabbitTypeOK
<1>7. WorksOnTheFirst(q)'
  BY <1>6 DEF WorksOnTheFirst, AtWork
<1>8. QueueInv(q)'
  <2>1. CASE open[q]
    <3>1. queue'[q] = Tail(queue[q])
      BY <2>1, <1>4 DEF RabbitInv, RabbitTypeOK
    <3>2. Len(queue'[q]) = Len(queue[q]) - 1 /\ Gone(q)' = Gone(q) + 1
      BY <3>1, <1>1, <1>3, <1>4 DEF Gone
    <3>3. UnbrokenRun(q)'
      <4>1. ASSUME NEW j \in 1..Len(queue'[q])
            PROVE  queue'[q][j] = Gone(q)' + j
        <5>1. j + 1 \in 1..Len(queue[q]) /\ j \in Nat
          BY <1>1, <3>2
        <5>2. queue'[q][j] = queue[q][j + 1]
          BY <1>3, <3>1
        <5>3. queue[q][j + 1] = Gone(q) + (j + 1)
          BY <1>1, <5>1 DEF QueueInv, UnbrokenRun
        <5> QED
          BY <1>1, <3>2, <5>1, <5>2, <5>3
      <4>2. Len(queue'[q]) <= published'[q]
        BY <1>1, <1>4, <3>2 DEF QueueInv, UnbrokenRun
      <4> QED
        BY <4>1, <4>2 DEF UnbrokenRun
    <3>4. GoneTried(q)'
      <4>1. \A n \in 1..Gone(q) + 1 : n \in 1..Gone(q) \/ n = current[q]
        BY <1>1, <1>2
      <4>2. \A n \in 1..Gone(q) + 1 : <<q, n>> \in tried
        BY <1>1, <1>2, <4>1 DEF QueueInv, GoneTried
      <4> QED
        BY <1>4, <3>2, <4>2 DEF GoneTried
    <3>5. NothingBeyond(q)'
      BY <1>1, <1>2, <1>4, <3>2 DEF QueueInv, NothingBeyond
    <3> QED
      BY <1>7, <3>3, <3>4, <3>5 DEF QueueInv
  <2>2. CASE ~open[q]
    <3>1. queue' = queue
      BY <2>2, <1>4
    <3> QED
      BY <1>4, <1>7, <3>1, QueueStays
  <2> QED
    BY <2>1, <2>2
<1>9. \A p \in Queues \ {q} :
          queue'[p] = queue[p] /\ consumer'[p] = consumer[p] /\ current'[p] = current[p]
  BY <1>4 DEF RabbitInv, RabbitTypeOK
<1>10. \A p \in Queues \ {q} : QueueInv(p)'
  BY <1>4, <1>9, OtherQueue
<1> QED
  BY <1>5, <1>8, <1>10 DEF RabbitInv

\* A consumer moves on without touching a queue.
LEMMA QuietStep ==
    ASSUME RabbitInv, NEW q \in Queues,
           BeginConsuming(q) \/ StreamEnds(q) \/ ChannelCloses(q) \/ WriteFails(q)
    PROVE  RabbitInv'
<1> USE DEF BeginConsuming, StreamEnds, ChannelCloses, WriteFails, Goto, At
<1>1. QueueInv(q) /\ current[q] \in Nat /\ taken[q] \in Nat
  BY QueueFacts
<1>2. tried' = tried \/ (tried' = tried \cup {<<q, current[q]>>}
                         /\ consumer[q] = "writing"
                         /\ consumer' = [consumer EXCEPT ![q] = "acking"])
  OBVIOUS
<1>3. UNCHANGED <<published, queue, current, taken>>
  OBVIOUS
<1>4. RabbitTypeOK'
  <2>1. open' \in [Queues -> BOOLEAN]
    BY DEF RabbitInv, RabbitTypeOK
  <2>2. consumer' \in [Queues -> Places]
    BY DEF RabbitInv, RabbitTypeOK, Places
  <2> QED
    BY <1>1, <1>2, <1>3, <2>1, <2>2 DEF RabbitInv, RabbitTypeOK
<1>5. WorksOnTheFirst(q)'
  BY <1>1, <1>3 DEF RabbitInv, RabbitTypeOK, QueueInv, WorksOnTheFirst, AtWork, Gone
<1>6. QueueInv(q)'
  BY <1>2, <1>3, <1>5, QueueStays
<1>7. ASSUME NEW p \in Queues \ {q} PROVE QueueInv(p)'
  <2>1. consumer'[p] = consumer[p]
    BY DEF RabbitInv, RabbitTypeOK
  <2> QED
    BY <1>2, <1>3, <2>1, OtherQueue
<1> QED
  BY <1>4, <1>6, <1>7 DEF RabbitInv

\* The process ends or starts again: nobody works on anything.
LEMMA ProcessStep ==
    ASSUME RabbitInv, Crash \/ MainReturns \/ Restart
    PROVE  RabbitInv'
<1>1. /\ UNCHANGED <<published, queue, tried, taken>>
      /\ consumer' \in [Queues -> {"down", "starting"}]
  BY DEF Crash, MainReturns, Restart, Exit
<1>2. \/ current' = [q \in Queues |-> 0]
      \/ (\A q \in Queues : consumer[q] = "down") /\ current' = current
  BY DEF Crash, MainReturns, Restart, Exit, At
<1>3. current' \in [Queues -> Nat] /\ \A q \in Queues : current'[q] = 0
  <2>1. ASSUME NEW q \in Queues, consumer[q] = "down" PROVE current[q] = 0
    BY <2>1, QueueFacts DEF QueueInv, WorksOnTheFirst, AtWork
  <2> QED
    BY <1>2, <2>1 DEF RabbitInv, RabbitTypeOK
<1>4. open' \in [Queues -> BOOLEAN]
  BY DEF Crash, MainReturns, Restart, Exit
<1>5. RabbitTypeOK'
  BY <1>1, <1>3, <1>4 DEF RabbitInv, RabbitTypeOK, Places
<1>6. ASSUME NEW q \in Queues PROVE QueueInv(q)'
  <2>1. WorksOnTheFirst(q)'
    BY <1>1, <1>3 DEF WorksOnTheFirst, AtWork
  <2> QED
    BY <1>1, <2>1, QueueStays
<1> QED
  BY <1>5, <1>6 DEF RabbitInv

LEMMA RabbitStep == RabbitInv /\ [RabbitNext]_rabbitVars => RabbitInv'
<1> SUFFICES ASSUME RabbitInv, [RabbitNext]_rabbitVars PROVE RabbitInv'
  OBVIOUS
<1>1. ASSUME NEW q \in Queues, Publish(q) PROVE RabbitInv'
  BY <1>1, PublishStep
<1>2. ASSUME NEW q \in Queues, ChannelCloses(q) PROVE RabbitInv'
  BY <1>2, QuietStep
<1>3. ASSUME NEW q \in Queues, ConsumerStep(q) PROVE RabbitInv'
  BY <1>3, TakeStep, AcknowledgeStep, QuietStep DEF ConsumerStep
<1>4. CASE Crash \/ MainReturns \/ Restart
  BY <1>4, ProcessStep
<1>5. CASE UNCHANGED rabbitVars
  <2> USE <1>5 DEF rabbitVars
  <2>1. RabbitTypeOK'
    BY DEF RabbitInv, RabbitTypeOK
  <2>2. \A q \in Queues : QueueInv(q)'
    BY OtherQueue
  <2> QED
    BY <2>1, <2>2 DEF RabbitInv
<1> QED
  BY <1>1, <1>2, <1>3, <1>4, <1>5 DEF RabbitNext

-----------------------------------------------------------------------------
(* The theorems *)

\* The inductive invariant holds of every behaviour of broker and consumers.
THEOREM RabbitInvariant == RabbitSpec => []RabbitInv
<1>1. RabbitInit => RabbitInv
  BY RabbitInitially
<1>2. RabbitInv /\ [RabbitNext]_rabbitVars => RabbitInv'
  BY RabbitStep
<1> QED
  BY <1>1, <1>2, PTL DEF RabbitSpec

\* The handler ran to its end on every message that is no longer in its queue,
\* whatever crashed or closed in between.  It says nothing of a row: the
\* handler's write is refused.
THEOREM GoneOnlyAfterTried == RabbitSpec => []GoneMeansTried
<1>1. RabbitInv => GoneMeansTried
  <2> SUFFICES ASSUME RabbitInv, NEW q \in Queues, NEW n \in 1..published[q],
                      ~Queued(q, n)
               PROVE  <<q, n>> \in tried
    BY DEF GoneMeansTried
  <2>1. /\ published[q] \in Nat /\ Len(queue[q]) \in Nat /\ Gone(q) \in Nat
        /\ QueueInv(q)
    BY QueueFacts
  <2>2. ASSUME n > Gone(q) PROVE FALSE
    <3>1. n - Gone(q) \in 1..Len(queue[q])
      BY <2>1, <2>2 DEF Gone
    <3>2. queue[q][n - Gone(q)] = n
      BY <2>1, <3>1 DEF QueueInv, UnbrokenRun
    <3> QED
      BY <3>1, <3>2 DEF Queued
  <2> QED
    BY <2>1, <2>2 DEF QueueInv, GoneTried
<1> QED
  BY <1>1, RabbitInvariant, PTL

\* A consumer that holds a message holds the newest one it was ever delivered,
\* and all before it were tried and are gone, for any order of redeliveries.
THEOREM ConsumersWorkInOrder == RabbitSpec => []WorksInOrder
<1>1. RabbitInv => WorksInOrder
  <2> SUFFICES ASSUME RabbitInv, NEW q \in Queues, current[q] # 0
               PROVE  /\ current[q] = taken[q]
                      /\ \A n \in 1..current[q] - 1 : <<q, n>> \in tried /\ ~Queued(q, n)
    BY DEF WorksInOrder
  <2>1. /\ published[q] \in Nat /\ Len(queue[q]) \in Nat /\ Gone(q) \in Nat
        /\ QueueInv(q)
    BY QueueFacts
  <2>2. current[q] = taken[q] /\ current[q] = Gone(q) + 1
    BY <2>1 DEF QueueInv, WorksOnTheFirst
  <2>3. ASSUME NEW n \in 1..current[q] - 1 PROVE <<q, n>> \in tried /\ ~Queued(q, n)
    <3>1. n \in 1..Gone(q)
      BY <2>1, <2>2
    <3>2. <<q, n>> \in tried
      BY <2>1, <3>1 DEF QueueInv, GoneTried
    <3>3. \A j \in 1..Len(queue[q]) : queue[q][j] # n
      BY <2>1, <3>1 DEF QueueInv, UnbrokenRun
    <3> QED
      BY <3>2, <3>3 DEF Queued
  <2> QED
    BY <2>2, <2>3
<1> QED
  BY <1>1, RabbitInvariant, PTL
=============================================================================
