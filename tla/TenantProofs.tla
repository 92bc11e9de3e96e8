---------------------------- MODULE TenantProofs ----------------------------
(***************************************************************************)
(* Proofs about TenantRegistration, for any set of requests and any quota. *)
(*                                                                         *)
(* The quota is kept by numbers, not by a lock: INCR gives every request   *)
(* of a window a number of its own.  So the invariant relates the counter  *)
(* in Redis to the set of requests counted in the present window, and the  *)
(* number each request got to how many were counted in its window.  Those  *)
(* whose numbers are not over the quota are then at most as many as there  *)
(* are such numbers, and a number over the quota means that as many others *)
(* came before.                                                            *)
(***************************************************************************)
EXTENDS TenantRegistration, FiniteSetTheorems, TLAPS

Places == {"new", "expire", "decide", "insert", "created", "exceeded", "failed"}

TenantTypeOK ==
    /\ count \in Nat
    /\ expires \in BOOLEAN
    /\ step \in [Requests -> Places]
    /\ seen \in [Requests -> Nat]
    /\ lost \in [Requests -> {"none", "INCR", "EXPIRE"}]
    /\ tenants \subseteq Requests
    /\ window \in Nat \ {0}
    /\ within \in [Requests -> Nat]

\* A request whose INCR is still to be executed, or lost.
Uncounted(c) == step[c] = "new" \/ (step[c] = "failed" /\ lost[c] = "INCR")

\* Nobody is counted in a window to come, a handler counts once, and who has
\* lost a command has failed.
CountedOnce ==
    \A c \in Requests :
        /\ within[c] <= window
        /\ lost[c] # "none" => step[c] = "failed"
        /\ Uncounted(c) => within[c] = 0 /\ seen[c] = 0

\* The counter is the number of requests counted in this window.
CounterCounts ==
    /\ \A w \in 1..window : IsFiniteSet(CountedIn(w))
    /\ count = Cardinality(CountedIn(window))

\* Who has a number was counted, after as many others.
Numbered(c) ==
    seen[c] # 0 =>
        /\ within[c] # 0
        /\ seen[c] <= Cardinality(CountedIn(within[c]))

\* No two requests of a window have the same number.
NumbersDiffer ==
    \A c, d \in Requests :
        within[c] = within[d] /\ seen[c] = seen[d] /\ seen[c] # 0 => c = d

\* What each handler knows of its number.
Knows(c) ==
    /\ step[c] \in {"expire", "decide", "insert", "created", "exceeded"} => seen[c] # 0
    /\ step[c] = "insert" \/ c \in tenants => seen[c] \in 1..MaxPerWindow
    /\ step[c] = "exceeded" => seen[c] > MaxPerWindow

TenantInv ==
    /\ TenantTypeOK
    /\ CountedOnce
    /\ CounterCounts
    /\ NumbersDiffer
    /\ \A c \in Requests : Numbered(c) /\ Knows(c)

-----------------------------------------------------------------------------
LEMMA TenantInitially == TenantInit => TenantInv
<1> SUFFICES ASSUME TenantInit PROVE TenantInv
  OBVIOUS
<1> USE DEF TenantInit
<1>1. CountedIn(window) = {} /\ \A w \in 1..window : CountedIn(w) = {}
  BY DEF CountedIn
<1>2. CounterCounts
  BY <1>1, FS_EmptySet DEF CounterCounts
<1>3. TenantTypeOK
  <2>1. expires \in BOOLEAN
    BY Zenon
  <2> QED
    BY <2>1 DEF TenantTypeOK, Places
<1>4. CountedOnce /\ NumbersDiffer /\ \A c \in Requests : Numbered(c) /\ Knows(c)
  BY DEF CountedOnce, Uncounted, NumbersDiffer, Numbered, Knows
<1> QED
  BY <1>2, <1>3, <1>4 DEF TenantInv

\* A step that counts nobody and ends no window leaves the numbers alone.
LEMMA NumbersStay ==
    ASSUME TenantInv, UNCHANGED <<count, seen, window, within>>
    PROVE  CounterCounts' /\ NumbersDiffer' /\ \A c \in Requests : Numbered(c)'
<1>1. \A w : CountedIn(w)' = CountedIn(w)
  BY DEF CountedIn
<1>2. CounterCounts'
  BY <1>1 DEF TenantInv, CounterCounts
<1>3. NumbersDiffer'
  BY DEF TenantInv, NumbersDiffer
<1>4. \A c \in Requests : Numbered(c)'
  BY <1>1 DEF TenantInv, Numbered
<1> QED
  BY <1>2, <1>3, <1>4

\* Counting c in adds it to its window, and to no other.
LEMMA CountsOneMore ==
    ASSUME TenantInv, NEW c \in Requests, Uncounted(c), CountIn(c),
           window' = window
    PROVE  /\ \A w \in 1..window : w # window => CountedIn(w)' = CountedIn(w)
           /\ CountedIn(window)' = CountedIn(window) \cup {c}
           /\ c \notin CountedIn(window)
           /\ CounterCounts'
           /\ Cardinality(CountedIn(window)') = Cardinality(CountedIn(window)) + 1
<1> USE DEF CountIn
<1>1. within[c] = 0 /\ window \in 1..window
  BY DEF TenantInv, CountedOnce, TenantTypeOK
<1>2. \A d \in Requests : within'[d] = IF d = c THEN window ELSE within[d]
  BY DEF TenantInv, TenantTypeOK
<1>3. \A w \in 1..window : w # window => CountedIn(w)' = CountedIn(w)
  BY <1>1, <1>2 DEF CountedIn
<1>4. CountedIn(window)' = CountedIn(window) \cup {c} /\ c \notin CountedIn(window)
  BY <1>1, <1>2 DEF CountedIn, TenantInv, TenantTypeOK
<1>5. /\ IsFiniteSet(CountedIn(window)')
      /\ Cardinality(CountedIn(window)') = Cardinality(CountedIn(window)) + 1
  BY <1>1, <1>4, FS_AddElement DEF TenantInv, CounterCounts
<1>6. CounterCounts'
  <2>1. \A w \in 1..window : IsFiniteSet(CountedIn(w)')
    BY <1>3, <1>5 DEF TenantInv, CounterCounts
  <2>2. CountedIn(window)' = {d \in Requests : within'[d] = window'}
    BY DEF CountedIn
  <2> QED
    BY <1>5, <2>1 DEF TenantInv, CounterCounts, CountedIn
<1> QED
  BY <1>3, <1>4, <1>5, <1>6

\* INCR is executed for c, which learns its number or has failed before.
LEMMA IncrStep ==
    ASSUME TenantInv, NEW c \in Requests, Uncounted(c), CountIn(c),
           UNCHANGED <<expires, tenants, window>>,
           \/ /\ step[c] = "new"
              /\ seen' = [seen EXCEPT ![c] = count']
              /\ \E where \in {"expire", "decide"} : Goto(c, where)
              /\ UNCHANGED lost
           \/ /\ step[c] = "failed"
              /\ UNCHANGED <<seen, step>>
              /\ lost' = [lost EXCEPT ![c] = "none"]
    PROVE  TenantInv'
<1> USE DEF Goto
<1>1. Uncounted(c) /\ CountIn(c) /\ window' = window /\ count \in Nat
  BY DEF TenantInv, TenantTypeOK
<1>2. count' = count + 1 /\ within' = [within EXCEPT ![c] = window]
  BY DEF CountIn
<1>3. TenantTypeOK'
  <2>1. expires' \in BOOLEAN
    BY DEF TenantInv, TenantTypeOK
  <2> QED
    BY <1>2, <2>1 DEF TenantInv, TenantTypeOK, Places
<1>4. \A d \in Requests \ {c} :
          /\ within'[d] = within[d] /\ seen'[d] = seen[d]
          /\ step'[d] = step[d] /\ lost'[d] = lost[d]
  BY <1>2 DEF TenantInv, TenantTypeOK
<1>5. /\ within'[c] = window
      /\ \/ seen'[c] = count + 1 /\ step'[c] \in {"expire", "decide"}
         \/ seen'[c] = 0 /\ step'[c] = "failed"
      /\ within[c] = 0 /\ window \in Nat \ {0} /\ lost'[c] = "none"
  BY <1>2 DEF TenantInv, TenantTypeOK, CountedOnce, Uncounted
<1>6. CountedOnce'
  BY <1>4, <1>5, <1>1 DEF TenantInv, TenantTypeOK, CountedOnce, Uncounted
<1>7. CounterCounts'
  BY <1>1, CountsOneMore
<1>8. \A d \in Requests : within[d] = window => seen[d] <= count
  BY DEF TenantInv, TenantTypeOK, CounterCounts, Numbered
<1>9. NumbersDiffer'
  <2> SUFFICES ASSUME NEW x \in Requests, NEW y \in Requests,
                      within'[x] = within'[y], seen'[x] = seen'[y], seen'[x] # 0
               PROVE  x = y
    BY DEF NumbersDiffer
  <2>1. CASE x # c /\ y # c
    BY <2>1, <1>4 DEF TenantInv, NumbersDiffer
  <2>2. CASE x = c \/ y = c
    BY <2>2, <1>1, <1>4, <1>5, <1>8 DEF TenantInv, TenantTypeOK
  <2> QED
    BY <2>1, <2>2
<1>10. ASSUME NEW d \in Requests PROVE Numbered(d)' /\ Knows(d)'
  <2>1. CASE d = c
    <3>1. count + 1 = Cardinality(CountedIn(window)')
      BY <1>1, CountsOneMore DEF TenantInv, CounterCounts
    <3>2. CountedIn(window)' = CountedIn(within[c])'
      BY <1>5 DEF CountedIn
    <3>3. Numbered(d)'
      BY <2>1, <3>1, <3>2, <1>1, <1>5 DEF Numbered
    <3>4. c \notin tenants
      BY MaxPerWindowAssumption, <1>1 DEF TenantInv, Knows, CountedOnce
    <3>5. Knows(d)'
      BY <2>1, <3>4, <1>1, <1>5 DEF Knows
    <3> QED
      BY <3>3, <3>5
  <2>2. CASE d # c
    <3>1. Knows(d)'
      BY <2>2, <1>4 DEF TenantInv, Knows
    <3>2. ASSUME seen[d] # 0 PROVE seen[d] <= Cardinality(CountedIn(within[d])')
      <4>1. /\ within[d] \in 1..window /\ seen[d] \in Nat
            /\ seen[d] <= Cardinality(CountedIn(within[d]))
            /\ Cardinality(CountedIn(window)) \in Nat
        BY <3>2 DEF TenantInv, TenantTypeOK, CountedOnce, Numbered, CounterCounts
      <4>2. CASE within[d] = window
        <5>1. seen[d] <= Cardinality(CountedIn(window)')
          BY <4>1, <4>2, <1>1, CountsOneMore
        <5> QED
          BY <5>1, <4>2, <2>2, <1>4 DEF CountedIn
      <4>3. CASE within[d] # window
        <5>1. CountedIn(within[d])' = {e \in Requests : within'[e] = within'[d]}
          BY DEF CountedIn
        <5>2. \A e \in Requests : within'[e] = within'[d] <=> within[e] = within[d]
          BY <4>1, <4>3, <2>2, <1>4, <1>5
        <5>3. CountedIn(within[d])' = CountedIn(within[d])
          BY <5>1, <5>2 DEF CountedIn
        <5> QED
          BY <4>1, <5>3
      <4> QED
        BY <4>2, <4>3
    <3>3. Numbered(d)'
      BY <2>2, <3>2, <1>4 DEF TenantInv, Numbered
    <3> QED
      BY <3>1, <3>3
  <2> QED
    BY <2>1, <2>2
<1> QED
  BY <1>3, <1>6, <1>7, <1>9, <1>10 DEF TenantInv

\* A step of c that leaves the counter and the numbers alone.
LEMMA HandlerGoesOn ==
    ASSUME TenantInv, NEW c \in Requests, step[c] # "new",
           UNCHANGED <<count, seen, window, within>>, expires' \in BOOLEAN,
           NEW where \in Places \ {"new"}, Goto(c, where), step[c] # "failed",
           \/ UNCHANGED lost
           \/ where = "failed" /\ lost' = [lost EXCEPT ![c] = "EXPIRE"],
           tenants' \in {tenants, tenants \cup {c}},
           Knows(c)'
    PROVE  TenantInv'
<1> USE DEF Goto
<1>1. TenantTypeOK'
  BY DEF TenantInv, TenantTypeOK
<1>2. CountedOnce'
  BY DEF TenantInv, TenantTypeOK, CountedOnce, Uncounted
<1>3. \A d \in Requests : Knows(d)'
  BY DEF TenantInv, TenantTypeOK, Knows
<1> QED
  BY <1>1, <1>2, <1>3, NumbersStay DEF TenantInv

LEMMA HandlerKeeps ==
    ASSUME TenantInv, NEW c \in Requests, HandlerStep(c)
    PROVE  TenantInv'
<1> USE DEF Goto
<1>1. step[c] \in Places /\ seen[c] \in Nat /\ Knows(c) /\ expires \in BOOLEAN
  BY DEF TenantInv, TenantTypeOK
<1>2. CASE Expire(c) \/ ExpireFails(c)
  <2> USE <1>2 DEF Expire, ExpireFails, Fails
  <2>1. expires' \in BOOLEAN
    <3>1. expires' = (count > 0) \/ expires' = expires
      OBVIOUS
    <3>2. (count > 0) \in BOOLEAN
      BY DEF TenantInv, TenantTypeOK
    <3> QED
      BY ONLY <1>1, <3>1, <3>2, Zenon
  <2>2. PICK where \in {"decide", "failed"} :
            /\ Goto(c, where)
            /\ \/ UNCHANGED lost
               \/ where = "failed" /\ lost' = [lost EXCEPT ![c] = "EXPIRE"]
    OBVIOUS
  <2>3. Knows(c)'
    BY <1>1, <2>2 DEF Knows, TenantInv, TenantTypeOK
  <2> QED
    BY <2>1, <2>2, <2>3, HandlerGoesOn DEF Places
<1>3. CASE Decide(c)
  <2> USE <1>3 DEF Decide
  <2>1. PICK where \in {"exceeded", "insert"} :
            /\ Goto(c, where)
            /\ where = IF Exceeded(seen[c]) THEN "exceeded" ELSE "insert"
    OBVIOUS
  <2>2. Knows(c)'
    BY <1>1, <2>1, MaxPerWindowAssumption DEF Knows, Exceeded, TenantInv, TenantTypeOK
  <2> QED
    BY <1>1, <2>1, <2>2, HandlerGoesOn DEF Places
<1>4. CASE InsertTenantKeypair(c) \/ InsertFails(c)
  <2> USE <1>4 DEF InsertTenantKeypair, InsertFails
  <2>1. PICK where \in {"created", "failed"} : Goto(c, where)
    OBVIOUS
  <2>2. Knows(c)'
    BY <1>1, <2>1 DEF Knows, TenantInv, TenantTypeOK
  <2> QED
    BY <1>1, <2>1, <2>2, HandlerGoesOn DEF Places
<1> QED
  BY <1>2, <1>3, <1>4 DEF HandlerStep

\* A window ends: nobody is counted in the next one yet.
LEMMA WindowEndsStep ==
    ASSUME TenantInv, KeyExpires
    PROVE  TenantInv'
<1> USE DEF KeyExpires
<1>1. TenantTypeOK'
  <2>1. expires' \in BOOLEAN
    BY Zenon
  <2> QED
    BY <2>1 DEF TenantInv, TenantTypeOK
<1>2. \A w : CountedIn(w)' = {c \in Requests : within[c] = w'}
  BY DEF CountedIn
<1>3. CountedOnce'
  BY DEF TenantInv, TenantTypeOK, CountedOnce, Uncounted
<1>4. CountedIn(window)' = {}
  BY DEF TenantInv, TenantTypeOK, CountedOnce, CountedIn
<1>5. \A w \in 1..window : IsFiniteSet({c \in Requests : within'[c] = w})
  BY DEF TenantInv, CounterCounts, CountedIn
<1>6. CounterCounts'
  <2>1. \A w \in (1..window') : w = window' \/ w \in 1..window
    BY DEF TenantInv, TenantTypeOK
  <2> QED
    BY <1>4, <1>5, <2>1, FS_EmptySet DEF CounterCounts, CountedIn
<1>7. NumbersDiffer'
  BY DEF TenantInv, NumbersDiffer
<1>8. \A c \in Requests : Numbered(c)' /\ Knows(c)'
  BY DEF TenantInv, Numbered, Knows, CountedIn
<1> QED
  BY <1>1, <1>3, <1>6, <1>7, <1>8 DEF TenantInv

LEMMA TenantStep == TenantInv /\ [TenantNext]_tenantVars => TenantInv'
<1> SUFFICES ASSUME TenantInv, [TenantNext]_tenantVars PROVE TenantInv'
  OBVIOUS
<1>1. CASE KeyExpires
  BY <1>1, WindowEndsStep
<1>2. ASSUME NEW c \in Requests, Incr(c) PROVE TenantInv'
  <2>1. /\ step[c] = "new" /\ CountIn(c)
        /\ UNCHANGED <<expires, tenants, window>> /\ UNCHANGED lost
    BY <1>2 DEF Incr
  <2>2. /\ seen' = [seen EXCEPT ![c] = count']
        /\ \E where \in {"expire", "decide"} : Goto(c, where)
    BY <1>2 DEF Incr
  <2>3. Uncounted(c)
    BY <2>1 DEF Uncounted
  <2> QED
    BY <2>1, <2>2, <2>3, IncrStep
<1>3. ASSUME NEW c \in Requests, IncrFails(c) PROVE TenantInv'
  <2> USE <1>3 DEF IncrFails, Fails
  <2>1. Knows(c)'
    BY MaxPerWindowAssumption DEF Knows, Goto, TenantInv, TenantTypeOK, CountedOnce, Uncounted
  <2>2. "failed" \in Places \ {"new"} /\ expires \in BOOLEAN
    BY DEF Places, TenantInv, TenantTypeOK
  <2>3. TenantTypeOK'
    BY <2>2 DEF TenantInv, TenantTypeOK, Goto
  <2>4. CountedOnce'
    BY DEF TenantInv, TenantTypeOK, CountedOnce, Uncounted, Goto
  <2>5. \A d \in Requests : Knows(d)'
    BY <2>1 DEF TenantInv, TenantTypeOK, Knows, Goto
  <2> QED
    BY <2>3, <2>4, <2>5, NumbersStay DEF TenantInv
<1>6. ASSUME NEW c \in Requests, LateIncr(c) PROVE TenantInv'
  <2> USE <1>6 DEF LateIncr
  <2>1. step[c] = "failed" /\ Uncounted(c)
    BY DEF TenantInv, CountedOnce, Uncounted
  <2> QED
    BY <2>1, IncrStep
<1>7. ASSUME NEW c \in Requests, LateExpire(c) PROVE TenantInv'
  <2> USE <1>7 DEF LateExpire
  <2>1. expires' \in BOOLEAN
    BY DEF TenantInv, TenantTypeOK
  <2>2. TenantTypeOK'
    BY <2>1 DEF TenantInv, TenantTypeOK
  <2>3. CountedOnce' /\ \A d \in Requests : Knows(d)'
    BY DEF TenantInv, TenantTypeOK, CountedOnce, Uncounted, Knows
  <2> QED
    BY <2>2, <2>3, NumbersStay DEF TenantInv
<1>4. ASSUME NEW c \in Requests, HandlerStep(c) PROVE TenantInv'
  BY <1>4, HandlerKeeps
<1>5. CASE UNCHANGED tenantVars
  <2> USE <1>5 DEF tenantVars
  <2>1. TenantTypeOK'
    BY DEF TenantInv, TenantTypeOK
  <2>2. CountedOnce' /\ \A c \in Requests : Knows(c)'
    BY DEF TenantInv, CountedOnce, Uncounted, Knows
  <2> QED
    BY <2>1, <2>2, NumbersStay DEF TenantInv
<1> QED
  BY <1>1, <1>2, <1>3, <1>4, <1>5, <1>6, <1>7 DEF TenantNext

-----------------------------------------------------------------------------
(* The theorems *)

\* The inductive invariant holds of every behaviour of the handlers.
THEOREM TenantInvariant == TenantSpec => []TenantInv
<1>1. TenantInit => TenantInv
  BY TenantInitially
<1>2. TenantInv /\ [TenantNext]_tenantVars => TenantInv'
  BY TenantStep
<1> QED
  BY <1>1, <1>2, PTL DEF TenantSpec

\* Of the requests counted in a window at most MaxPerWindow get a row in
\* tenant_keys: their numbers are different ones of 1..MaxPerWindow.
THEOREM TenantQuotaKept == TenantSpec => []TenantQuota
<1>1. TenantInv => TenantQuota
  <2> SUFFICES ASSUME TenantInv, NEW w \in 1..window
               PROVE  Cardinality(CountedIn(w) \cap tenants) <= MaxPerWindow
    BY DEF TenantQuota
  <2> DEFINE S == CountedIn(w) \cap tenants
             f == [c \in S |-> seen[c]]
  <2>1. f \in [S -> 1..MaxPerWindow]
    BY DEF TenantInv, TenantTypeOK, Knows
  <2>2. \A c, d \in S : f[c] = f[d] => c = d
    BY <2>1 DEF TenantInv, TenantTypeOK, NumbersDiffer, Knows, CountedIn
  <2>3. f \in Injection(S, 1..MaxPerWindow)
    BY <2>1, <2>2 DEF Injection, IsInjective
  <2>4. /\ IsFiniteSet(1..MaxPerWindow)
        /\ Cardinality(1..MaxPerWindow) = MaxPerWindow
    BY MaxPerWindowAssumption, FS_Interval
  <2> HIDE DEF S, f
  <2>5. Cardinality(S) <= Cardinality(1..MaxPerWindow)
    BY <2>3, <2>4, FS_Injection
  <2> QED
    BY <2>4, <2>5 DEF S
<1> QED
  BY <1>1, TenantInvariant, PTL

\* A request that was refused was counted after MaxPerWindow others of its
\* window.
THEOREM TenantRefusedOverQuota == TenantSpec => []RefusedOverQuota
<1>1. TenantInv => RefusedOverQuota
  <2> SUFFICES ASSUME TenantInv, NEW c \in Requests, step[c] = "exceeded"
               PROVE  Cardinality(CountedIn(within[c]) \ {c}) >= MaxPerWindow
    BY DEF RefusedOverQuota
  <2> DEFINE S == CountedIn(within[c])
  <2>1. /\ seen[c] \in Nat /\ seen[c] > MaxPerWindow /\ seen[c] # 0
        /\ within[c] \in 1..window
    BY DEF TenantInv, TenantTypeOK, CountedOnce, Knows, Numbered
  <2>2. IsFiniteSet(S) /\ seen[c] <= Cardinality(S) /\ c \in S
    BY <2>1 DEF TenantInv, CounterCounts, Numbered, CountedIn
  <2>3. Cardinality(S) \in Nat /\ Cardinality(S \ {c}) = Cardinality(S) - 1
    BY <2>2, FS_RemoveElement, FS_CardinalityType
  <2> HIDE DEF S
  <2>4. Cardinality(S \ {c}) >= MaxPerWindow
    BY <2>1, <2>2, <2>3, MaxPerWindowAssumption
  <2> QED
    BY <2>4 DEF S
<1> QED
  BY <1>1, TenantInvariant, PTL

\* A counter without a time to live is somebody's to give it one, unless a
\* command failed.
UnattendedByFault ==
    /\ Unattended => faulted
    /\ \A c \in Requests : lost[c] # "none" => faulted

LEMMA UnattendedStep ==
    ASSUME TenantInv, UnattendedByFault, [TenantNext]_tenantVars
    PROVE  UnattendedByFault'
<1> SUFFICES ASSUME ~faulted' PROVE ~Unattended' /\ \A c \in Requests : lost'[c] = "none"
  BY DEF UnattendedByFault
<1> USE DEF TenantInv, TenantTypeOK, UnattendedByFault, Unattended, Goto
<1>1. CASE \E c \in Requests : Incr(c)
  BY <1>1 DEF Incr, CountIn, NeedsExpire
<1>2. CASE \E c \in Requests : IncrFails(c) \/ LateIncr(c) \/ LateExpire(c)
  BY <1>2 DEF IncrFails, Fails, LateIncr, LateExpire
<1>3. CASE \E c \in Requests : HandlerStep(c)
  <2>1. PICK c \in Requests : HandlerStep(c)
    BY <1>3
  <2>2. CASE Expire(c)
    BY <2>2 DEF Expire
  <2>3. CASE ExpireFails(c)
    BY <2>3 DEF ExpireFails, Fails
  <2>4. CASE Decide(c) \/ InsertTenantKeypair(c) \/ InsertFails(c)
    BY <2>4 DEF Decide, InsertTenantKeypair, InsertFails
  <2> QED
    BY <2>1, <2>2, <2>3, <2>4 DEF HandlerStep
<1>4. CASE KeyExpires
  BY <1>4 DEF KeyExpires
<1>5. CASE UNCHANGED tenantVars
  BY <1>5 DEF tenantVars
<1> QED
  BY <1>1, <1>2, <1>3, <1>4, <1>5 DEF TenantNext

\* The counter of an account is left without a time to live, with no handler
\* about to give it one, only if INCR or EXPIRE failed.
THEOREM UnattendedNeedsFault == TenantSpec => [](Unattended => faulted)
<1>1. TenantInit => UnattendedByFault
  BY DEF TenantInit, UnattendedByFault, Unattended
<1>2. TenantInv /\ UnattendedByFault /\ [TenantNext]_tenantVars => UnattendedByFault'
  BY UnattendedStep
<1>3. UnattendedByFault => (Unattended => faulted)
  BY DEF UnattendedByFault
<1> QED
  BY <1>1, <1>2, <1>3, TenantInvariant, PTL DEF TenantSpec

\* And it stays so for good, unless a lost EXPIRE is still executed: nothing in
\* the handler gives it a time to live later, for INCR answers 1 only when it
\* creates the key.
THEOREM OrphanStays == TenantSpec => [](Orphaned => []Orphaned)
<1>1. TenantInv /\ Orphaned /\ [TenantNext]_tenantVars => Orphaned'
  <2> SUFFICES ASSUME TenantInv, Orphaned, [TenantNext]_tenantVars PROVE Orphaned'
    OBVIOUS
  <2> USE DEF TenantInv, TenantTypeOK, Orphaned, Unattended, Goto
  <2>1. ASSUME NEW c \in Requests, Incr(c) PROVE Orphaned'
    BY <2>1 DEF Incr, CountIn, NeedsExpire
  <2>2. ASSUME NEW c \in Requests, IncrFails(c) \/ LateIncr(c) PROVE Orphaned'
    BY <2>2 DEF IncrFails, LateIncr, Fails, CountIn
  <2>3. ASSUME NEW c \in Requests, LateExpire(c) PROVE Orphaned'
    BY <2>3 DEF LateExpire
  <2>4. ASSUME NEW c \in Requests, HandlerStep(c) PROVE Orphaned'
    BY <2>4 DEF HandlerStep, Expire, ExpireFails, Decide, InsertTenantKeypair, InsertFails
  <2>5. CASE KeyExpires
    BY <2>5 DEF KeyExpires
  <2>6. CASE UNCHANGED tenantVars
    BY <2>6 DEF tenantVars
  <2> QED
    BY <2>1, <2>2, <2>3, <2>4, <2>5, <2>6 DEF TenantNext
<1> QED
  BY <1>1, TenantInvariant, PTL DEF TenantSpec
=============================================================================
