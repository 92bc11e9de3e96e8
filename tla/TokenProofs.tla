---------------------------- MODULE TokenProofs ----------------------------
(***************************************************************************)
(* Proofs about UserTokens, for any number of projects, users, requests    *)
(* and verifications, any time to live and any resolution of the clock.    *)
(*                                                                         *)
(* None of the properties is inductive: each speaks of a decision, and     *)
(* what makes it right was established two or three steps before, when the *)
(* payload was made and when Redis got it.  TokenInv says what holds of a  *)
(* token at each place of its request, and of a verification at each of    *)
(* its places.                                                             *)
(***************************************************************************)
EXTENDS UserTokens, TLAPS

Asked == [project_id : Projects, user_id : People, key : Projects]

TokenTypeOK ==
    /\ now \in Nat
    /\ issue \in [Requests -> {"new", "storing", "given", "unauthorized", "failed"}]
    /\ asked \in [Requests -> Asked \cup {Nothing}]
    /\ expires_at \in [Requests -> Nat]
    /\ redis \in [Requests -> Nat]
    /\ issuedAt \in [Requests -> Nat]
    /\ verify \in [Verifications ->
            {"new", "checking", "found", "open", "unauthorized", "failed"}]
    /\ token \in [Verifications -> Requests \cup {Nothing}]
    /\ session \in [Verifications ->
            [project_id : Projects, user_id : People] \cup {Nothing}]
    /\ decidedAt \in [Verifications -> Nat]

\* A payload that was made is one for somebody with the project's key, and
\* says how long it lasts.
PayloadMade(r) ==
    issue[r] \in {"storing", "given"} =>
        /\ asked[r] \in Asked
        /\ asked[r].key = asked[r].project_id
        /\ expires_at[r] = Seconds(issuedAt[r]) + Ttl

\* Redis keeps a token for its whole lifetime at least: it starts counting
\* after the payload was made.
KeptLongEnough(r) ==
    issue[r] = "given" => issuedAt[r] + Lifetime <= redis[r]

IssueInv ==
    \A r \in Requests :
        issuedAt[r] <= now /\ PayloadMade(r) /\ KeptLongEnough(r)

\* Only a token that was given out is found, and only one that was found is
\* checked and accepted.
FoundInRedis(v) ==
    /\ token[v] # Nothing => issue[token[v]] = "given"
    /\ verify[v] \in {"checking", "found", "open"} => token[v] # Nothing

\* A connection is for the user its own token was asked for.
Vouched(v) ==
    session[v] # Nothing =>
        /\ verify[v] = "open"
        /\ asked[token[v]] = [project_id |-> session[v].project_id,
                              user_id |-> session[v].user_id,
                              key |-> session[v].project_id]

VerifyInv == \A v \in Verifications : FoundInRedis(v) /\ Vouched(v)

TokenInv ==
    /\ TokenTypeOK
    /\ IssueInv
    /\ VerifyInv
    /\ GoodForItsLifetime
    /\ AcceptedOnlyInLifetime

-----------------------------------------------------------------------------
(* The clock *)

\* as_secs() cuts off less than a second.
LEMMA SecondsFacts ==
    ASSUME NEW t \in Nat
    PROVE  /\ Seconds(t) \in Nat
           /\ Seconds(t) * TicksPerSecond <= t
           /\ t < (Seconds(t) + 1) * TicksPerSecond
  BY TokenAssumption DEF Seconds

LEMMA LifetimeType == Lifetime \in Nat
  BY TokenAssumption DEF Lifetime

LEMMA Distributes ==
    ASSUME NEW a \in Nat, NEW b \in Nat
    PROVE  (a + b) * TicksPerSecond = a * TicksPerSecond + b * TicksPerSecond
  BY TokenAssumption

LEMMA Monotone ==
    ASSUME NEW a \in Nat, NEW b \in Nat, a <= b
    PROVE  a * TicksPerSecond <= b * TicksPerSecond
  BY TokenAssumption

\* A payload that has expired, as expires_at is counted, is Ttl seconds old.
LEMMA ExpiredIsOld ==
    ASSUME NEW i \in Nat, NEW t \in Nat, Seconds(t) > Seconds(i) + Ttl
    PROVE  t >= i + Lifetime
<1>1. /\ Seconds(i) \in Nat /\ Seconds(t) \in Nat /\ Ttl \in Nat
      /\ TicksPerSecond \in Nat
  BY SecondsFacts, TokenAssumption
<1>2. (Seconds(i) + 1 + Ttl) * TicksPerSecond <= Seconds(t) * TicksPerSecond
  BY <1>1, Monotone
<1>3. (Seconds(i) + 1 + Ttl) * TicksPerSecond
          = (Seconds(i) + 1) * TicksPerSecond + Ttl * TicksPerSecond
  BY <1>1, Distributes
<1>4. i < (Seconds(i) + 1) * TicksPerSecond /\ Seconds(t) * TicksPerSecond <= t
  BY SecondsFacts
<1> DEFINE A == (Seconds(i) + 1) * TicksPerSecond
           B == Seconds(t) * TicksPerSecond
<1>5. A \in Nat /\ B \in Nat
  BY <1>1
<1>6. A + Lifetime <= B /\ i < A /\ B <= t
  BY <1>2, <1>3, <1>4 DEF Lifetime
<1> HIDE DEF A, B
<1> QED
  BY <1>5, <1>6, LifetimeType

\* One that has not is less than Ttl + 1 seconds old.
LEMMA UnexpiredIsYoung ==
    ASSUME NEW i \in Nat, NEW t \in Nat, ~(Seconds(t) > Seconds(i) + Ttl)
    PROVE  t < i + Lifetime + TicksPerSecond
<1>1. /\ Seconds(i) \in Nat /\ Seconds(t) \in Nat /\ Ttl \in Nat
      /\ TicksPerSecond \in Nat
  BY SecondsFacts, TokenAssumption
<1>2. (Seconds(t) + 1) * TicksPerSecond <= (Seconds(i) + (Ttl + 1)) * TicksPerSecond
  BY <1>1, Monotone
<1>3. (Seconds(i) + (Ttl + 1)) * TicksPerSecond
          = Seconds(i) * TicksPerSecond + (Ttl + 1) * TicksPerSecond
  BY <1>1, Distributes
<1>4. (Ttl + 1) * TicksPerSecond = Ttl * TicksPerSecond + TicksPerSecond
  BY <1>1, Distributes
<1>5. t < (Seconds(t) + 1) * TicksPerSecond /\ Seconds(i) * TicksPerSecond <= i
  BY SecondsFacts
<1> DEFINE A == (Seconds(t) + 1) * TicksPerSecond
           B == Seconds(i) * TicksPerSecond
<1>6. A \in Nat /\ B \in Nat
  BY <1>1
<1>7. A <= B + (Lifetime + TicksPerSecond) /\ t < A /\ B <= i
  BY <1>2, <1>3, <1>4, <1>5 DEF Lifetime
<1> HIDE DEF A, B
<1> QED
  BY <1>1, <1>6, <1>7, LifetimeType

-----------------------------------------------------------------------------
(* The steps *)

LEMMA TokenInitially == TokenInit => TokenInv
  BY TokenAssumption, LifetimeType
     DEF TokenInit, TokenInv, TokenTypeOK, IssueInv, PayloadMade, KeptLongEnough,
         VerifyInv, FoundInRedis, Vouched, GoodForItsLifetime, AcceptedOnlyInLifetime

\* Steps that leave the requests and the verifications alone.
LEMMA ClockStep ==
    ASSUME TokenInv, Tick \/ UNCHANGED tokenVars
               \/ \E p \in Projects : InsertTenant(p)
    PROVE  TokenInv'
<1>1. now' \in Nat /\ now <= now' /\ UNCHANGED <<issueVars, verifyVars>>
  BY DEF TokenInv, TokenTypeOK, Tick, InsertTenant, tokenVars
<1>2. UNCHANGED <<issue, asked, expires_at, redis, issuedAt, verify, token, session,
                  decidedAt>>
  BY <1>1 DEF issueVars, verifyVars
<1>3. TokenTypeOK'
  BY <1>1, <1>2 DEF TokenInv, TokenTypeOK
<1>4. IssueInv'
  BY <1>1, <1>2 DEF TokenInv, TokenTypeOK, IssueInv, PayloadMade, KeptLongEnough, Seconds
<1>5. VerifyInv'
  BY <1>2 DEF TokenInv, VerifyInv, FoundInRedis, Vouched
<1>6. GoodForItsLifetime' /\ AcceptedOnlyInLifetime'
  BY <1>2 DEF TokenInv, GoodForItsLifetime, AcceptedOnlyInLifetime
<1> QED
  BY <1>3, <1>4, <1>5, <1>6 DEF TokenInv

\* A step of a request r keeps the verifications as they are, and what they
\* rest on: every other request, and r itself once its token was given.
LEMMA IssueKeepsVerifications ==
    ASSUME TokenInv, NEW r \in Requests, issue[r] # "given",
           UNCHANGED <<now, verifyVars>>, TokenTypeOK',
           \A s \in Requests \ {r} :
               /\ issue'[s] = issue[s] /\ asked'[s] = asked[s]
               /\ expires_at'[s] = expires_at[s] /\ redis'[s] = redis[s]
               /\ issuedAt'[s] = issuedAt[s],
           issuedAt'[r] <= now, PayloadMade(r)', KeptLongEnough(r)'
    PROVE  TokenInv'
<1> USE TokenAssumption
<1>1. IssueInv'
  BY DEF TokenInv, TokenTypeOK, IssueInv, PayloadMade, KeptLongEnough, Seconds
<1>2. UNCHANGED <<verify, token, session, decidedAt>>
  BY DEF verifyVars
<1>3. \A v \in Verifications : token[v] # Nothing => token[v] \in Requests \ {r}
  BY DEF TokenInv, TokenTypeOK, VerifyInv, FoundInRedis
<1>4. VerifyInv'
  BY <1>2, <1>3 DEF TokenInv, VerifyInv, FoundInRedis, Vouched
<1>5. GoodForItsLifetime' /\ AcceptedOnlyInLifetime'
  BY <1>2, <1>3 DEF TokenInv, VerifyInv, FoundInRedis, GoodForItsLifetime,
                    AcceptedOnlyInLifetime
<1> QED
  BY <1>1, <1>4, <1>5 DEF TokenInv

LEMMA AskStep ==
    ASSUME TokenInv, NEW r \in Requests, NEW p \in Projects, NEW key \in Projects,
           NEW u \in People, AskToken(r, p, u, key)
    PROVE  TokenInv'
<1> USE DEF AskToken
<1>1. Seconds(now) + Ttl \in Nat
  BY SecondsFacts, TokenAssumption DEF TokenInv, TokenTypeOK
<1> DEFINE a == [project_id |-> p, user_id |-> u, key |-> key]
<1>2. a \in Asked /\ a.key = key /\ a.project_id = p
  BY DEF Asked
<1>3. asked'[r] = a
  BY DEF TokenInv, TokenTypeOK
<1> HIDE DEF a
<1>4. TokenTypeOK'
  <2>1. asked' \in [Requests -> Asked \cup {Nothing}]
    BY <1>2 DEF TokenInv, TokenTypeOK, a
  <2> QED
    BY <1>1, <2>1 DEF TokenInv, TokenTypeOK, verifyVars
<1>5. issuedAt'[r] <= now
  BY DEF TokenInv, TokenTypeOK, IssueInv
<1>6. PayloadMade(r)'
  <2>1. CASE KeyMatches(p, key)
    <3>1. expires_at'[r] = Seconds(now) + Ttl /\ issuedAt'[r] = now
      BY <2>1 DEF TokenInv, TokenTypeOK
    <3>2. asked'[r].key = asked'[r].project_id /\ asked'[r] \in Asked
      BY <2>1, <1>2, <1>3 DEF KeyMatches
    <3> QED
      BY <3>1, <3>2 DEF PayloadMade, Seconds
  <2>2. CASE ~KeyMatches(p, key)
    BY <2>2 DEF TokenInv, TokenTypeOK, PayloadMade
  <2> QED
    BY <2>1, <2>2
<1>7. KeptLongEnough(r)'
  BY DEF TokenInv, TokenTypeOK, KeptLongEnough
<1>8. \A s \in Requests \ {r} :
          /\ issue'[s] = issue[s] /\ asked'[s] = asked[s]
          /\ expires_at'[s] = expires_at[s] /\ redis'[s] = redis[s]
          /\ issuedAt'[s] = issuedAt[s]
  BY DEF TokenInv, TokenTypeOK
<1>9. issue[r] # "given" /\ UNCHANGED <<now, verifyVars>>
  BY DEF tokenVars
<1> QED
  BY <1>4, <1>5, <1>6, <1>7, <1>8, <1>9, IssueKeepsVerifications

LEMMA StoreStep ==
    ASSUME TokenInv, NEW r \in Requests,
           AskTokenFails(r) \/ StoreToken(r) \/ StoreTokenFails(r)
    PROVE  TokenInv'
<1> USE DEF AskTokenFails, StoreToken, StoreTokenFails, SetEx
<1>1. TokenTypeOK'
  BY LifetimeType DEF TokenInv, TokenTypeOK, verifyVars
<1>2. issuedAt'[r] <= now
  BY DEF TokenInv, IssueInv
<1>3. PayloadMade(r)'
  BY DEF TokenInv, TokenTypeOK, IssueInv, PayloadMade, Seconds
<1>4. KeptLongEnough(r)'
  BY LifetimeType DEF TokenInv, TokenTypeOK, IssueInv, KeptLongEnough
<1>5. \A s \in Requests \ {r} :
          /\ issue'[s] = issue[s] /\ asked'[s] = asked[s]
          /\ expires_at'[s] = expires_at[s] /\ redis'[s] = redis[s]
          /\ issuedAt'[s] = issuedAt[s]
  BY DEF TokenInv, TokenTypeOK
<1>6. issue[r] # "given" /\ UNCHANGED <<now, verifyVars>>
  OBVIOUS
<1> QED
  BY <1>1, <1>2, <1>3, <1>4, <1>5, <1>6, IssueKeepsVerifications

\* The same for a step of a verification v.
LEMMA VerifyKeepsOthers ==
    ASSUME TokenInv, NEW v \in Verifications, UNCHANGED <<now, issueVars>>,
           TokenTypeOK',
           \A w \in Verifications \ {v} :
               /\ verify'[w] = verify[w] /\ token'[w] = token[w]
               /\ session'[w] = session[w] /\ decidedAt'[w] = decidedAt[w],
           FoundInRedis(v)', Vouched(v)',
           verify'[v] = "unauthorized" /\ token'[v] # Nothing =>
               decidedAt'[v] >= issuedAt[token'[v]] + Lifetime,
           verify'[v] \in {"found", "open"} =>
               decidedAt'[v] < issuedAt[token'[v]] + Lifetime + TicksPerSecond
    PROVE  TokenInv'
<1>1. UNCHANGED <<issue, asked, expires_at, redis, issuedAt, now>>
  BY DEF issueVars
<1>2. IssueInv'
  BY <1>1 DEF TokenInv, IssueInv, PayloadMade, KeptLongEnough, Seconds
<1>3. VerifyInv'
  BY <1>1 DEF TokenInv, VerifyInv, FoundInRedis, Vouched
<1>4. GoodForItsLifetime'
  BY <1>1 DEF TokenInv, GoodForItsLifetime
<1>5. AcceptedOnlyInLifetime'
  BY <1>1 DEF TokenInv, AcceptedOnlyInLifetime
<1> QED
  BY <1>2, <1>3, <1>4, <1>5 DEF TokenInv

LEMMA GetStep ==
    ASSUME TokenInv, NEW v \in Verifications,
           \/ \E r \in Requests : GetToken(v, r)
           \/ \E r \in Requests \cup {Nothing} : GetNothing(v, r)
    PROVE  TokenInv'
<1> USE TokenAssumption
<1>1. CASE \E r \in Requests : GetToken(v, r)
  <2>1. PICK r \in Requests : GetToken(v, r)
    BY <1>1
  <2> USE <2>1 DEF GetToken
  <2>2. TokenTypeOK'
    BY DEF TokenInv, TokenTypeOK, issueVars
  <2>3. \A w \in Verifications \ {v} :
            /\ verify'[w] = verify[w] /\ token'[w] = token[w]
            /\ session'[w] = session[w] /\ decidedAt'[w] = decidedAt[w]
    BY DEF TokenInv, TokenTypeOK
  <2>4. verify'[v] = "checking" /\ token'[v] = r /\ issue' = issue
    BY DEF TokenInv, TokenTypeOK, issueVars
  <2>5. FoundInRedis(v)'
    BY <2>4 DEF FoundInRedis
  <2>6. Vouched(v)'
    BY DEF TokenInv, VerifyInv, Vouched
  <2> QED
    BY <2>2, <2>3, <2>4, <2>5, <2>6, VerifyKeepsOthers
<1>2. CASE \E r \in Requests \cup {Nothing} : GetNothing(v, r)
  <2>1. PICK r \in Requests \cup {Nothing} : GetNothing(v, r)
    BY <1>2
  <2> USE <2>1 DEF GetNothing, Decide
  <2>2. TokenTypeOK'
    BY DEF TokenInv, TokenTypeOK, issueVars
  <2>3. \A w \in Verifications \ {v} :
            /\ verify'[w] = verify[w] /\ token'[w] = token[w]
            /\ session'[w] = session[w] /\ decidedAt'[w] = decidedAt[w]
    BY DEF TokenInv, TokenTypeOK
  <2>4. /\ verify'[v] = "unauthorized" /\ token'[v] = r /\ decidedAt'[v] = now
        /\ issue' = issue
    BY DEF TokenInv, TokenTypeOK, issueVars
  <2>5. FoundInRedis(v)'
    BY <2>4 DEF FoundInRedis
  <2>6. Vouched(v)'
    BY DEF TokenInv, VerifyInv, Vouched
  <2>7. r # Nothing => now >= issuedAt[r] + Lifetime
    BY LifetimeType DEF TokenInv, TokenTypeOK, IssueInv, KeptLongEnough
  <2> QED
    BY <2>2, <2>3, <2>4, <2>5, <2>6, <2>7, VerifyKeepsOthers
<1> QED
  BY <1>1, <1>2

LEMMA CheckStep ==
    ASSUME TokenInv, NEW v \in Verifications, CheckExpiry(v)
    PROVE  TokenInv'
<1> DEFINE r == token[v]
<1> USE TokenAssumption DEF CheckExpiry, Decide
<1>1. r \in Requests /\ issue[r] = "given"
  BY DEF TokenInv, TokenTypeOK, VerifyInv, FoundInRedis
<1>2. expires_at[r] = Seconds(issuedAt[r]) + Ttl /\ issuedAt[r] \in Nat /\ now \in Nat
  BY <1>1 DEF TokenInv, TokenTypeOK, IssueInv, PayloadMade
<1>3. TokenTypeOK'
  BY DEF TokenInv, TokenTypeOK, issueVars
<1>4. \A w \in Verifications \ {v} :
          /\ verify'[w] = verify[w] /\ token'[w] = token[w]
          /\ session'[w] = session[w] /\ decidedAt'[w] = decidedAt[w]
  BY DEF TokenInv, TokenTypeOK
<1>5. /\ verify'[v] = IF Expired(r) THEN "unauthorized" ELSE "found"
      /\ token'[v] = r /\ decidedAt'[v] = now /\ UNCHANGED <<now, issueVars>>
  BY DEF TokenInv, TokenTypeOK
<1>6. FoundInRedis(v)'
  BY <1>1, <1>5 DEF FoundInRedis, issueVars
<1>7. Vouched(v)'
  BY DEF TokenInv, VerifyInv, Vouched
<1>8. IF Expired(r) THEN now >= issuedAt[r] + Lifetime
      ELSE now < issuedAt[r] + Lifetime + TicksPerSecond
  BY <1>2, ExpiredIsOld, UnexpiredIsYoung DEF Expired
<1> HIDE DEF r
<1> QED
  BY <1>3, <1>4, <1>5, <1>6, <1>7, <1>8, VerifyKeepsOthers

LEMMA EndStep ==
    ASSUME TokenInv, NEW v \in Verifications, VerifyFails(v) \/ Upgrade(v)
    PROVE  TokenInv'
<1> USE TokenAssumption
<1>1. CASE VerifyFails(v)
  <2> USE <1>1 DEF VerifyFails
  <2>1. TokenTypeOK'
    BY DEF TokenInv, TokenTypeOK, issueVars
  <2>2. \A w \in Verifications \ {v} :
            /\ verify'[w] = verify[w] /\ token'[w] = token[w]
            /\ session'[w] = session[w] /\ decidedAt'[w] = decidedAt[w]
    BY DEF TokenInv, TokenTypeOK
  <2>3. FoundInRedis(v)' /\ Vouched(v)' /\ verify'[v] = "failed"
    BY DEF TokenInv, TokenTypeOK, VerifyInv, FoundInRedis, Vouched, issueVars
  <2> QED
    BY <2>1, <2>2, <2>3, VerifyKeepsOthers
<1>2. CASE Upgrade(v)
  <2> USE <1>2 DEF Upgrade
  <2> DEFINE a == asked[token[v]]
             s == [project_id |-> a.project_id, user_id |-> a.user_id]
  <2>1. token[v] \in Requests /\ a \in Asked /\ a.key = a.project_id
    BY DEF TokenInv, TokenTypeOK, VerifyInv, FoundInRedis, IssueInv, PayloadMade
  <2>2. /\ s \in [project_id : Projects, user_id : People]
        /\ a = [project_id |-> s.project_id, user_id |-> s.user_id, key |-> s.project_id]
    BY <2>1 DEF Asked
  <2>3. session' = [session EXCEPT ![v] = s]
    OBVIOUS
  <2> HIDE DEF s
  <2>4. TokenTypeOK'
    BY <2>2, <2>3 DEF TokenInv, TokenTypeOK, issueVars
  <2>5. \A w \in Verifications \ {v} :
            /\ verify'[w] = verify[w] /\ token'[w] = token[w]
            /\ session'[w] = session[w] /\ decidedAt'[w] = decidedAt[w]
    BY <2>3 DEF TokenInv, TokenTypeOK
  <2>6. verify'[v] = "open" /\ session'[v] = s /\ UNCHANGED <<token, issue, asked>>
    BY <2>3 DEF TokenInv, TokenTypeOK, issueVars
  <2>7. Vouched(v)'
    BY <2>2, <2>6 DEF Vouched
  <2>8. FoundInRedis(v)'
    BY <2>6 DEF TokenInv, VerifyInv, FoundInRedis
  <2>9. decidedAt'[v] < issuedAt[token'[v]] + Lifetime + TicksPerSecond
    BY DEF TokenInv, AcceptedOnlyInLifetime
  <2> QED
    BY <2>4, <2>5, <2>6, <2>7, <2>8, <2>9, VerifyKeepsOthers
<1> QED
  BY <1>1, <1>2

LEMMA TokenStep == TokenInv /\ [TokenNext]_tokenVars => TokenInv'
<1> SUFFICES ASSUME TokenInv, [TokenNext]_tokenVars PROVE TokenInv'
  OBVIOUS
<1>1. CASE Tick \/ UNCHANGED tokenVars \/ \E p \in Projects : InsertTenant(p)
  BY <1>1, ClockStep
<1>2. ASSUME NEW r \in Requests, IssueStep(r) PROVE TokenInv'
  BY <1>2, AskStep, StoreStep DEF IssueStep
<1>3. ASSUME NEW v \in Verifications, VerifyStep(v) PROVE TokenInv'
  BY <1>3, GetStep, CheckStep, EndStep DEF VerifyStep
<1> QED
  BY <1>1, <1>2, <1>3 DEF TokenNext

-----------------------------------------------------------------------------
(* The theorems *)

\* The inductive invariant holds of every behaviour of the token code.
THEOREM TokenInvariant == TokenSpec => []TokenInv
<1>1. TokenInit => TokenInv
  BY TokenInitially
<1>2. TokenInv /\ [TokenNext]_tokenVars => TokenInv'
  BY TokenStep
<1> QED
  BY <1>1, <1>2, PTL DEF TokenSpec

\* A token that is refused, by Redis or by the expiry in its payload, is at
\* least Ttl seconds old, whatever the resolution of the clock and however
\* long storing and verifying took.
THEOREM TokenGoodForItsLifetime == TokenSpec => []GoodForItsLifetime
<1>1. TokenInv => GoodForItsLifetime
  BY DEF TokenInv
<1> QED
  BY <1>1, TokenInvariant, PTL

\* A token that is accepted is less than Ttl + 1 seconds old.
THEOREM TokenAcceptedOnlyInLifetime == TokenSpec => []AcceptedOnlyInLifetime
<1>1. TokenInv => AcceptedOnlyInLifetime
  BY DEF TokenInv
<1> QED
  BY <1>1, TokenInvariant, PTL

\* A connection is opened only for the user and project of the token it presented,
\* which somebody with the secret key of that project asked for.
THEOREM OnlyVouchedConnect == TokenSpec => []ConnectedMeansVouched
<1>1. TokenInv => ConnectedMeansVouched
  <2> SUFFICES ASSUME TokenInv, NEW v \in Verifications, session[v] # Nothing
               PROVE  /\ token[v] \in Requests
                      /\ asked[token[v]] = [project_id |-> session[v].project_id,
                                            user_id |-> session[v].user_id,
                                            key |-> session[v].project_id]
    BY DEF ConnectedMeansVouched
  <2>1. token[v] \in Requests
    BY DEF TokenInv, TokenTypeOK, VerifyInv, FoundInRedis, Vouched
  <2> QED
    BY <2>1 DEF TokenInv, VerifyInv, Vouched
<1> QED
  BY <1>1, TokenInvariant, PTL
============================================================================
