----------------------------- MODULE UserTokens -----------------------------
(***************************************************************************)
(* User tokens: a tenant's backend asks the auth service for a token for   *)
(* one of its users, the token is kept in Redis, and whoever presents it   *)
(* to PerOXO's WebSocket route is connected as that user.                  *)
(*                                                                         *)
(* A token ends in two ways: Redis removes it a time to live after it was  *)
(* stored, and its payload carries the second in which it expires, counted *)
(* from before it was stored.  Storing and verifying are several steps     *)
(* each, and time passes between them.                                     *)
(*                                                                         *)
(* The services share one clock: SystemTime is cut to whole seconds, Redis *)
(* counts exactly.  A project's secret key is named after the project.     *)
(***************************************************************************)
EXTENDS Naturals

CONSTANTS
    Projects,
    People,          \* user ids, the same names in every project
    Requests,        \* calls of generate_user_token_handler, one token each
    Verifications,   \* connection attempts on /ws
    Nothing,         \* no key, no token, no identity
    TicksPerSecond,  \* ticks of the clock in a second
    Ttl,             \* ttl_secs, 600 in the code
    MaxTime          \* bound: the last tick

ASSUME TokenAssumption ==
    /\ Nothing \notin Projects \cup People \cup Requests
    /\ TicksPerSecond \in Nat \ {0}
    /\ Ttl \in Nat
    /\ MaxTime \in Nat

Lifetime == Ttl * TicksPerSecond

VARIABLES
    now,          \* the clock, in ticks
    tenant_keys,  \* the projects whose key is in Postgres
    issue,        \* where each token request is
    asked,        \* what it asks for
    expires_at,   \* the payload's last second
    redis,        \* when Redis removes the token, 0 if it never had it
    verify,       \* where each verification is
    token,        \* the token it was given
    session,      \* the TenantUserId it opened a connection for
    issuedAt,     \* history: when the payload was made
    decidedAt     \* history: when a verification was decided

issueVars == <<issue, asked, expires_at, redis, issuedAt>>
verifyVars == <<verify, token, session, decidedAt>>
tokenVars == <<now, tenant_keys, issueVars, verifyVars>>

TokenInit ==
    /\ now = 0
    /\ tenant_keys = {}
    /\ issue = [r \in Requests |-> "new"]
    /\ asked = [r \in Requests |-> Nothing]
    /\ expires_at = [r \in Requests |-> 0]
    /\ redis = [r \in Requests |-> 0]
    /\ verify = [v \in Verifications |-> "new"]
    /\ token = [v \in Verifications |-> Nothing]
    /\ session = [v \in Verifications |-> Nothing]
    /\ issuedAt = [r \in Requests |-> 0]
    /\ decidedAt = [v \in Verifications |-> 0]

Tick ==
    /\ now < MaxTime
    /\ now' = now + 1
    /\ UNCHANGED <<tenant_keys, issueVars, verifyVars>>

\* duration_since(UNIX_EPOCH).as_secs()
Seconds(t) == t \div TicksPerSecond

\* generate_tenant_handler inserts the key pair of a project.
InsertTenant(p) ==
    /\ p \notin tenant_keys
    /\ tenant_keys' = tenant_keys \cup {p}
    /\ UNCHANGED <<now, issueVars, verifyVars>>

-----------------------------------------------------------------------------
(* Issuing a token *)

\* Fault: it is enough that the key exists in the database.
KeyExists(p, key) == key \in tenant_keys

\* The key stored for the project is the one given.
KeyMatches(p, key) == p \in tenant_keys /\ key = p

\* The stored key is read and compared; the payload is made right after.
AskToken(r, p, u, key) ==
    /\ issue[r] = "new"
    /\ asked' = [asked EXCEPT ![r] = [project_id |-> p, user_id |-> u, key |-> key]]
    /\ IF KeyMatches(p, key)
       THEN /\ issue' = [issue EXCEPT ![r] = "storing"]
            /\ expires_at' = [expires_at EXCEPT ![r] = Seconds(now) + Ttl]
            /\ issuedAt' = [issuedAt EXCEPT ![r] = now]
       ELSE /\ issue' = [issue EXCEPT ![r] = "unauthorized"]
            /\ UNCHANGED <<expires_at, issuedAt>>
    /\ UNCHANGED <<now, tenant_keys, redis, verifyVars>>

\* The query on tenant_keys fails.
AskTokenFails(r) ==
    /\ issue[r] = "new"
    /\ issue' = [issue EXCEPT ![r] = "failed"]
    /\ UNCHANGED <<now, tenant_keys, asked, expires_at, redis, issuedAt, verifyVars>>

SetEx(r) == redis' = [redis EXCEPT ![r] = now + Lifetime]

StoreToken(r) ==
    /\ issue[r] = "storing"
    /\ SetEx(r)
    /\ issue' = [issue EXCEPT ![r] = "given"]
    /\ UNCHANGED <<now, tenant_keys, asked, expires_at, issuedAt, verifyVars>>

\* The token may be in Redis, but nobody was given it.
StoreTokenFails(r) ==
    /\ issue[r] = "storing"
    /\ SetEx(r) \/ UNCHANGED redis
    /\ issue' = [issue EXCEPT ![r] = "failed"]
    /\ UNCHANGED <<now, tenant_keys, asked, expires_at, issuedAt, verifyVars>>

-----------------------------------------------------------------------------
(* Verifying one *)

Decide(v, result) ==
    /\ verify' = [verify EXCEPT ![v] = result]
    /\ decidedAt' = [decidedAt EXCEPT ![v] = now]

\* GET finds the token.
GetToken(v, r) ==
    /\ verify[v] = "new"
    /\ issue[r] = "given"
    /\ now < redis[r]
    /\ token' = [token EXCEPT ![v] = r]
    /\ verify' = [verify EXCEPT ![v] = "checking"]
    /\ UNCHANGED <<now, tenant_keys, issueVars, session, decidedAt>>

\* GET finds nothing: the token was removed, or never was one.
GetNothing(v, r) ==
    /\ verify[v] = "new"
    /\ r # Nothing => issue[r] = "given" /\ now >= redis[r]
    /\ token' = [token EXCEPT ![v] = r]
    /\ Decide(v, "unauthorized")
    /\ UNCHANGED <<now, tenant_keys, issueVars, session>>

\* Faults: the last second does not count; Redis alone decides.
ExpiredEarly(r) == Seconds(now) >= expires_at[r]
ExpiredNever(r) == FALSE

\* now > parsed.expires_at
Expired(r) == Seconds(now) > expires_at[r]

CheckExpiry(v) ==
    /\ verify[v] = "checking"
    /\ Decide(v, IF Expired(token[v]) THEN "unauthorized" ELSE "found")
    /\ UNCHANGED <<now, tenant_keys, issueVars, token, session>>

\* Redis or the call to the auth service fails: PerOXO answers 500.
VerifyFails(v) ==
    /\ verify[v] \in {"new", "checking", "found"}
    /\ verify' = [verify EXCEPT ![v] = "failed"]
    /\ UNCHANGED <<now, tenant_keys, issueVars, token, session, decidedAt>>

\* from_token and on_upgrade: nothing looks at the token again.
Upgrade(v) ==
    /\ verify[v] = "found"
    /\ verify' = [verify EXCEPT ![v] = "open"]
    /\ session' = LET a == asked[token[v]]
                  IN [session EXCEPT ![v] = [project_id |-> a.project_id,
                                             user_id |-> a.user_id]]
    /\ UNCHANGED <<now, tenant_keys, issueVars, token, decidedAt>>

-----------------------------------------------------------------------------
IssueStep(r) ==
    \/ \E p, key \in Projects, u \in People : AskToken(r, p, u, key)
    \/ AskTokenFails(r) \/ StoreToken(r) \/ StoreTokenFails(r)

VerifyStep(v) ==
    \/ \E r \in Requests : GetToken(v, r)
    \/ \E r \in Requests \cup {Nothing} : GetNothing(v, r)
    \/ CheckExpiry(v) \/ VerifyFails(v) \/ Upgrade(v)

TokenNext ==
    \/ Tick
    \/ \E p \in Projects : InsertTenant(p)
    \/ \E r \in Requests : IssueStep(r)
    \/ \E v \in Verifications : VerifyStep(v)

TokenSpec == TokenInit /\ [][TokenNext]_tokenVars

-----------------------------------------------------------------------------
(* Properties *)

\* A token is good for its whole lifetime: one that is refused, by Redis or by
\* its payload, is refused at least Ttl seconds after it was issued.  Cutting
\* both clocks to seconds takes nothing off.
GoodForItsLifetime ==
    \A v \in Verifications :
        verify[v] = "unauthorized" /\ token[v] # Nothing =>
            decidedAt[v] >= issuedAt[token[v]] + Lifetime

\* And no longer, but for the second that is cut off: however long it took to
\* store the token or to decide after it was read, one that is accepted was
\* issued less than Ttl + 1 seconds before.
AcceptedOnlyInLifetime ==
    \A v \in Verifications :
        verify[v] \in {"found", "open"} =>
            decidedAt[v] < issuedAt[token[v]] + Lifetime + TicksPerSecond

\* Every connection is opened for the user and the project that the token it
\* presented was asked for, by somebody who knew the secret key of that very
\* project.
ConnectedMeansVouched ==
    \A v \in Verifications : session[v] # Nothing =>
        /\ token[v] \in Requests
        /\ asked[token[v]] = [project_id |-> session[v].project_id,
                              user_id |-> session[v].user_id,
                              key |-> session[v].project_id]
=============================================================================
