------------------------- MODULE TenantRegistration -------------------------
(***************************************************************************)
(* Generating a tenant in the auth service, for one Google account: the    *)
(* fixed-window rate limiter in Redis, then the INSERT of the key pair in  *)
(* Postgres.  INCR and EXPIRE are two commands of a handler that runs      *)
(* concurrently with others of the same account, and each of them may      *)
(* fail.  A failed command may have been executed, may be executed at any  *)
(* later time, or never.                                                   *)
(***************************************************************************)
EXTENDS Naturals, FiniteSets

CONSTANTS
    Requests,     \* calls of generate_tenant_handler with a valid token
    MaxPerWindow  \* MAX_REQUESTS, 3 in the code

ASSUME MaxPerWindowAssumption == MaxPerWindow \in Nat \ {0}

VARIABLES
    count,    \* the value of the key rl:gen_tenant:<sub>, 0 when there is none
    expires,  \* whether the key has a time to live
    step,     \* where each request is
    seen,     \* the answer of INCR each request got
    lost,     \* a failed command that Redis may still execute, by request
    tenants,  \* the requests whose key pair is in tenant_keys
    window,   \* history: counts the windows
    within,   \* history: the window in which each request was counted, 0 if not
    faulted   \* history: whether a Redis command failed

tenantVars == <<count, expires, step, seen, lost, tenants, window, within,
                faulted>>

TenantInit ==
    /\ count = 0
    /\ expires = FALSE
    /\ step = [c \in Requests |-> "new"]
    /\ seen = [c \in Requests |-> 0]
    /\ lost = [c \in Requests |-> "none"]
    /\ tenants = {}
    /\ window = 1
    /\ within = [c \in Requests |-> 0]
    /\ faulted = FALSE

Goto(c, where) == step' = [step EXCEPT ![c] = where]

\* INCR creates the key, without a time to live, when there is none.
CountIn(c) ==
    /\ count' = count + 1
    /\ within' = [within EXCEPT ![c] = window]

\* Fault: off by one; INCR never answers 0.
NeedsExpireAtZero(n) == n = 0

\* Only the request that created the key goes on to EXPIRE.
NeedsExpire(n) == n = 1

Incr(c) ==
    /\ step[c] = "new"
    /\ CountIn(c)
    /\ seen' = [seen EXCEPT ![c] = count']
    /\ Goto(c, IF NeedsExpire(count') THEN "expire" ELSE "decide")
    /\ UNCHANGED <<expires, lost, tenants, window, faulted>>

\* The connection breaks and the handler returns an error.
Fails(c, command) ==
    /\ Goto(c, "failed")
    /\ lost' = [lost EXCEPT ![c] = command]
    /\ faulted' = TRUE
    /\ UNCHANGED <<count, expires, seen, tenants, window, within>>

IncrFails(c) == step[c] = "new" /\ Fails(c, "INCR")

\* Redis executes it all the same; nobody gets the answer.
LateIncr(c) ==
    /\ lost[c] = "INCR"
    /\ CountIn(c)
    /\ lost' = [lost EXCEPT ![c] = "none"]
    /\ UNCHANGED <<expires, step, seen, tenants, window, faulted>>

\* EXPIRE does nothing when there is no key.
Expire(c) ==
    /\ step[c] = "expire"
    /\ expires' = (count > 0)
    /\ Goto(c, "decide")
    /\ UNCHANGED <<count, seen, lost, tenants, window, within, faulted>>

ExpireFails(c) == step[c] = "expire" /\ Fails(c, "EXPIRE")

LateExpire(c) ==
    /\ lost[c] = "EXPIRE"
    /\ expires' = (count > 0)
    /\ lost' = [lost EXCEPT ![c] = "none"]
    /\ UNCHANGED <<count, step, seen, tenants, window, within, faulted>>

\* Faults: off by one, in either direction.
ExceededLate(n) == n > MaxPerWindow + 1
ExceededEarly(n) == n >= MaxPerWindow

Exceeded(n) == n > MaxPerWindow

Decide(c) ==
    /\ step[c] = "decide"
    /\ Goto(c, IF Exceeded(seen[c]) THEN "exceeded" ELSE "insert")
    /\ UNCHANGED <<count, expires, seen, lost, tenants, window, within, faulted>>

InsertTenantKeypair(c) ==
    /\ step[c] = "insert"
    /\ tenants' = tenants \cup {c}
    /\ Goto(c, "created")
    /\ UNCHANGED <<count, expires, seen, lost, window, within, faulted>>

\* The INSERT returns an error; the row may be there all the same (when it
\* appears makes no difference to the quota).
InsertFails(c) ==
    /\ step[c] = "insert"
    /\ tenants' = tenants \cup {c} \/ UNCHANGED tenants
    /\ Goto(c, "failed")
    /\ UNCHANGED <<count, expires, seen, lost, window, within, faulted>>

\* Redis removes the key when its time is over.
KeyExpires ==
    /\ expires
    /\ count' = 0
    /\ expires' = FALSE
    /\ window' = window + 1
    /\ UNCHANGED <<step, seen, lost, tenants, within, faulted>>

HandlerStep(c) ==
    \/ Expire(c) \/ ExpireFails(c) \/ Decide(c)
    \/ InsertTenantKeypair(c) \/ InsertFails(c)

TenantNext ==
    \/ KeyExpires
    \/ \E c \in Requests :
        Incr(c) \/ IncrFails(c) \/ LateIncr(c) \/ LateExpire(c) \/ HandlerStep(c)

TenantSpec == TenantInit /\ [][TenantNext]_tenantVars

\* A handler that has started goes on, and time passes.  A lost command need
\* never be executed.
TenantFairSpec ==
    /\ TenantSpec
    /\ \A c \in Requests : WF_tenantVars(HandlerStep(c))
    /\ WF_tenantVars(KeyExpires)

-----------------------------------------------------------------------------
(* Properties *)

CountedIn(w) == {c \in Requests : within[c] = w}

\* The quota: of the requests counted in one window at most MaxPerWindow ever
\* get a row in tenant_keys, however the handlers and the end of the window
\* interleave and whichever commands fail.
TenantQuota ==
    \A w \in 1..window : Cardinality(CountedIn(w) \cap tenants) <= MaxPerWindow

\* Nobody is refused before the quota is used: a request that was refused
\* was counted in a window after MaxPerWindow other requests, failed ones
\* included.
RefusedOverQuota ==
    \A c \in Requests : step[c] = "exceeded" =>
        Cardinality(CountedIn(within[c]) \ {c}) >= MaxPerWindow

\* The key has no time to live and no handler is about to give it one.
Unattended ==
    /\ count > 0
    /\ ~expires
    /\ \A c \in Requests : step[c] # "expire"

\* Nor can a lost EXPIRE.
Orphaned == Unattended /\ \A c \in Requests : lost[c] # "EXPIRE"

\* Every window ends, unless a Redis command failed and left the counter without
\* a time to live.  Such a counter stays for good unless the failed command was
\* an EXPIRE that is executed after all, and with it the account's refusals once
\* the quota is used.
WindowEnds ==
    /\ count > 0 ~> (count = 0 \/ (Unattended /\ faulted))
    /\ [](Orphaned => []Orphaned)
=============================================================================
