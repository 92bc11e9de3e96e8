------------------------- MODULE ConversationLookup -------------------------
(***************************************************************************)
(* Get-or-insert of the conversation id of a pair of users: the HTTP       *)
(* handler in PerOXO, the gRPC handler in the chat service and its two     *)
(* statements on dm_lookup.  The SELECT and the INSERT are separate        *)
(* statements, without a lightweight transaction; the INSERT overwrites.   *)
(***************************************************************************)
EXTENDS Naturals, FiniteSets

CONSTANTS
    People,   \* user ids of one project, as numbers (only their order matters)
    Calls,    \* requests, each made at most once
    Missing   \* no row, or no answer

ASSUME PeopleAssumption == People \subseteq Nat
ASSUME MissingAssumption == Missing \notin Calls

\* Fault: the ids stay in the order of the request.
AsAsked(a, b) == <<a, b>>

\* The key of dm_lookup: the smaller id first.
Sorted(a, b) == IF a < b THEN <<a, b>> ELSE <<b, a>>

Keys == {k \in People \X People : k[1] # k[2]}

VARIABLES
    dm_lookup,  \* the table: a conversation id per key
    step,       \* where each call is
    key,        \* the key a call works on
    reply       \* the conversation id a call returned

lookupVars == <<dm_lookup, step, key, reply>>

NoKey == <<0, 0>>

\* A fresh Uuid::new_v4 per inserting call: the call's own name.
LookupInit ==
    /\ dm_lookup = [k \in Keys |-> Missing]
    /\ step = [c \in Calls |-> "new"]
    /\ key = [c \in Calls |-> NoKey]
    /\ reply = [c \in Calls |-> Missing]

\* The HTTP handler sorts the ids, the service validates and sorts them again.
Ask(c, a, b) ==
    /\ step[c] = "new"
    /\ IF a = b
       THEN /\ step' = [step EXCEPT ![c] = "failed"]
            /\ UNCHANGED key
       ELSE /\ step' = [step EXCEPT ![c] = "select"]
            /\ key' = [key EXCEPT ![c] = Sorted(a, b)]
    /\ UNCHANGED <<dm_lookup, reply>>

\* Fault: the row is looked up by the first id only.
SelectByFirst(c) ==
    /\ step[c] = "select"
    /\ \E k \in Keys :
         /\ k[1] = key[c][1]
         /\ dm_lookup[k] # Missing
         /\ reply' = [reply EXCEPT ![c] = dm_lookup[k]]
    /\ step' = [step EXCEPT ![c] = "answered"]
    /\ UNCHANGED <<dm_lookup, key>>

\* A row is found: it is the answer.
SelectFinds(c) ==
    /\ step[c] = "select"
    /\ dm_lookup[key[c]] # Missing
    /\ reply' = [reply EXCEPT ![c] = dm_lookup[key[c]]]
    /\ step' = [step EXCEPT ![c] = "answered"]
    /\ UNCHANGED <<dm_lookup, key>>

\* Fault: the result of the SELECT is not looked at.
AlwaysInsert(c) ==
    /\ step[c] = "select"
    /\ step' = [step EXCEPT ![c] = "insert"]
    /\ UNCHANGED <<dm_lookup, key, reply>>

SelectFindsNothing(c) ==
    /\ step[c] = "select"
    /\ dm_lookup[key[c]] = Missing
    /\ step' = [step EXCEPT ![c] = "insert"]
    /\ UNCHANGED <<dm_lookup, key, reply>>

Insert(c) ==
    /\ step[c] = "insert"
    /\ dm_lookup' = [dm_lookup EXCEPT ![key[c]] = c]
    /\ reply' = [reply EXCEPT ![c] = c]
    /\ step' = [step EXCEPT ![c] = "answered"]
    /\ UNCHANGED key

SelectFails(c) ==
    /\ step[c] = "select"
    /\ step' = [step EXCEPT ![c] = "failed"]
    /\ UNCHANGED <<dm_lookup, key, reply>>

\* The caller gets an error, but the INSERT is still somewhere in the cluster.
InsertFails(c) ==
    /\ step[c] = "insert"
    /\ step' = [step EXCEPT ![c] = "lost"]
    /\ UNCHANGED <<dm_lookup, key, reply>>

\* The database applies it after all.
LateInsert(c) ==
    /\ step[c] = "lost"
    /\ dm_lookup' = [dm_lookup EXCEPT ![key[c]] = c]
    /\ step' = [step EXCEPT ![c] = "failed"]
    /\ UNCHANGED <<key, reply>>

LookupNext ==
    \E c \in Calls :
        \/ \E a, b \in People : Ask(c, a, b)
        \/ SelectFinds(c) \/ SelectFindsNothing(c) \/ SelectFails(c)
        \/ Insert(c) \/ InsertFails(c) \/ LateInsert(c)

LookupSpec == LookupInit /\ [][LookupNext]_lookupVars

-----------------------------------------------------------------------------
(* Properties *)

\* Type invariant; dm_lookup has no row for a user and itself.
LookupTypeOK ==
    /\ dm_lookup \in [Keys -> Calls \cup {Missing}]
    /\ step \in [Calls -> {"new", "select", "insert", "lost", "answered", "failed"}]
    /\ key \in [Calls -> Keys \cup {NoKey}]
    /\ reply \in [Calls -> Calls \cup {Missing}]

\* Two users, in whichever order they are named, share at most one row.
OneRowPerPair ==
    \A a, b \in People :
        a # b /\ dm_lookup[<<a, b>>] # Missing => dm_lookup[<<b, a>>] = Missing

\* Every row was inserted by a call for its key, and keys are sorted; so is the
\* answer of a call.
KeysMatch ==
    /\ \A c \in Calls :
        /\ step[c] = "new" => key[c] = NoKey
        /\ step[c] \in {"select", "insert", "lost", "answered"} => key[c] \in Keys
        /\ key[c] \in Keys => key[c][1] < key[c][2]
    /\ \A k \in Keys : dm_lookup[k] # Missing => key[dm_lookup[k]] = k
    /\ \A c \in Calls : reply[c] # Missing => step[c] = "answered"

Inserting(k) == {c \in Calls : step[c] \in {"insert", "lost"} /\ key[c] = k}

\* The conversation of a pair, once there, never goes away and is replaced only
\* by a call that did not find it; and no call joins those once it is there.
\* So when the last of them is done the id is settled for every later call.
SettledPairKeepsConversation ==
    [][\A k \in Keys : dm_lookup[k] # Missing =>
          /\ dm_lookup'[k] \in {dm_lookup[k]} \cup Inserting(k)
          /\ Inserting(k)' \subseteq Inserting(k)]_lookupVars

\* No call gets the conversation of another pair.
ReplyBelongsToPair ==
    \A c \in Calls : reply[c] # Missing => key[reply[c]] = key[c]

\* The inductive invariant of the lookup.
LookupInv == LookupTypeOK /\ KeysMatch /\ ReplyBelongsToPair

\* "a consistent unique key for the pair": everybody who asks for a pair is
\* given the same conversation.
SameConversationForAll ==
    \A c, d \in Calls :
        key[c] = key[d] /\ reply[c] # Missing /\ reply[d] # Missing
            => reply[c] = reply[d]
=============================================================================
