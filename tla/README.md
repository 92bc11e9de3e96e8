# A TLA+ verification project for PerOXO

PerOXO is a multi-tenant chat backend in Rust. A WebSocket server (`src/peroxo`)
is built from actors on tokio channels; it stores messages through a gRPC chat
service in front of ScyllaDB (`src/chat-service`); an auth service
(`src/auth-service`) issues tenants and tokens with Postgres and Redis; a
RabbitMQ consumer (`src/rabbit_consumer`) takes messages from two queues to the
database. This directory models the parts that carry its concurrency, checks them
with TLC, and proves every safety invariant the runs check with TLAPS, for any
number of users, connections, rooms, messages and requests.

## 1. Inventory

| Part | State | Operations | Talks to | What is hard about it |
|---|---|---|---|---|
| message router (`message_router/`) | `users`, `online_users`, `rooms` | one task, one message at a time: register, unregister, direct message, join, leave, room message, history, sync | sessions and rooms by channel, persistence by spawned task | `UnregisterUser` names a user and no connection; two fields in step |
| user session (`user_session/`) | a bounded message channel, a bounded ack channel, a send task, a receive task | register, run, number and send a message, acknowledge, write to the socket, unregister | router, socket | asynchronous abort, full queues, acknowledgments after the end |
| connection manager, WebSocket route | none | verify the token, create and run a session | auth service, router | a refused connection must not clean up another one's registration |
| room actor (`room_actor.rs`) | `members`, its own channel | add, remove, broadcast, cleanup every 60 s | sessions' channels, persistence | entries of connections that are gone |
| persistence service (`persistance_actor/`) | none kept; a retry loop per message | write with up to 3 retries, page, sync | chat service over gRPC | a failed call may have been executed |
| chat service (`chat-service`) | tables `direct_messages`, `room_messages`, `user_conversations`, `dm_lookup`, ... | batches, pages, sync, get-or-insert of a conversation | ScyllaDB | separate statements without a transaction, writes that take effect late |
| auth service: tenants | a Redis counter, `tenant_keys` | rate limit, key pair, INSERT | Redis, Postgres | two Redis commands, each may fail |
| auth service: tokens | Redis keys with a time to live | issue, verify | Redis, Postgres, PerOXO | two ways to expire, cut to seconds or exact; time passes between the steps |
| auth service: Google sign-in | none | check an identity | Google | - |
| rabbit consumer | two queues at the broker | consume, write, acknowledge | RabbitMQ, ScyllaDB | every write is refused with the current tables; acknowledges deliveries whose processing failed; redelivery after a crash; one consumer may end alone |
| MongoDB variant of the persistence service (`mongo_db` besides `persistence`) | `direct_messages`, `user_conversations` | write in a transaction, page | MongoDB | ids compared as text |
| user service, metrics, migrations | - | read-only or start-up | - | - |

What makes the parts correct:

* **Registry.** One running connection per user; the registered channel is that
  of the running connection; nobody but an ended connection loses its
  registration; every ended connection loses it; every connection is answered.
* **Writes.** `Persisted` is said only of what is in the database; a failure is
  reported only after an error answer or all attempts; nothing is sent after
  the loop returned; once a message is reported as persisted, the conversation
  list moves back to it only by an attempt that was given up (two first
  attempts under way together may set it in either order); the loop ends.
* **Chat.** Per sender (direct) or per room, messages are seen in one order and
  once, whatever is dropped by full queues; each message is acknowledged
  honestly, once, to the connection that sent it, and eventually.
* **Rooms.** The cleanup removes members that are gone and no others; a message
  to a room that does not exist goes nowhere.
* **Lookup.** A pair of users has one row and gets no other pair's conversation.
* **History.** A reader is given each message once, in order, and misses only
  what was not there when it read; a walk through the pages ends unless requests
  go on failing (in the shipped build they do: section 6).
* **Quota.** No more tenants per window than allowed, nobody refused early, and
  a window ends unless a command failed.
* **Tokens.** A token is good for its lifetime and hardly longer, and opens a
  connection only for the user that the holder of the project's key named.
* **Consumer.** No message leaves its queue before its handler ran to the end on
  it; messages are taken in order, redelivered ones included; no message blocks
  the queue. (What the handler does with a message, storing it, fails always:
  section 6.)

The hazards, each with its line in the code and the properties that cover it,
are listed in `PROJECT.json`.

## 2. Modules

| Module | Models | Built on |
|---|---|---|
| `MessageRouter` | the router's registry, the life cycle of sessions | |
| `Presence` | what the registry promises | abstract specification |
| `UserSession` | channels, numbering, acknowledgments, the send task, both tasks' ends | extends `MessageRouter`, uses `DurableWrite` |
| `DirectMessages` | direct messages end to end | extends `UserSession` |
| `Rooms` | the router's room half and the room actors | extends `UserSession` |
| `PersistenceService` | the retry loop, the gRPC calls, the batches | |
| `DurableWrite` | what a caller of a write may rely on | abstract specification |
| `MessageHistory` | pages and sync against concurrent writes | |
| `ConversationLookup` | get-or-insert on `dm_lookup` | |
| `TenantRegistration` | the rate limiter and the INSERT behind it | |
| `UserTokens` | issuing a token, verifying it, opening the connection | |
| `RabbitConsumer` | both consumers, the process, the broker's queues | |
| `MessageRouterProofs` | theorems about the registry | `MessageRouter`, `Presence` |
| `ChatProofs` | theorems about direct messages and rooms | `DirectMessages`, `Rooms` |
| `PersistenceProofs`, `LookupProofs`, `HistoryProofs`, `TenantProofs`, `TokenProofs`, `RabbitProofs` | theorems | the module each is named after |
| `MC*` | the instances TLC checks | |

The modules compose in two ways. `DirectMessages` and `Rooms` contain all of
`MessageRouter` (the chat messages share the router's channel with the
registration messages), and `ImplementsRegistry` shows that the registry does
not notice. They see a write as `DurableWrite`, and `PersistenceService` is shown
to implement it, so the retry loop is not multiplied with the interleavings of
the actors.

### How state and actions correspond to the code

*MessageRouter.* `inbox` is the router's unbounded channel, `users` and
`online_users` its fields (the vector as a multiplicity per user). A session is a
connection, used once, of the user its token was verified for (`Owner`). `phase`
is the place in `UserSession::new` and `run`: `Connect` sends `RegisterUser`,
`Start` and `Refused` take the two answers, `EndRun` is everything after the
`select!` of `run`. A task that is aborted is `"aborting"` and goes on acting
until `DropSendTask` / `DropRecvTask`: `abort()` does not wait for a poll that is
under way on another worker thread. `HandleRegisterUser` and
`HandleUnregisterUser` are the two handlers. The path "the router is gone" does
not occur: the router's loop ends only when every sender is gone, and each
session and the server's state hold one.

*UserSession.* `channel` and `acks` are the two bounded queues, `written` the
socket. `Number` takes a `Uuid::now_v1` and `SendDraft` sends the message and
spawns the acknowledgment task: two steps, because other receive tasks run in
between. `Acknowledge` waits for room in the ack queue and gives up if the send
task, which owns the receiving ends, is gone. `SendTaskBreaks` is a failed write
or the end of the last ack sender. The arms for a frame that cannot be serialized,
which log and skip it (`session.rs:89-91`, `111-113`), are left out: strings,
numbers and ids always serialize. Ids increase with the time they are taken,
across sessions: `now_v1` shares one clock and counter in the process.

*DirectMessages.* `HandleDirectMessage` starts the write and does `try_send` to
the registered recipient, each whatever the other does.

*Rooms.* `rooms` is the router's map, `roomInbox` each actor's channel, `members`
each actor's map. The broadcast loop is one step: it has no await, and with one
room nothing can tell it from its iterations. `Cleanup` is the 60-second arm of
the actor's `select!` and may happen at any time. A client's `LeaveRoom` message
is ignored by the receive task, so only `HostLeaveRoom`, an application that
embeds the router, sends `LeaveRoom`; it is optional (`HostLeaves`).

*PersistenceService.* A message's `task` is in the loop; `attempts` is the loop
variable; `request` is the fate of each attempt at the chat service. A `Status`
(`CallFailed`) says nothing about the request: it may have been executed, may be
executed later or never. An answer with `success = false` ends the loop; a logged
batch behind it may still be replayed. `latest` is what the rest of the batch
writes: the message whose time `user_conversations.last_message` (of both users)
or `project_rooms.last_activity` shows; it is overwritten without a condition. The
cluster's write timestamps would let some late batches lose against a newer one;
the model lets each of them win. The store is what the database accepted
(the code reads and writes with `Consistency::One`; copies that disagree are not
modelled).

*DurableWrite* is also the write of a build with `mongo_db`: one transaction with the
row and both list entries, no retry, and an error that says nothing about
whether the commit took place.

*MessageHistory.* One conversation, in one of the two builds that compile
(`mongo_db` alone does not: `state.rs:6-17` and `persistance_actor/handlers.rs:5`
gate what it needs on `persistence`). With `persistence` alone, the default and the
image the workflow builds, pages and sync are asked of the chat service. Its
session is built without a keyspace (`chat-service/src/main.rs:75-80`; the session that
uses `affinity` is the migration's and is dropped), and the page queries name
`direct_messages` without one, so `PageReadable` is false: each request fails, is
logged and never answered. The sync query names `affinity.direct_messages` and works.
With `mongo_db` as well, direct messages are written to MongoDB and pages read from
it, while sync still reads the chat service's table, which then has no direct
messages (`SyncTable`). In MongoDB ids are stored as text, and the text of a
version 1 UUID begins with the low 32 bits of the time, which start again about
every seven minutes: `Rank` is that order, `Wrap` the number of ids per round.
`has_more` is said of a full page. `rows` are the ids with a row in the table the
build writes; rows appear in any order after their id was taken, and any request
may fail, any number of times. One reader walks through the pages, one
syncs; these are the uses the answers are made for, the clients are outside the
repository. `overtaken` is a history variable: ids without a row at the time a
greater one was read. The two readers may be of one or of two connections: they
share nothing in the code. A page's read is one query and one step. `Descending` and
`Ascending` are the sorted enumeration of a set of ids, as a `CHOOSE`.

*ConversationLookup.* `dm_lookup` by sorted pair. A failed INSERT leaves the call
`"lost"`, and `LateInsert` may apply it at any later time. Last-write-wins
timestamps would let some late inserts lose; the model lets each of them win.

*TenantRegistration.* One account, hence one Redis key. `count` and `expires` are
the key; a failed command (`lost`) may have been executed, may be executed later
(`LateIncr`, `LateExpire`) or never. `window`, `within` and `faulted` are history
variables. `Unattended` is a counter without a time to live that no request is about
to set; it is `Orphaned` when no lost EXPIRE is left either.

*UserTokens.* One clock for all services, in ticks; `SystemTime` is cut to seconds,
Redis counts exactly. `AskToken` reads and compares the key and computes
`expires_at`, `StoreToken` is the SETEX; `GetToken` is the GET, `CheckExpiry` looks at
the clock again, `Upgrade` is the rest of `ws_handler`. Time passes between any two
of them. `asked` is what the request carried, `issuedAt` and `decidedAt` are history
variables. A secret key is named after its project.

*RabbitConsumer.* The broker keeps a message until it is acknowledged, and gives
it back its place when the channel closes; with a prefetch count of one the
message a consumer holds is the head of its queue. `consumer` is the place in
`start_consuming`. The batches of this process leave out `project_id`, which is in the
primary key of `direct_messages` and `room_messages` (`migration.rs:108`, `169`), so the
database refuses each of them: `WriteFails` is the only way a write returns, and
there are no rows in the model. `process_message` swallows the error, so the message is
acknowledged. `tried` is a history variable: the messages `process_message` returned
for, with an error (those that cannot be parsed) or with Ok. `MainReturns` is the
end of `join!`; `Restart` is somebody starting the process again.

## 3. Runs

All passing runs together take every action of every specification. States are
distinct states; times are on two cores.

| Run | Instance | States | Shows |
|---|---|---|---|
| `registry` | 3 connections of one user, 1 of another | 26,656 | `OnlineUsersAgree`, `RunningIsRegistered`, `NoStaleUnregister`, the inductive `RegistryInv`, refinement of `Presence`, every connection is answered, every ended one is unregistered |
| `persistence` | 2 messages, 3 retries (the code's) | 247,888 | `OkMeansStored`, `ErrMeansExhausted`, `NothingSentAfterReturn`, `ListMovesBackOnlyLate`, the inductive `PersistInv`, refinement of `DurableWrite`, the loop ends |
| `direct_messages` | 2 users, one of whom reconnects, 2 messages, queues of 1 | 139,937 | `SenderOrderKept`, `AckTellsTheTruth`, refinement of `MessageRouter`, `EveryMessageAcknowledged`, `EveryQueuedMessageWritten` |
| `room_pair` | 2 users, 1 room, 2 messages, 2 joins | 1,107,506 | `SameOrderForAll`, `NotFoundGoesNowhere` |
| `room_reconnect` | 1 user, 2 connections, 1 message, 2 joins or leaves | 69,135 | `OpenMemberStays`, `DeadMembersCleaned`, `EveryMessageAcknowledged` |
| `conversation` | 3 calls, 3 users | 1,612 (with symmetry) | `OneRowPerPair`, `ReplyBelongsToPair`, `SettledPairKeepsConversation` |
| `history` | 5 messages, pages of 2, any number of failing requests, both builds | 40,530 | `EachOnceInOrder`, `WalkIsComplete`, `MissedOnlyIfLate`, `WalkEnds` |
| `tenant_quota` | 4 requests, quota of 2 | 471,145 | `TenantQuota`, `RefusedOverQuota`, `WindowEnds` |
| `tokens` | 2 projects, 2 tokens, 1 connection attempt, a lifetime of 2 seconds of 2 ticks, 9 ticks | 1,451,169 (with symmetry) | `GoodForItsLifetime`, `AcceptedOnlyInLifetime`, `ConnectedMeansVouched` |
| `rabbit` | 3 direct messages, the second malformed, 2 room messages, 3 faults | 22,080 | `GoneMeansTried`, `WorksInOrder`, `EveryMessageLeaves` |
| `room_rejoin`, `conversation_race` | | | counterexamples, see section 6 |

Deadlock is not checked: every system here may come to rest when all its
connections, messages or requests are used up. That nobody waits forever before
that is what the liveness properties say.

**Bounds and why they are enough.** The registry's interesting case is a
connection that registers while an older one of the same user is ending and a
third one waits: three connections of one user, and a second user to see that
users do not interfere. Queues of capacity one (100 in the code) make "full" one
message away; the queue code does not depend on the number otherwise. Two
messages are needed and enough for an order and for one being dropped or
overtaken. Two joins cover joining twice and joining again after a reconnect.
Five messages with pages of two give full, partial and empty pages with writes
between them, and a text order that starts again within them. Three lookup calls give two that race and one that comes after
them. A quota of two with four requests gives requests below, at and above it.
`Leavers` names the connections that may close or fail; in `direct_messages` it is
the one that reconnects, in the room runs it is each that matters. `Scenario` of
`MCDirectMessages` bounds what the clients do there: the second connection of one
user and the connection of the other are alternatives. Two seconds of two ticks
tell a clock cut to seconds from an exact one, and nine ticks are past the end of
a token stored late. Three direct messages put one before and one after the
malformed one; three faults are a crash, a fault during what follows it and one
more.

**Fairness.** Weak fairness only, and only where the code justifies it. Tasks
spawned on the runtime are scheduled (router, rooms, `run`, acknowledgments, the
drop of aborted tasks). A room's interval timer fires. The socket accepts a frame
or refuses it (`WriteMessage \/ SendTaskBreaks`, and the same for
acknowledgments, one condition each because `tokio::select!` picks its branch at
random and starves neither). A gRPC call returns an answer or a Status; the code
sets no deadline and `docs/peroxo/learnings.md` warns of calls that hang, so this
rests on the transport noticing a dead connection. An
expiring Redis key expires. A rabbit consumer is polled, the broker delivers what is
ready on an open channel, and the driver returns from a batch;
nothing restarts the consumer process by itself. A reader that began to walk goes on,
and asks again when a request fails; `WalkEnds` says that its walk ends if from some
time on no request fails. Clients need not
connect, send or leave, and no fairness is assumed of a write taking effect.

Every property of a passing run has a mutant in `PROJECT.json`: a plausible bug
in one definition (the operators marked `Fault:` next to it) that violates the
property.

## 4. Proofs

`MessageRouterProofs`, for any sets of users and connections, assuming only that
each connection has an owner and that `None` is not a connection:

* `RegistryCorrect`: `Spec => []RegistryInv`. `RunningIsRegistered` is not inductive:
  an `UnregisterUser` in the channel could hit a new connection. The invariant
  says why it cannot. `MessagesOnTheWay`: each `UnregisterUser(u)` in the channel
  finds `users[u]` to be a connection that has *ended*, and no message is there
  twice. So while it is on the way no new connection of `u` can be admitted
  (`HandleRegisterUser` refuses), and only one such message exists, since the
  connection that ended sent it once and is still the registered one
  (`AdmittedHolds`). `HolderWasAdmitted` and `PhaseMatchesResponse` tie the registry
  to the sessions' own state. One lemma per action; facts about `Head`, `Tail`
  and `Append` of the channel are lemmas of their own.
* `TypeCorrect`, `OnlineUsersCorrect`, `RunningRegistered`, `NoLeak` follow from it;
  `UnregisterIsNeverStale` is the action property.
* `RouterImplementsPresence`: with the map that calls a connection waiting,
  refused, present or gone by its answer and the registry, each step is a step
  of `Presence` or none.

`PersistenceProofs`, for any messages and any number of retries:

* `PersistCorrect`: `PersistSpec => []PersistInv`. The strengthening,
  `RequestsMatchLoop`, says which attempts were sent at each place of the loop and
  that a successful answer means a stored row, also for attempts that were given
  up.
* `OkIsStored`, `ErrIsExhausted`, `QuietAfterReturn`.
* `ListMovesBackLate`: a batch that sets the list while its message is already
  reported as persisted belongs to an attempt before the answered one, because
  the answered one is no longer executed and none was sent after it.
* `PersistImplementsDurableWrite`: the loop implements the abstract write that
  `DirectMessages` and `Rooms` use.

`LookupProofs`, for any users (numbers, since their order is what matters) and
any number of concurrent calls:

* `LookupCorrect`: `LookupSpec => []LookupInv`. What is needed beside the property
  `ReplyBelongsToPair` is `KeysMatch`: a row was inserted by a call for its own key,
  keys are sorted, and a call that is still new is the author of no row.
* `OneRow`: both orders of a pair cannot both be sorted. `ReplyIsOwn`, `PairSettles`.

`ChatProofs`, for any users, connections, rooms, messages and channel capacity,
assuming only that connections have owners and that sizes are natural numbers:

* `DirectMessageInvariant`: `DMSpec => []ChatInv`, and `RoomInvariant`:
  `RoomSpec => []RoomInv`. A message is in one place at a time: with the receive task
  that numbered it (`DraftInv`), in the router's channel (`InboxInv`), in a room's
  channel (`PostInv`), or handed out (`FrameInv`). `outcome` tells which, so a
  message that is handed out is new to everybody. Within one author's messages a
  later place holds smaller ids, so it is also the greatest of that author's. That
  is why `SenderOrderKept` and `SameOrderForAll` survive the step that adds to a
  channel; steps that take away, and full queues that drop, keep an order anyway
  (`FewerKeeps`). The write and the answer to the sender are the same in the router
  and in a room, and are proved once (`BeginStep`).
* `OrderOfSenderKept` and `RoomOrderForAll` follow.
* `DirectMessageAckTrue`, `RoomAckTrue`: `AckInv` says that the outcome an
  acknowledgment repeats is final and that its waiting task is gone, so there is no
  second one; `StoreInv` that `Persisted` is said of what is stored.
* `UnknownRoomGoesNowhere`: a message answered "room not found" was never begun.
* `OpenMembersStay`: the action property of rooms.
* Sequences occur in these proofs only through what they contain and which element is
  before which (`Before`).

`HistoryProofs`, for any page size, any number of messages, any `Wrap` and both
builds (pages are MongoDB's, what sync gives is the chat service's):

* `HistoryInvariant`: `HistorySpec => []HistoryInv`. `WalkIsComplete` speaks of a walk
  that ended; `PagesInv` and `AnswerInv` say what holds on the way: a page on its way
  lies below the cursor it was asked with, hence below all the reader has, and what
  was there at the beginning and is not yet given lies below the cursor or in the
  page. `SyncInv` is the same for the sync: what lies below an id the reader has, and
  is not among those it has, was overtaken.
* `HistoryEachOnceInOrder`, `HistoryWalkComplete`, `SyncMissesOnlyLate`.
* `SortedExists`: every finite set of ids has a sorted enumeration, so the `CHOOSE`
  means something. It is shown by counting, for each id, those that come
  before it. `RankFacts`: the order of MongoDB's text is total, no two ids have the
  same rank.

`TenantProofs`, for any requests and any quota:

* `TenantInvariant`: the counter is the number of requests counted in this window
  (`CounterCounts`), and two requests of a window have different numbers.
* `TenantQuotaKept`: those whose number is not over the quota are at most as many as
  there are such numbers. `TenantRefusedOverQuota`: who has a number over the quota
  came after as many others.
* `UnattendedNeedsFault`: a counter that no request is about to give a time to live
  was left by a failed command (`UnattendedByFault`). `OrphanStays`: when no lost EXPIRE
  is left either, it is left for good. This is the safety part of `WindowEnds`.

`TokenProofs`, for any projects, users and requests, any lifetime and any number of
ticks per second:

* `TokenInvariant`: a payload that was made has the right key and end (`PayloadMade`),
  Redis keeps it at least as long as it says (`KeptLongEnough`, since Redis starts to
  count later), and a verification that is under way found it there
  (`FoundInRedis`, `Vouched`).
* `TokenGoodForItsLifetime`, `TokenAcceptedOnlyInLifetime`: both from the arithmetic
  of a clock cut to seconds. `OnlyVouchedConnect`: a connection is for whom its own
  token was asked for.

`RabbitProofs`, for any messages, malformed ones among them, and any number of
crashes and closed channels:

* `RabbitInvariant`: a queue is an unbroken run up to the last message published
  (`UnbrokenRun`), all before it were tried (`GoneTried`), nothing beyond its first
  was ever delivered (`NothingBeyond`), and a consumer works on the first, also when
  its channel is closed.
* `GoneOnlyAfterTried`, `ConsumersWorkInOrder`. Neither says that a message is stored:
  none is.

Each inductive invariant was checked by TLC as an invariant of the module's instance
before it was proved; `RegistryInv` and `PersistInv` still are in the runs.

Only model-checked:

* Liveness, since the prover has no rules for fairness here: that connections are
  answered and unregistered, the retry loop ends, `EveryMessageAcknowledged`,
  `EveryQueuedMessageWritten`, `DeadMembersCleaned`, `WalkEnds`, that a window without
  a fault ends (`WindowEnds`), and `EveryMessageLeaves`.
* `ImplementsRegistry`. Its mapping filters the router's channel with `SelectSeq`;
  what that gives for an appended or a shortened sequence needs an induction over
  sequences, which none of the installed provers can do. `RouterImplementsPresence`
  therefore is proved of `MessageRouter` alone, and reaches the chat modules through
  the model-checked refinement.

## 5. What is not modelled

* `GetOnlineUsers`, `GetRoomMembers` and the room actor's `GetPaginatedMessages`:
  they change nothing and nothing in the repository constructs them. (The last
  one would read the direct messages table with a room's id.)
* Google sign-in (one call and checks on its answer), the user service (one
  query), metrics, the state builder and the migrations: they keep no state, or
  run before everything else.
* The rabbit publisher of the chat service: behind a feature that is off, with
  code that no longer matches the service's types. `RabbitConsumer` has any
  publisher.
* Clocks that disagree: `UserTokens` has one clock, as the auth service and Redis
  have where they share a host.
* Room pages, `fetch_user_conversations` and `fetch_conversation_history`: reads that no
  client can ask PerOXO for.
* Replication in ScyllaDB: reads see what was accepted.
* In `Rooms`, the interleaving of broadcasts of different rooms to one session.
* In `MessageHistory`, the channel the answers share with acknowledgments: a slow
  socket delays the one by the other, but both wait for room and neither is
  dropped, and `EveryMessageAcknowledged` covers the waiting.

## 6. Disagreements found

* **`room_rejoin`.** "Adding and removing members is a direct `HashMap::insert` /
  `HashMap::remove`" (`docs/peroxo/actor-model.md:260`), which would replace an old
  entry. But a member entry whose connection ended stays until the next
  cleanup, up to 60 seconds, and `handle_add_member` answers "User already in room" to
  the user's new connection meanwhile; it hears nothing of the room, and the
  client is not told.
* **`conversation_race`.** "a consistent unique key for the pair" holds of the row,
  but two first calls for a pair may both find nothing and both insert: they
  return different conversation ids.

The passing runs also pin down behaviour a reader of the code may not expect:

* The rate limiter "Allows `MAX_REQUESTS` calls per `WINDOW_SECS` window"
  (`rate_limit.rs:19`), but the time to live is set by a second command, only by
  the request that saw the count of 1. `WindowEnds` says what holds: a window ends,
  or a command failed and left the counter without a time to live, for good once it
  is `Orphaned`, and the account is refused once the count is past the maximum.
* Pages from MongoDB come in the order of the ids' text, not of time
  (`EachOnceInOrder` uses `Rank`): a new message may come up in the middle.
* The conversation list can move back to an older message, also to one reported as
  persisted before the newer one (`ListMovesBackOnlyLate` says when).
* In the shipped build no page request is ever answered: the query fails for want of a
  keyspace, and the session only logs it. The page properties therefore speak of the
  build with MongoDB; sync works. In that build in turn, sync finds no direct message.
* The rabbit consumer loses every message: its statements do not fit the tables, it
  logs the error and acknowledges ("the RabbitMQ persistence path is completely
  broken", `PERFORMANCE_AND_EXPANSION_PLAN.md:51`). `GoneMeansTried`, `WorksInOrder` and
  `EveryMessageLeaves` are about the queue protocol only. A consumer whose channel
  closes ends while the other one goes on, so its queue waits for a restart.

## 7. Plan

Done: the registry, writes with the conversation list, direct messages, rooms,
lookup, quota, history in both builds, tokens and the rabbit consumer; every
safety invariant and action property the runs check is proved, except the
refinement `ImplementsRegistry`.

1. `ImplementsRegistry`, with a mapping that can be reasoned about without induction,
   or `RegistryInv` itself carried over to `DMSpec` and `RoomSpec`.
2. History answers on the ack channel; `Rooms` as an implementation of
   `MessageRouter`, as `DirectMessages` is checked to be.
