--------------------------- MODULE MessageHistory ---------------------------
(***************************************************************************)
(* Reading the messages of one conversation back while others are being    *)
(* written: pages from the newest message downwards, and the messages      *)
(* after a given one.  A message takes its id when it is sent and its row  *)
(* appears when its write takes effect: rows appear in any order.          *)
(*                                                                         *)
(* One reader walks through the pages until there are no more; another one *)
(* asks, again and again, for what comes after the last message it was     *)
(* given.  What a client does with an answer is outside the repository:    *)
(* these are the uses the answers are made for.                            *)
(*                                                                         *)
(* Two builds compile.  "scylla" has the feature persistence alone, as     *)
(* shipped: pages and sync are asked of the chat service.  Its session has *)
(* no keyspace and the page queries name their tables without one, so no   *)
(* page is ever read; the sync query names its keyspace.  "mongo" has      *)
(* mongo_db as well: direct messages are written to MongoDB and pages read *)
(* from it, where ids are stored and compared as text, while sync is still *)
(* asked of the chat service, whose table then gets none of them.          *)
(***************************************************************************)
EXTENDS Naturals, SequencesExt

CONSTANTS
    PageSize,     \* LIMIT, 50 in the code
    Wrap,         \* time_low, the first field of a v1 UUID's text, starts
                  \* again after so many ids (some 7 minutes in the code)
    MaxIds        \* bound: messages ever numbered

ASSUME HistoryAssumption ==
    /\ PageSize \in Nat \ {0}
    /\ Wrap \in Nat \ {0}
    /\ MaxIds \in Nat

MessageIds == 1..MaxIds
NoCursor == 0
Nothing == [type |-> "None"]

VARIABLES
    backend,   \* "scylla" or "mongo", by the features of the build
    numbered,  \* ids given out so far
    rows,      \* the build's table of direct messages: the ids whose row is there
    walk,      \* the walking reader: "idle", "asked" or "ended"
    cursor,    \* the cursor of its next request
    answer,    \* a ChatHistoryResponse on its way to it
    pages,     \* everything it was given, in order
    before,    \* history: the rows that were there when it began
    asking,    \* whether the syncing reader waits for an answer
    update,    \* a SyncMessagesResponse on its way to it
    synced,    \* everything it was given, in order
    overtaken  \* history: ids without a row when it was given a greater one

writeVars == <<backend, numbered, rows>>
walkVars == <<walk, cursor, answer, pages, before>>
syncVars == <<asking, update, synced, overtaken>>
historyVars == <<writeVars, walkVars, syncVars>>

HistoryInit ==
    /\ backend \in {"scylla", "mongo"}
    /\ numbered = 0 /\ rows = {}
    /\ walk = "idle" /\ cursor = NoCursor /\ answer = Nothing
    /\ pages = << >> /\ before = {}
    /\ asking = FALSE /\ update = Nothing
    /\ synced = << >> /\ overtaken = {}

-----------------------------------------------------------------------------
(* The writers *)

TakeId ==
    /\ numbered < MaxIds
    /\ numbered' = numbered + 1
    /\ UNCHANGED <<backend, rows, walkVars, syncVars>>

WriteRow(i) ==
    /\ i \in 1..numbered \ rows
    /\ rows' = rows \cup {i}
    /\ UNCHANGED <<backend, numbered, walkVars, syncVars>>

-----------------------------------------------------------------------------
(* The queries *)

FirstOf(s, n) == SubSeq(s, 1, IF Len(s) < n THEN Len(s) ELSE n)

\* Where an id is in MongoDB's order: that of its text, the low part of the
\* time first.
Rank(i) == (i % Wrap) * (MaxIds + 1) + i

\* The ids of a finite set, each once: by text for pages; by time, the
\* clustering order of ScyllaDB's timeuuids, for sync.
Descending(S) ==
    CHOOSE q \in [1..Cardinality(S) -> S] :
        \A j, k \in 1..Cardinality(S) : j < k => Rank(q[j]) > Rank(q[k])
Ascending(S) ==
    CHOOSE q \in [1..Cardinality(S) -> S] :
        \A j, k \in 1..Cardinality(S) : j < k => q[j] < q[k]

\* Faults: the cursor itself is returned again; the limit comes before the cursor.
PageFrom(c) ==
    FirstOf(Descending({i \in rows : c = NoCursor \/ Rank(i) <= Rank(c)}), PageSize)
PageCutFirst(c) ==
    SelectSeq(FirstOf(Descending(rows), PageSize),
              LAMBDA i : c = NoCursor \/ Rank(i) < Rank(c))

\* A filter with $lt, sort by message_id downwards, limit 50.
Page(c) ==
    FirstOf(Descending({i \in rows : c = NoCursor \/ Rank(i) < Rank(c)}), PageSize)

\* messages.last(), or none when the page is empty.
NextCursor(page) == IF page = << >> THEN NoCursor ELSE page[Len(page)]

\* Fault: there is always more.
HasMoreAlways(page) == TRUE

\* The page is full, which the last one may be too.
HasMore(page) == Len(page) = PageSize

\* The answer sent for a page.
Response(page) ==
    [type |-> "ChatHistoryResponse", messages |-> page,
     next_cursor |-> NextCursor(page), has_more |-> HasMore(page)]

\* ScyllaDB's table of direct messages.
SyncTable == IF backend = "scylla" THEN rows ELSE {}

\* Fault: only the newest are returned.
AfterNewest(last) ==
    LET later == Ascending({i \in SyncTable : i > last})
    IN  Reverse(FirstOf(Reverse(later), PageSize))

\* WHERE message_id > ?, in clustering order, without a limit.
After(last) == Ascending({i \in SyncTable : i > last})

-----------------------------------------------------------------------------
(* Pages: the request, the read in a task of its own, the answer.  A failed *)
(* request is logged and never answered; the reader may ask again.  Every   *)
(* request to the chat service fails.                                       *)

AskPage ==
    /\ walk = "idle"
    /\ walk' = "asked"
    /\ before' = IF pages = << >> /\ cursor = NoCursor THEN rows ELSE before
    /\ UNCHANGED <<writeVars, cursor, answer, pages, syncVars>>

\* SELECT ... FROM direct_messages fails in a session without a keyspace.
PageReadable == backend = "mongo"

FetchPage ==
    /\ PageReadable
    /\ walk = "asked" /\ answer = Nothing
    /\ answer' = Response(Page(cursor))
    /\ UNCHANGED <<writeVars, walk, cursor, pages, before, syncVars>>

FetchPageFails ==
    /\ walk = "asked" /\ answer = Nothing
    /\ walk' = "idle"
    /\ UNCHANGED <<writeVars, cursor, answer, pages, before, syncVars>>

ReceivePage ==
    /\ answer # Nothing
    /\ pages' = pages \o answer.messages
    /\ cursor' = answer.next_cursor
    /\ walk' = IF answer.has_more THEN "idle" ELSE "ended"
    /\ answer' = Nothing
    /\ UNCHANGED <<writeVars, before, syncVars>>

-----------------------------------------------------------------------------
(* Sync *)

LastSynced == IF synced = << >> THEN 0 ELSE synced[Len(synced)]

AskSync ==
    /\ ~asking
    /\ asking' = TRUE
    /\ UNCHANGED <<writeVars, walkVars, update, synced, overtaken>>

\* Ids without a row that are smaller than one just returned are overtaken.
FetchAfter ==
    /\ asking /\ update = Nothing
    /\ LET messages == After(LastSynced)
           missing == (1..numbered) \ rows
       IN /\ update' = [type |-> "SyncMessagesResponse", messages |-> messages]
          /\ overtaken' = overtaken \cup
                {i \in missing : \E j \in ToSet(messages) : i < j}
    /\ UNCHANGED <<writeVars, walkVars, asking, synced>>

FetchAfterFails ==
    /\ asking /\ update = Nothing
    /\ asking' = FALSE
    /\ UNCHANGED <<writeVars, walkVars, update, synced, overtaken>>

ReceiveSync ==
    /\ update # Nothing
    /\ synced' = synced \o update.messages
    /\ update' = Nothing
    /\ asking' = FALSE
    /\ UNCHANGED <<writeVars, walkVars, overtaken>>

-----------------------------------------------------------------------------
WalkStep == AskPage \/ FetchPage \/ FetchPageFails \/ ReceivePage
SyncStep == AskSync \/ FetchAfter \/ FetchAfterFails \/ ReceiveSync

HistoryNext ==
    \/ TakeId \/ (\E i \in MessageIds : WriteRow(i))
    \/ WalkStep \/ SyncStep

HistorySpec == HistoryInit /\ [][HistoryNext]_historyVars

\* The service answers and the walking reader goes on.
HistoryFairSpec == HistorySpec /\ WF_historyVars(WalkStep)

-----------------------------------------------------------------------------
(* Properties *)

\* Whatever is written while a reader walks through MongoDB's pages, or syncs,
\* it is given no message twice and none out of the order of the table.  (In
\* MongoDB that is the order of the ids' text, which is not the order of time.)
EachOnceInOrder ==
    /\ \A j, k \in 1..Len(pages) : j < k => Rank(pages[j]) > Rank(pages[k])
    /\ \A j, k \in 1..Len(synced) : j < k => synced[j] < synced[k]

\* A walk that ended has seen every message that was there when it began: no
\* row written below or above the cursor meanwhile makes a page skip one.
WalkIsComplete == walk = "ended" => before \subseteq ToSet(pages)

\* The walk ends unless requests go on failing: the cursor moves on with every
\* page, and a full last page, said to have more behind it, is followed by an
\* empty one.  (On the chat service every request fails, and no walk ends.)
WalkEnds ==
    <>[][~FetchPageFails]_historyVars => (walk = "asked" ~> walk = "ended")

\* A message sync will never give to a reader, because the reader has been
\* given a greater one, is one whose row was not there at that time.  (Where
\* direct messages go to MongoDB, sync gives no message at all.)
MissedOnlyIfLate ==
    \A i \in rows \ ToSet(synced) : i < LastSynced => i \in overtaken
=============================================================================
