--------------------------- MODULE HistoryProofs ---------------------------
(***************************************************************************)
(* What readers of a conversation's history are given, proved for every    *)
(* page size, every number of messages and either build.                   *)
(*                                                                         *)
(* The invariant says what the two readers' positions mean.  A page on its *)
(* way lies below the cursor it was asked with, and so below everything    *)
(* the reader has; and of the messages that were there when the walk       *)
(* began, what the reader has not been given lies below the cursor.  An    *)
(* update on its way lies above everything the syncing reader has, and an  *)
(* id below something it has or is about to get, and not among these, was  *)
(* overtaken, whether its row has appeared since or not.                   *)
(*                                                                         *)
(* What is sorted here is sorted by CHOOSE: the first lemmas show that the *)
(* sequence chosen exists, by counting for each id those that come before  *)
(* it, which numbers them one to one.                                      *)
(***************************************************************************)
EXTENDS MessageHistory, FiniteSetTheorems, FunctionTheorems, SequenceTheorems, TLAPS

\* The last id of a sequence, or 0.
LastOf(q) == IF q = << >> THEN 0 ELSE q[Len(q)]

Down(q) == \A j, k \in 1..Len(q) : j < k => Rank(q[j]) > Rank(q[k])
Up(q) == \A j, k \in 1..Len(q) : j < k => q[j] < q[k]

\* An id that comes after cursor c on the way down.
Below(c, i) == c = NoCursor \/ Rank(i) < Rank(c)

HistoryTypeOK ==
    /\ backend \in {"scylla", "mongo"}
    /\ numbered \in 0..MaxIds /\ rows \subseteq 1..numbered
    /\ walk \in {"idle", "asked", "ended"}
    /\ cursor \in {NoCursor} \cup MessageIds
    /\ answer = Nothing \/ answer \in [type : {"ChatHistoryResponse"},
           messages : Seq(MessageIds), next_cursor : {NoCursor} \cup MessageIds,
           has_more : BOOLEAN]
    /\ pages \in Seq(MessageIds) /\ before \subseteq rows
    /\ asking \in BOOLEAN
    /\ update = Nothing \/ update \in [type : {"SyncMessagesResponse"},
           messages : Seq(MessageIds)]
    /\ synced \in Seq(MessageIds)

\* The cursor is the last message the walking reader has.
PagesInv ==
    /\ Down(pages)
    /\ walk # "ended" =>
        /\ cursor = LastOf(pages)
        /\ \A i \in before : i \in ToSet(pages) \/ Below(cursor, i)

\* What a page on its way holds, and what it leaves for the next one.
AnswerInv ==
    answer # Nothing =>
        /\ walk = "asked"
        /\ Down(answer.messages)
        /\ \A i \in ToSet(answer.messages) : Below(cursor, i)
        /\ answer.next_cursor = LastOf(answer.messages)
        /\ answer.has_more => answer.messages # << >>
        /\ \A i \in before : Below(cursor, i) =>
               \/ i \in ToSet(answer.messages)
               \/ answer.has_more /\ Below(answer.next_cursor, i)

\* The messages of an update on its way, if there is one.
Coming == IF update = Nothing THEN << >> ELSE update.messages

SyncInv ==
    /\ Up(synced) /\ Up(Coming)
    /\ \A i \in ToSet(Coming) : LastSynced < i
    /\ ToSet(synced) \cup ToSet(Coming) \subseteq rows
    /\ \A i \in 1..numbered :
           i \notin ToSet(synced) \cup ToSet(Coming) =>
               /\ i < LastSynced => i \in overtaken
               /\ \A j \in ToSet(Coming) : i < j => i \in overtaken

HistoryInv ==
    HistoryTypeOK /\ PagesInv /\ AnswerInv /\ SyncInv /\ WalkIsComplete

-----------------------------------------------------------------------------
(* Sorting *)

\* Ids are told apart by their place in MongoDB's order.
LEMMA RankFacts ==
    ASSUME NEW i \in MessageIds, NEW j \in MessageIds
    PROVE  /\ Rank(i) \in Nat
           /\ Rank(i) = Rank(j) => i = j
<1>1. /\ i \in Nat /\ j \in Nat /\ i <= MaxIds /\ j <= MaxIds
      /\ MaxIds \in Nat /\ Wrap \in Nat /\ Wrap > 0
  BY HistoryAssumption DEF MessageIds
<1> DEFINE a == i % Wrap
           b == j % Wrap
           m == MaxIds + 1
<1>2. a \in Nat /\ b \in Nat /\ m \in Nat /\ i < m /\ j < m
  BY <1>1
<1> HIDE DEF a, b, m
<1>3. a * m \in Nat /\ b * m \in Nat
  BY <1>2
<1>4. \A x, y, z \in Nat : x < y => x * z + z <= y * z
  <2> SUFFICES ASSUME NEW x \in Nat, NEW y \in Nat, NEW z \in Nat, x < y
               PROVE  x * z + z <= y * z
    OBVIOUS
  <2> DEFINE d == y - (x + 1)
  <2>1. d \in Nat /\ y = x + 1 + d
    OBVIOUS
  <2> HIDE DEF d
  <2>2. y * z = x * z + z + d * z
    BY <2>1
  <2>3. d * z \in Nat /\ x * z \in Nat /\ y * z \in Nat
    BY <2>1
  <2> QED
    BY <2>2, <2>3
<1>5. a * m + i = b * m + j => i = j
  <2>1. CASE a = b
    BY <1>1, <1>3, <2>1
  <2>2. CASE a < b
    <3>1. a * m + m <= b * m
      BY <1>2, <1>4, <2>2
    <3> QED
      BY <1>1, <1>2, <1>3, <3>1
  <2>3. CASE b < a
    <3>1. b * m + m <= a * m
      BY <1>2, <1>4, <2>3
    <3> QED
      BY <1>1, <1>2, <1>3, <3>1
  <2> QED
    BY <1>2, <2>1, <2>2, <2>3
<1>6. Rank(i) = a * m + i /\ Rank(j) = b * m + j
  BY DEF Rank, a, b, m
<1> QED
  BY <1>1, <1>3, <1>5, <1>6

\* A finite set can be put in the order of any numbering: the place of an
\* element is one more than the number of those that come before it.
LEMMA SortedExists ==
    ASSUME NEW S, IsFiniteSet(S), NEW rk \in [S -> Nat],
           \A x, y \in S : rk[x] = rk[y] => x = y
    PROVE  \E q \in [1..Cardinality(S) -> S] :
               \A j, k \in 1..Cardinality(S) : j < k => rk[q[j]] > rk[q[k]]
<1> DEFINE n == Cardinality(S)
           Above(x) == {y \in S : rk[y] > rk[x]}
           place == [x \in S |-> Cardinality(Above(x)) + 1]
<1>1. n \in Nat
  BY FS_CardinalityType
<1>2. ASSUME NEW x \in S
      PROVE  IsFiniteSet(Above(x)) /\ Cardinality(Above(x)) \in Nat
  BY FS_Subset, FS_CardinalityType
<1>3. ASSUME NEW x \in S, NEW T, T \subseteq S, Above(x) \subseteq T, x \in T
      PROVE  Cardinality(Above(x)) + 1 <= Cardinality(T) /\ Cardinality(T) <= n
  <2>1. x \notin Above(x)
    OBVIOUS
  <2>2. Cardinality(Above(x) \cup {x}) = Cardinality(Above(x)) + 1
    BY <1>2, <2>1, FS_AddElement
  <2>3. Above(x) \cup {x} \subseteq T
    BY <1>3
  <2>4. IsFiniteSet(T) /\ Cardinality(T) <= n
    BY <1>3, FS_Subset
  <2> HIDE DEF Above
  <2> QED
    BY <2>2, <2>3, <2>4, FS_Subset
<1>4. \A x \in S : place[x] \in 1..n
  <2> SUFFICES ASSUME NEW x \in S PROVE Cardinality(Above(x)) + 1 \in 1..n
    OBVIOUS
  <2>1. Cardinality(Above(x)) + 1 <= n
    BY <1>3
  <2> QED
    BY <1>1, <1>2, <2>1
<1>5. ASSUME NEW x \in S, NEW y \in S, rk[x] > rk[y]
      PROVE  place[x] < place[y]
  <2>1. Above(y) \subseteq S /\ Above(x) \subseteq Above(y) /\ x \in Above(y)
    <3>1. rk[x] \in Nat /\ rk[y] \in Nat /\ \A z \in S : rk[z] \in Nat
      OBVIOUS
    <3> QED
      BY <1>5, <3>1
  <2>2. Cardinality(Above(x)) + 1 <= Cardinality(Above(y))
    <3> HIDE DEF Above
    <3> QED
      BY <1>3, <2>1
  <2>3. Cardinality(Above(x)) \in Nat /\ Cardinality(Above(y)) \in Nat
    BY <1>2
  <2> HIDE DEF Above
  <2> QED
    BY <2>2, <2>3
<1> HIDE DEF Above
<1>6. place \in [S -> 1..n]
  BY <1>4
<1> HIDE DEF place
<1>7. ASSUME NEW x \in S, NEW y \in S, place[x] = place[y] PROVE x = y
  <2>1. rk[x] \in Nat /\ rk[y] \in Nat /\ place[x] \in 1..n /\ place[y] \in 1..n
    BY <1>6
  <2>2. ~(rk[x] > rk[y]) /\ ~(rk[y] > rk[x])
    BY <1>1, <1>5, <1>7, <2>1
  <2>3. rk[x] = rk[y]
    BY <2>1, <2>2
  <2> QED
    BY <2>3
<1>8. place \in Surjection(S, 1..n)
  <2>1. place \in Injection(S, 1..n)
    BY <1>6, <1>7, Fun_IsInj
  <2>2. IsFiniteSet(1..n) /\ Cardinality(1..n) = n
    BY <1>1, FS_Interval
  <2> QED
    BY <2>1, <2>2, FS_Injection
<1>9. \A k \in 1..n : \E x \in S : place[x] = k
  BY <1>8, Fun_SurjectionProperties
<1> DEFINE q == [k \in 1..n |-> CHOOSE x \in S : place[x] = k]
<1>10. \A k \in 1..n : q[k] \in S /\ place[q[k]] = k
  BY <1>9
<1>11. q \in [1..n -> S]
  BY <1>10
<1> HIDE DEF q
<1>12. ASSUME NEW j \in 1..n, NEW k \in 1..n, j < k
       PROVE  rk[q[j]] > rk[q[k]]
  <2>1. q[j] \in S /\ q[k] \in S /\ place[q[j]] = j /\ place[q[k]] = k
    BY <1>10
  <2>2. q[j] # q[k]
    BY <1>1, <1>12, <2>1
  <2>3. rk[q[j]] # rk[q[k]]
    BY <2>1, <2>2
  <2>4. ~(rk[q[k]] > rk[q[j]])
    BY <1>1, <1>5, <1>12, <2>1
  <2>5. rk[q[j]] \in Nat /\ rk[q[k]] \in Nat
    BY <2>1
  <2> QED
    BY <2>3, <2>4, <2>5
<1> QED
  BY <1>11, <1>12 DEF n

\* An enumeration without repetition lists everything.
LEMMA ListsAll ==
    ASSUME NEW S, IsFiniteSet(S), NEW q \in [1..Cardinality(S) -> S],
           \A j, k \in 1..Cardinality(S) : q[j] = q[k] => j = k
    PROVE  q \in Seq(S) /\ Len(q) = Cardinality(S) /\ ToSet(q) = S
<1>1. Cardinality(S) \in Nat
  BY FS_CardinalityType
<1>2. q \in Seq(S) /\ Len(q) = Cardinality(S) /\ DOMAIN q = 1..Cardinality(S)
  BY <1>1
<1>3. IsFiniteSet(1..Cardinality(S)) /\ Cardinality(1..Cardinality(S)) = Cardinality(S)
  BY <1>1, FS_Interval
<1>4. q \in Injection(1..Cardinality(S), S)
  BY Fun_IsInj
<1>5. q \in Surjection(1..Cardinality(S), S)
  BY <1>3, <1>4, FS_Injection
<1>6. \A x \in S : \E k \in 1..Cardinality(S) : q[k] = x
  BY <1>5 DEF Surjection
<1> QED
  BY <1>2, <1>6 DEF ToSet

LEMMA IdSets ==
    ASSUME NEW S \in SUBSET MessageIds
    PROVE  IsFiniteSet(S) /\ Cardinality(S) \in Nat
<1>1. IsFiniteSet(MessageIds)
  BY HistoryAssumption, FS_Interval DEF MessageIds
<1> QED
  BY <1>1, FS_Subset, FS_CardinalityType

LEMMA DescendingFacts ==
    ASSUME NEW S \in SUBSET MessageIds
    PROVE  /\ Descending(S) \in Seq(MessageIds) /\ ToSet(Descending(S)) = S
           /\ Down(Descending(S))
<1> DEFINE n == Cardinality(S)
           rk == [i \in S |-> Rank(i)]
           q == Descending(S)
<1>1. IsFiniteSet(S) /\ n \in Nat
  BY IdSets
<1>2. rk \in [S -> Nat] /\ \A x, y \in S : rk[x] = rk[y] => x = y
  BY RankFacts
<1>3. \E p \in [1..n -> S] : \A j, k \in 1..n : j < k => rk[p[j]] > rk[p[k]]
  <2> HIDE DEF rk
  <2> QED
    BY <1>1, <1>2, SortedExists
<1>4. \E p \in [1..n -> S] : \A j, k \in 1..n : j < k => Rank(p[j]) > Rank(p[k])
  <2>1. PICK p \in [1..n -> S] : \A j, k \in 1..n : j < k => rk[p[j]] > rk[p[k]]
    BY <1>3
  <2> QED
    BY <2>1
<1>5. q \in [1..n -> S] /\ \A j, k \in 1..n : j < k => Rank(q[j]) > Rank(q[k])
  BY <1>4 DEF Descending
<1> HIDE DEF q, n, rk
<1>6. ASSUME NEW j \in 1..n, NEW k \in 1..n, q[j] = q[k] PROVE j = k
  <2>1. Rank(q[j]) \in Nat
    BY <1>5, RankFacts
  <2>2. ~(j < k) /\ ~(k < j)
    BY <1>5, <1>6, <2>1
  <2> QED
    BY <1>1, <2>2
<1>7. q \in Seq(S) /\ Len(q) = n /\ ToSet(q) = S
  BY <1>1, <1>5, <1>6, ListsAll DEF n
<1>8. q \in Seq(MessageIds)
  BY <1>7, SeqMonotonic
<1> QED
  BY <1>5, <1>7, <1>8 DEF Down, q

LEMMA AscendingFacts ==
    ASSUME NEW S \in SUBSET MessageIds
    PROVE  /\ Ascending(S) \in Seq(MessageIds) /\ ToSet(Ascending(S)) = S
           /\ Up(Ascending(S))
<1> DEFINE n == Cardinality(S)
           rk == [i \in S |-> MaxIds - i]
           q == Ascending(S)
<1>1. IsFiniteSet(S) /\ n \in Nat /\ MaxIds \in Nat
  BY IdSets, HistoryAssumption
<1>2. \A i \in S : i \in Nat /\ i <= MaxIds
  BY <1>1 DEF MessageIds
<1>3. rk \in [S -> Nat] /\ \A x, y \in S : rk[x] = rk[y] => x = y
  BY <1>1, <1>2
<1>4. \E p \in [1..n -> S] : \A j, k \in 1..n : j < k => rk[p[j]] > rk[p[k]]
  <2> HIDE DEF rk
  <2> QED
    BY <1>1, <1>3, SortedExists
<1>5. \E p \in [1..n -> S] : \A j, k \in 1..n : j < k => p[j] < p[k]
  <2>1. PICK p \in [1..n -> S] : \A j, k \in 1..n : j < k => rk[p[j]] > rk[p[k]]
    BY <1>4
  <2>2. ASSUME NEW j \in 1..n, NEW k \in 1..n, j < k PROVE p[j] < p[k]
    <3>1. p[j] \in S /\ p[k] \in S /\ MaxIds - p[j] > MaxIds - p[k]
      BY <2>1, <2>2
    <3> QED
      BY <1>1, <1>2, <3>1
  <2> QED
    BY <2>2
<1>6. q \in [1..n -> S] /\ \A j, k \in 1..n : j < k => q[j] < q[k]
  BY <1>5 DEF Ascending
<1> HIDE DEF q, n, rk
<1>7. ASSUME NEW j \in 1..n, NEW k \in 1..n, q[j] = q[k] PROVE j = k
  <2>1. q[j] \in Nat
    BY <1>2, <1>6
  <2>2. ~(j < k) /\ ~(k < j)
    BY <1>6, <1>7, <2>1
  <2> QED
    BY <1>1, <2>2
<1>8. q \in Seq(S) /\ Len(q) = n /\ ToSet(q) = S
  BY <1>1, <1>6, <1>7, ListsAll DEF n
<1>9. q \in Seq(MessageIds)
  BY <1>8, SeqMonotonic
<1> QED
  BY <1>6, <1>8, <1>9 DEF Up, q

-----------------------------------------------------------------------------
(* Sequences of ids *)

LEMMA ToSetFacts ==
    ASSUME NEW q \in Seq(MessageIds)
    PROVE  /\ Len(q) \in Nat /\ \A k \in 1..Len(q) : q[k] \in MessageIds
           /\ \A x : x \in ToSet(q) <=> \E k \in 1..Len(q) : q[k] = x
           /\ ToSet(q) \subseteq MessageIds
           /\ LastOf(q) \in {0} \cup MessageIds
           /\ q # << >> => Len(q) > 0 /\ LastOf(q) = q[Len(q)] /\ LastOf(q) \in ToSet(q)
<1>1. Len(q) \in Nat /\ \A k \in 1..Len(q) : q[k] \in MessageIds
  BY LenProperties, ElementOfSeq
<1>2. \A x : x \in ToSet(q) <=> \E k \in 1..Len(q) : q[k] = x
  BY LenProperties DEF ToSet
<1>3. q # << >> => Len(q) \in 1..Len(q)
  BY <1>1, EmptySeq
<1> QED
  BY <1>1, <1>2, <1>3 DEF LastOf

LEMMA ConcatFacts ==
    ASSUME NEW p \in Seq(MessageIds), NEW q \in Seq(MessageIds)
    PROVE  /\ p \o q \in Seq(MessageIds) /\ Len(p \o q) = Len(p) + Len(q)
           /\ \A k \in 1..Len(p) + Len(q) :
                  \/ k \in 1..Len(p) /\ (p \o q)[k] = p[k]
                  \/ k - Len(p) \in 1..Len(q) /\ (p \o q)[k] = q[k - Len(p)]
           /\ ToSet(p \o q) = ToSet(p) \cup ToSet(q)
           /\ LastOf(p \o q) = IF q = << >> THEN LastOf(p) ELSE LastOf(q)
<1> DEFINE m == Len(p)
           n == Len(q)
           c == p \o q
<1>1. /\ c \in Seq(MessageIds) /\ Len(c) = m + n /\ m \in Nat /\ n \in Nat
      /\ \A i \in 1..m + n : c[i] = IF i <= m THEN p[i] ELSE q[i - m]
  BY ConcatProperties, LenProperties
<1>2. q = << >> <=> n = 0
  BY EmptySeq
<1>3. p = << >> <=> m = 0
  BY EmptySeq
<1>4. c = << >> <=> m + n = 0
  BY <1>1, EmptySeq
<1> HIDE DEF c, m, n
<1>5. \A k \in 1..m + n :
          \/ k \in 1..m /\ c[k] = p[k]
          \/ k - m \in 1..n /\ c[k] = q[k - m]
  BY <1>1
<1>6. \A k \in 1..m : k \in 1..m + n /\ c[k] = p[k]
  BY <1>1
<1>7. ASSUME NEW k \in 1..n PROVE m + k \in 1..m + n /\ c[m + k] = q[k]
  <2>1. m + k \in 1..m + n /\ ~(m + k <= m) /\ (m + k) - m = k
    BY <1>1
  <2> QED
    BY <1>1, <2>1
<1>8. ToSet(c) = ToSet(p) \cup ToSet(q)
  <2>1. \A x : x \in ToSet(c) <=> \E k \in 1..m + n : c[k] = x
    <3>1. \A x : x \in ToSet(c) <=> \E k \in 1..Len(c) : c[k] = x
      BY <1>1, ToSetFacts
    <3> QED
      BY <1>1, <3>1
  <2>2. \A x : x \in ToSet(p) <=> \E k \in 1..m : p[k] = x
    BY ToSetFacts DEF m
  <2>3. \A x : x \in ToSet(q) <=> \E k \in 1..n : q[k] = x
    BY ToSetFacts DEF n
  <2>4. ASSUME NEW x PROVE x \in ToSet(c) <=> x \in ToSet(p) \/ x \in ToSet(q)
    BY <1>5, <1>6, <1>7, <2>1, <2>2, <2>3
  <2> QED
    BY <2>4
<1>9. LastOf(c) = IF q = << >> THEN LastOf(p) ELSE LastOf(q)
  <2>1. CASE n = 0
    BY <1>1, <1>2, <1>3, <1>4, <1>6, <2>1 DEF LastOf, m
  <2>2. CASE n # 0
    <3>1. n \in 1..n /\ m + n # 0
      BY <1>1, <2>2
    <3>2. c[m + n] = q[n]
      BY <1>7, <3>1
    <3> QED
      BY <1>1, <1>2, <1>4, <2>2, <3>1, <3>2 DEF LastOf, n
  <2> QED
    BY <2>1, <2>2
<1> QED
  BY <1>1, <1>5, <1>8, <1>9 DEF c, m, n

\* The first n of a sequence: all of it, or n of them.
LEMMA FirstOfFacts ==
    ASSUME NEW q \in Seq(MessageIds), NEW n \in Nat \ {0}
    PROVE  /\ FirstOf(q, n) \in Seq(MessageIds)
           /\ Len(FirstOf(q, n)) = IF Len(q) < n THEN Len(q) ELSE n
           /\ \A k \in 1..Len(FirstOf(q, n)) : k \in 1..Len(q) /\ FirstOf(q, n)[k] = q[k]
<1> DEFINE l == IF Len(q) < n THEN Len(q) ELSE n
           p == SubSeq(q, 1, l)
<1>1. Len(q) \in Nat /\ \A k \in 1..Len(q) : q[k] \in MessageIds
  BY ToSetFacts
<1>2. l \in Nat /\ l <= Len(q)
  BY <1>1
<1> HIDE DEF l
<1>3. \A k \in 1..l : k \in 1..Len(q) /\ q[k] \in MessageIds
  BY <1>1, <1>2
<1>4. /\ p \in Seq(MessageIds) /\ Len(p) = (IF 1 <= l THEN l - 1 + 1 ELSE 0)
      /\ \A k \in 1..l - 1 + 1 : p[k] = q[1 + k - 1]
  BY <1>2, <1>3, SubSeqProperties
<1> HIDE DEF p
<1>5. Len(p) = l /\ \A k \in 1..l : p[k] = q[k]
  BY <1>2, <1>4
<1>6. FirstOf(q, n) = p
  BY DEF FirstOf, p, l
<1> QED
  BY <1>3, <1>4, <1>5, <1>6 DEF l

-----------------------------------------------------------------------------
(* The answers *)

LEMMA RowIds ==
    ASSUME HistoryTypeOK
    PROVE  rows \subseteq MessageIds /\ 1..numbered \subseteq MessageIds
<1>1. numbered \in Nat /\ numbered <= MaxIds /\ MaxIds \in Nat /\ rows \subseteq 1..numbered
  BY HistoryAssumption DEF HistoryTypeOK
<1>2. 1..numbered \subseteq 1..MaxIds
  BY <1>1
<1> QED
  BY <1>1, <1>2 DEF MessageIds

\* A page holds the rows below the cursor, in order, down to its last one.
LEMMA PageFacts ==
    ASSUME HistoryTypeOK, NEW c \in {NoCursor} \cup MessageIds
    PROVE  /\ Page(c) \in Seq(MessageIds) /\ Down(Page(c))
           /\ \A i \in ToSet(Page(c)) : Below(c, i)
           /\ \A i \in rows : Below(c, i) =>
                  \/ i \in ToSet(Page(c))
                  \/ Len(Page(c)) = PageSize /\ Rank(i) < Rank(LastOf(Page(c)))
<1> DEFINE S == {i \in rows : Below(c, i)}
           q == Descending(S)
           p == FirstOf(q, PageSize)
<1>1. Page(c) = p
  BY DEF Page, Below
<1>2. S \in SUBSET MessageIds
  BY RowIds
<1>3. q \in Seq(MessageIds) /\ ToSet(q) = S /\ Down(q)
  <2> HIDE DEF S
  <2> QED
    BY <1>2, DescendingFacts
<1>4. PageSize \in Nat \ {0}
  BY HistoryAssumption
<1> HIDE DEF q
<1>5. /\ p \in Seq(MessageIds)
      /\ Len(p) = IF Len(q) < PageSize THEN Len(q) ELSE PageSize
      /\ \A k \in 1..Len(p) : k \in 1..Len(q) /\ p[k] = q[k]
  BY <1>3, <1>4, FirstOfFacts
<1> HIDE DEF p, S
<1>6. Down(p)
  BY <1>3, <1>5 DEF Down
<1>7. \A x : x \in S <=> \E k \in 1..Len(q) : q[k] = x
  BY <1>3, ToSetFacts
<1>8. \A x : x \in ToSet(p) <=> \E k \in 1..Len(p) : p[k] = x
  BY <1>5, ToSetFacts
<1>9. \A i \in ToSet(p) : Below(c, i)
  BY <1>5, <1>7, <1>8 DEF S
<1>10. ASSUME NEW i \in rows, Below(c, i), i \notin ToSet(p)
       PROVE  Len(p) = PageSize /\ Rank(i) < Rank(LastOf(p))
  <2>1. PICK k \in 1..Len(q) : q[k] = i
    BY <1>7, <1>10 DEF S
  <2>2. k \notin 1..Len(p)
    BY <1>5, <1>8, <1>10, <2>1
  <2>3. Len(q) \in Nat /\ Len(p) \in Nat
    BY <1>3, <1>5, ToSetFacts
  <2>4. Len(p) = PageSize /\ Len(p) \in 1..Len(p) /\ Len(p) < k
    BY <1>4, <1>5, <2>1, <2>2, <2>3
  <2>5. p # << >> /\ LastOf(p) = p[Len(p)]
    BY <1>5, <2>4, EmptySeq DEF LastOf
  <2>6. LastOf(p) = q[Len(p)] /\ Len(p) \in 1..Len(q)
    BY <1>5, <2>4, <2>5
  <2>7. Rank(q[Len(p)]) > Rank(q[k])
    BY <1>3, <2>1, <2>4, <2>6 DEF Down
  <2>8. Rank(q[Len(p)]) \in Nat /\ Rank(q[k]) \in Nat
    BY <1>3, <2>1, <2>6, ToSetFacts, RankFacts
  <2> QED
    BY <2>1, <2>4, <2>6, <2>7, <2>8
<1> QED
  BY <1>1, <1>5, <1>6, <1>9, <1>10

\* The syncing reader is given all rows of the chat service's table above its
\* last message.
LEMMA AfterFacts ==
    ASSUME HistoryTypeOK, NEW last
    PROVE  /\ After(last) \in Seq(MessageIds) /\ Up(After(last))
           /\ ToSet(After(last)) = {i \in SyncTable : i > last}
<1> DEFINE S == {i \in SyncTable : i > last}
<1>1. S \in SUBSET MessageIds
  BY RowIds DEF SyncTable
<1> HIDE DEF S
<1>2. Ascending(S) \in Seq(MessageIds) /\ ToSet(Ascending(S)) = S /\ Up(Ascending(S))
  BY <1>1, AscendingFacts
<1> QED
  BY <1>2 DEF After, S

-----------------------------------------------------------------------------
(* The writers and the readers do not disturb each other *)

LEMMA WalkUndisturbed ==
    ASSUME HistoryInv, UNCHANGED <<backend, walkVars>>
    PROVE  PagesInv' /\ AnswerInv' /\ WalkIsComplete'
<1>1. UNCHANGED <<backend, walk, cursor, answer, pages, before>>
  BY DEF walkVars
<1>2. PagesInv'
  BY <1>1 DEF HistoryInv, PagesInv, Down, Below, Rank
<1>3. AnswerInv'
  BY <1>1 DEF HistoryInv, AnswerInv, Down, Below, Rank
<1>4. WalkIsComplete'
  BY <1>1 DEF HistoryInv, WalkIsComplete
<1> QED
  BY <1>2, <1>3, <1>4

LEMMA SyncUndisturbed ==
    ASSUME HistoryInv, UNCHANGED <<numbered, update, synced, overtaken>>, rows \subseteq rows'
    PROVE  SyncInv'
<1>1. UNCHANGED <<Coming, LastSynced>>
  BY DEF Coming, LastSynced
<1> QED
  BY <1>1 DEF HistoryInv, SyncInv, Up

LEMMA TakeIdStep ==
    ASSUME HistoryInv, TakeId
    PROVE  HistoryInv'
<1>1. /\ numbered < MaxIds /\ numbered' = numbered + 1
      /\ UNCHANGED <<backend, rows, walkVars, syncVars>>
  BY DEF TakeId
<1>2. /\ numbered \in Nat /\ MaxIds \in Nat /\ rows \subseteq 1..numbered
      /\ \A i \in 1..numbered : i \in 1..numbered + 1
      /\ \A i \in 1..numbered + 1 : i \in 1..numbered \/ i = numbered + 1
  BY HistoryAssumption DEF HistoryInv, HistoryTypeOK
<1>3. HistoryTypeOK'
  <2>1. numbered' \in 0..MaxIds /\ rows' \subseteq 1..numbered'
    BY <1>1, <1>2
  <2> QED
    BY <1>1, <2>1 DEF HistoryInv, HistoryTypeOK, walkVars, syncVars
<1>4. SyncInv'
  <2>1. UNCHANGED <<rows, synced, Coming, LastSynced, overtaken>>
    BY <1>1 DEF Coming, LastSynced, syncVars
  <2>2. \A j \in rows : j \in Nat /\ ~(numbered + 1 < j)
    BY <1>2
  <2>3. ~(numbered + 1 < LastSynced)
    <3>1. CASE synced = << >>
      BY <1>2, <3>1 DEF LastSynced
    <3>2. CASE synced # << >>
      <4>1. LastSynced \in rows
        BY <3>2, ToSetFacts DEF HistoryInv, HistoryTypeOK, SyncInv, LastSynced, LastOf
      <4> QED
        BY <2>2, <4>1
    <3> QED
      BY <3>1, <3>2
  <2>4. \A j \in ToSet(Coming) : ~(numbered + 1 < j)
    BY <2>2 DEF HistoryInv, SyncInv
  <2>5. ASSUME NEW i \in 1..numbered + 1, i \notin ToSet(synced) \cup ToSet(Coming)
        PROVE  /\ i < LastSynced => i \in overtaken
               /\ \A j \in ToSet(Coming) : i < j => i \in overtaken
    <3>1. CASE i \in 1..numbered
      BY <2>5, <3>1 DEF HistoryInv, SyncInv
    <3>2. CASE i = numbered + 1
      BY <2>3, <2>4, <3>2
    <3> QED
      BY <1>2, <3>1, <3>2
  <2> QED
    BY <1>1, <2>1, <2>5 DEF HistoryInv, SyncInv, Up
<1> QED
  BY <1>1, <1>3, <1>4, WalkUndisturbed DEF HistoryInv

LEMMA WriteRowStep ==
    ASSUME HistoryInv, NEW i \in MessageIds, WriteRow(i)
    PROVE  HistoryInv'
<1>1. /\ i \in 1..numbered /\ rows' = rows \cup {i}
      /\ UNCHANGED <<backend, numbered, walkVars, syncVars>>
  BY DEF WriteRow
<1>2. HistoryTypeOK'
  BY <1>1 DEF HistoryInv, HistoryTypeOK, walkVars, syncVars
<1>3. SyncInv'
  BY <1>1, SyncUndisturbed DEF syncVars
<1> QED
  BY <1>1, <1>2, <1>3, WalkUndisturbed DEF HistoryInv

-----------------------------------------------------------------------------
(* The walking reader *)

LEMMA AskPageStep ==
    ASSUME HistoryInv, AskPage
    PROVE  HistoryInv'
<1>1. /\ walk = "idle" /\ walk' = "asked"
      /\ before' = IF pages = << >> /\ cursor = NoCursor THEN rows ELSE before
      /\ UNCHANGED <<backend, numbered, rows, cursor, answer, pages, syncVars>>
  BY DEF AskPage, writeVars
<1>2. HistoryTypeOK'
  BY <1>1 DEF HistoryInv, HistoryTypeOK, syncVars
<1>3. PagesInv'
  BY <1>1 DEF HistoryInv, PagesInv, Down, Below, Rank
<1>4. AnswerInv' /\ WalkIsComplete'
  BY <1>1 DEF HistoryInv, AnswerInv, WalkIsComplete
<1>5. SyncInv'
  BY <1>1, SyncUndisturbed DEF syncVars
<1> QED
  BY <1>2, <1>3, <1>4, <1>5 DEF HistoryInv

LEMMA FetchPageStep ==
    ASSUME HistoryInv, FetchPage
    PROVE  HistoryInv'
<1> DEFINE p == Page(cursor)
<1>1. /\ walk = "asked" /\ answer' = Response(p)
      /\ UNCHANGED <<backend, numbered, rows, walk, cursor, pages, before, syncVars>>
  BY DEF FetchPage, writeVars
<1>2. /\ p \in Seq(MessageIds) /\ Down(p)
      /\ \A i \in ToSet(p) : Below(cursor, i)
      /\ \A i \in rows : Below(cursor, i) =>
             \/ i \in ToSet(p)
             \/ Len(p) = PageSize /\ Rank(i) < Rank(LastOf(p))
  BY PageFacts DEF HistoryInv, HistoryTypeOK
<1> HIDE DEF p
<1>3. PageSize \in Nat /\ PageSize # 0 /\ \A i \in MessageIds : i # 0
  BY HistoryAssumption DEF MessageIds
<1>4. NextCursor(p) = LastOf(p)
  BY DEF NextCursor, LastOf, NoCursor
<1>5. /\ LastOf(p) \in {0} \cup MessageIds
      /\ p = << >> <=> LastOf(p) = 0
      /\ p = << >> <=> Len(p) = 0
  BY <1>2, <1>3, ToSetFacts, EmptySeq DEF LastOf
<1>6. HasMore(p) \in BOOLEAN
  BY Zenon DEF HasMore
<1>7. HasMore(p) => p # << >>
  BY <1>3, <1>4, <1>5 DEF HasMore, NoCursor
<1>8. Len(p) = PageSize => HasMore(p) /\ LastOf(p) # 0
  BY <1>3, <1>4, <1>5 DEF HasMore, NoCursor
<1>9. /\ answer'.messages = p /\ answer'.next_cursor = LastOf(p) /\ answer'.has_more = HasMore(p)
      /\ answer' \in [type : {"ChatHistoryResponse"}, messages : Seq(MessageIds),
                      next_cursor : {NoCursor} \cup MessageIds, has_more : BOOLEAN]
  BY <1>1, <1>2, <1>4, <1>5, <1>6 DEF Response, NoCursor
<1>10. HistoryTypeOK'
  BY <1>1, <1>9 DEF HistoryInv, HistoryTypeOK, syncVars
<1>11. \A i \in before : Below(cursor, i) =>
           i \in ToSet(p) \/ (HasMore(p) /\ Below(LastOf(p), i))
  BY <1>2, <1>8 DEF HistoryInv, HistoryTypeOK, Below
<1> HIDE DEF NoCursor
<1>12. AnswerInv'
  BY <1>1, <1>2, <1>7, <1>9, <1>11 DEF AnswerInv, Down, Below, Rank
<1>13. PagesInv' /\ WalkIsComplete'
  BY <1>1 DEF HistoryInv, PagesInv, WalkIsComplete, Down, Below, Rank
<1>14. SyncInv'
  BY <1>1, SyncUndisturbed DEF syncVars
<1> QED
  BY <1>10, <1>12, <1>13, <1>14 DEF HistoryInv

LEMMA FetchPageFailsStep ==
    ASSUME HistoryInv, FetchPageFails
    PROVE  HistoryInv'
<1>1. /\ walk = "asked" /\ answer = Nothing /\ walk' = "idle"
      /\ UNCHANGED <<backend, numbered, rows, cursor, answer, pages, before, syncVars>>
  BY DEF FetchPageFails, writeVars
<1>2. HistoryTypeOK'
  BY <1>1 DEF HistoryInv, HistoryTypeOK, syncVars
<1>3. PagesInv'
  BY <1>1 DEF HistoryInv, PagesInv, Down, Below, Rank
<1>4. AnswerInv' /\ WalkIsComplete'
  BY <1>1 DEF AnswerInv, WalkIsComplete, Nothing
<1>5. SyncInv'
  BY <1>1, SyncUndisturbed DEF syncVars
<1> QED
  BY <1>2, <1>3, <1>4, <1>5 DEF HistoryInv

LEMMA ReceivePageStep ==
    ASSUME HistoryInv, ReceivePage
    PROVE  HistoryInv'
<1> DEFINE m == answer.messages
           new == pages \o answer.messages
<1>1. /\ answer # Nothing /\ pages' = new /\ cursor' = answer.next_cursor
      /\ walk' = (IF answer.has_more THEN "idle" ELSE "ended") /\ answer' = Nothing
      /\ UNCHANGED <<backend, numbered, rows, before, syncVars>>
  BY DEF ReceivePage, writeVars
<1>2. /\ m \in Seq(MessageIds) /\ pages \in Seq(MessageIds)
      /\ answer.next_cursor \in {NoCursor} \cup MessageIds /\ answer.has_more \in BOOLEAN
  BY <1>1 DEF HistoryInv, HistoryTypeOK
<1>3. /\ walk = "asked" /\ Down(m) /\ \A i \in ToSet(m) : Below(cursor, i)
      /\ answer.next_cursor = LastOf(m)
      /\ answer.has_more => m # << >>
      /\ \A i \in before : Below(cursor, i) =>
             i \in ToSet(m) \/ (answer.has_more /\ Below(answer.next_cursor, i))
  BY <1>1 DEF HistoryInv, AnswerInv
<1>4. /\ Down(pages) /\ cursor = LastOf(pages)
      /\ \A i \in before : i \in ToSet(pages) \/ Below(cursor, i)
  BY <1>3 DEF HistoryInv, PagesInv
<1>5. /\ new \in Seq(MessageIds) /\ Len(new) = Len(pages) + Len(m)
      /\ \A k \in 1..Len(pages) + Len(m) :
             \/ k \in 1..Len(pages) /\ new[k] = pages[k]
             \/ k - Len(pages) \in 1..Len(m) /\ new[k] = m[k - Len(pages)]
      /\ ToSet(new) = ToSet(pages) \cup ToSet(m)
      /\ LastOf(new) = IF m = << >> THEN LastOf(pages) ELSE LastOf(m)
  BY <1>2, ConcatFacts
<1> HIDE DEF m, new
<1>6. Down(new)
  <2> SUFFICES ASSUME NEW j \in 1..Len(new), NEW k \in 1..Len(new), j < k
               PROVE  Rank(new[j]) > Rank(new[k])
    BY DEF Down
  <2>1. Len(pages) \in Nat /\ Len(m) \in Nat
    BY <1>2, ToSetFacts
  <2>2. CASE j \in 1..Len(pages) /\ k \in 1..Len(pages) /\ new[j] = pages[j] /\ new[k] = pages[k]
    BY <1>4, <2>2 DEF Down
  <2>3. CASE /\ j - Len(pages) \in 1..Len(m) /\ k - Len(pages) \in 1..Len(m)
             /\ new[j] = m[j - Len(pages)] /\ new[k] = m[k - Len(pages)]
    <3>1. j - Len(pages) < k - Len(pages)
      BY <2>1
    <3> QED
      BY <1>3, <2>3, <3>1 DEF Down
  <2>4. CASE /\ j \in 1..Len(pages) /\ k - Len(pages) \in 1..Len(m)
             /\ new[j] = pages[j] /\ new[k] = m[k - Len(pages)]
    <3>1. pages # << >>
      BY <2>1, <2>4, EmptySeq
    <3>2. cursor = pages[Len(pages)] /\ cursor \in MessageIds /\ Len(pages) \in 1..Len(pages)
      BY <1>2, <1>4, <2>1, <3>1, ToSetFacts
    <3>3. cursor # NoCursor
      BY <3>2, HistoryAssumption DEF MessageIds, NoCursor
    <3>4. new[k] \in ToSet(m) /\ new[k] \in MessageIds /\ new[j] \in MessageIds
      BY <1>2, <2>4, ToSetFacts
    <3>5. Rank(new[k]) < Rank(cursor)
      BY <1>3, <3>3, <3>4 DEF Below
    <3>6. Rank(new[j]) > Rank(cursor) \/ new[j] = cursor
      BY <1>4, <2>1, <2>4, <3>2 DEF Down
    <3>7. Rank(new[k]) \in Nat /\ Rank(cursor) \in Nat /\ Rank(new[j]) \in Nat
      BY <3>2, <3>4, RankFacts
    <3> QED
      BY <3>5, <3>6, <3>7
  <2>5. ~(j - Len(pages) \in 1..Len(m) /\ k \in 1..Len(pages))
    BY <2>1
  <2> QED
    BY <1>5, <2>2, <2>3, <2>4, <2>5
<1>7. \A i \in before : \/ i \in ToSet(new)
                        \/ answer.has_more /\ Below(answer.next_cursor, i)
  BY <1>3, <1>4, <1>5
<1>8. HistoryTypeOK'
  BY <1>1, <1>2, <1>5 DEF HistoryInv, HistoryTypeOK, syncVars
<1>9. PagesInv'
  <2>1. walk' # "ended" => cursor' = LastOf(new)
    <3>1. walk' # "ended" => answer.has_more
      BY <1>1
    <3>2. answer.has_more => LastOf(new) = LastOf(m)
      BY <1>3, <1>5
    <3> QED
      BY <1>1, <1>3, <3>1, <3>2
  <2>2. walk' # "ended" =>
            \A i \in before : \/ i \in ToSet(new) \/ cursor' = NoCursor
                              \/ Rank(i) < Rank(answer.next_cursor)
    BY <1>1, <1>7 DEF Below
  <2> QED
    BY <1>1, <1>6, <2>1, <2>2 DEF PagesInv, Down, Below, Rank, LastOf
<1>10. AnswerInv'
  BY <1>1 DEF AnswerInv, Nothing
<1>11. WalkIsComplete'
  BY <1>1, <1>2, <1>7 DEF WalkIsComplete
<1>12. SyncInv'
  BY <1>1, SyncUndisturbed DEF syncVars
<1> QED
  BY <1>8, <1>9, <1>10, <1>11, <1>12 DEF HistoryInv

-----------------------------------------------------------------------------
(* The syncing reader *)

LEMMA SyncQuiet ==
    ASSUME HistoryInv, AskSync \/ FetchAfterFails
    PROVE  HistoryInv'
<1>1. /\ asking' \in BOOLEAN
      /\ UNCHANGED <<backend, numbered, rows, walkVars, update, synced, overtaken>>
  BY DEF AskSync, FetchAfterFails, writeVars
<1>2. HistoryTypeOK'
  BY <1>1 DEF HistoryInv, HistoryTypeOK, walkVars
<1> QED
  BY <1>1, <1>2, SyncUndisturbed, WalkUndisturbed DEF HistoryInv

LEMMA FetchAfterStep ==
    ASSUME HistoryInv, FetchAfter
    PROVE  HistoryInv'
<1> DEFINE m == After(LastSynced)
<1>1. /\ update = Nothing
      /\ update' = [type |-> "SyncMessagesResponse", messages |-> m]
      /\ overtaken' = overtaken \cup
             {i \in (1..numbered) \ rows : \E j \in ToSet(m) : i < j}
      /\ UNCHANGED <<backend, numbered, rows, walkVars, asking, synced>>
  BY DEF FetchAfter, writeVars
<1>2. /\ m \in Seq(MessageIds) /\ Up(m)
      /\ ToSet(m) \subseteq {i \in rows : i > LastSynced}
      /\ ToSet(m) # {} => ToSet(m) = {i \in rows : i > LastSynced}
  BY AfterFacts DEF HistoryInv, SyncTable
<1> HIDE DEF m
<1>3. /\ update' \in [type : {"SyncMessagesResponse"}, messages : Seq(MessageIds)]
      /\ update' # Nothing /\ update'.messages = m
  BY <1>1, <1>2 DEF Nothing
<1>4. HistoryTypeOK'
  BY <1>1, <1>3 DEF HistoryInv, HistoryTypeOK, walkVars
<1>5. Coming' = m /\ LastSynced' = LastSynced
  BY <1>1, <1>3 DEF Coming, LastSynced
<1>6. ToSet(Coming) = {}
  BY <1>1 DEF Coming, ToSet
<1>7. LastSynced \in Nat /\ (LastSynced = 0 \/ LastSynced \in ToSet(synced))
  <2>1. synced \in Seq(MessageIds) /\ LastSynced = LastOf(synced)
    BY DEF HistoryInv, HistoryTypeOK, LastSynced, LastOf
  <2>2. /\ LastOf(synced) \in {0} \cup MessageIds
        /\ synced # << >> => LastOf(synced) \in ToSet(synced)
    BY <2>1, ToSetFacts
  <2>3. synced = << >> => LastOf(synced) = 0
    BY DEF LastOf
  <2>4. \A i \in MessageIds : i \in Nat
    BY HistoryAssumption DEF MessageIds
  <2> QED
    BY <2>1, <2>2, <2>3, <2>4
<1>8. ASSUME NEW i \in 1..numbered, i \notin ToSet(synced) \cup ToSet(m)
      PROVE  /\ i < LastSynced => i \in overtaken
             /\ \A j \in ToSet(m) : i < j => i \in overtaken'
  <2>1. i \in Nat /\ i # 0
    OBVIOUS
  <2>2. i < LastSynced => i \in overtaken
    BY <1>6, <1>8 DEF HistoryInv, SyncInv
  <2>3. i # LastSynced
    BY <1>7, <1>8, <2>1
  <2>4. i > LastSynced /\ ToSet(m) # {} => i \notin rows
    BY <1>2, <1>8
  <2>5. i < LastSynced \/ i > LastSynced
    BY <1>7, <2>1, <2>3
  <2> QED
    BY <1>1, <1>8, <2>2, <2>4, <2>5
<1>9. SyncInv'
  <2>1. \A i \in ToSet(m) : LastSynced < i
    <3>1. \A i \in rows : i \in Nat
      BY RowIds, HistoryAssumption DEF HistoryInv, MessageIds
    <3> QED
      BY <1>2, <1>7, <3>1
  <2>2. Up(synced) /\ ToSet(synced) \subseteq rows
    BY DEF HistoryInv, SyncInv
  <2>3. overtaken \subseteq overtaken'
    BY <1>1
  <2> QED
    BY <1>1, <1>2, <1>5, <1>8, <2>1, <2>2, <2>3 DEF SyncInv, Up
<1> QED
  BY <1>1, <1>4, <1>9, WalkUndisturbed DEF HistoryInv

LEMMA ReceiveSyncStep ==
    ASSUME HistoryInv, ReceiveSync
    PROVE  HistoryInv'
<1> DEFINE m == update.messages
           new == synced \o update.messages
<1>1. /\ update # Nothing /\ synced' = new /\ update' = Nothing /\ asking' = FALSE
      /\ UNCHANGED <<backend, numbered, rows, walkVars, overtaken>>
  BY DEF ReceiveSync, writeVars
<1>2. m \in Seq(MessageIds) /\ synced \in Seq(MessageIds) /\ Coming = m
  BY <1>1 DEF HistoryInv, HistoryTypeOK, Coming
<1>3. /\ new \in Seq(MessageIds) /\ Len(new) = Len(synced) + Len(m)
      /\ \A k \in 1..Len(synced) + Len(m) :
             \/ k \in 1..Len(synced) /\ new[k] = synced[k]
             \/ k - Len(synced) \in 1..Len(m) /\ new[k] = m[k - Len(synced)]
      /\ ToSet(new) = ToSet(synced) \cup ToSet(m)
      /\ LastOf(new) = IF m = << >> THEN LastOf(synced) ELSE LastOf(m)
  BY <1>2, ConcatFacts
<1> HIDE DEF m, new
<1>4. /\ Up(synced) /\ Up(m)
      /\ \A i \in ToSet(m) : LastSynced < i
      /\ ToSet(new) \subseteq rows
      /\ \A i \in 1..numbered : i \notin ToSet(new) =>
             /\ i < LastSynced => i \in overtaken
             /\ \A j \in ToSet(m) : i < j => i \in overtaken
  BY <1>2, <1>3 DEF HistoryInv, SyncInv
<1>5. LastSynced = LastOf(synced) /\ LastSynced' = LastOf(new)
  BY <1>1 DEF LastSynced, LastOf
<1>6. Up(new)
  <2> SUFFICES ASSUME NEW j \in 1..Len(new), NEW k \in 1..Len(new), j < k
               PROVE  new[j] < new[k]
    BY DEF Up
  <2>1. Len(synced) \in Nat /\ Len(m) \in Nat
    BY <1>2, ToSetFacts
  <2>2. CASE /\ j \in 1..Len(synced) /\ k \in 1..Len(synced)
             /\ new[j] = synced[j] /\ new[k] = synced[k]
    BY <1>4, <2>2 DEF Up
  <2>3. CASE /\ j - Len(synced) \in 1..Len(m) /\ k - Len(synced) \in 1..Len(m)
             /\ new[j] = m[j - Len(synced)] /\ new[k] = m[k - Len(synced)]
    <3>1. j - Len(synced) < k - Len(synced)
      BY <2>1
    <3> QED
      BY <1>4, <2>3, <3>1 DEF Up
  <2>4. CASE /\ j \in 1..Len(synced) /\ k - Len(synced) \in 1..Len(m)
             /\ new[j] = synced[j] /\ new[k] = m[k - Len(synced)]
    <3>1. synced # << >>
      BY <2>1, <2>4, EmptySeq
    <3>2. LastSynced = synced[Len(synced)] /\ Len(synced) \in 1..Len(synced)
      BY <1>2, <1>5, <2>1, <3>1, ToSetFacts
    <3>3. new[k] \in ToSet(m) /\ new[k] \in MessageIds /\ new[j] \in MessageIds
          /\ LastSynced \in MessageIds
      BY <1>2, <2>4, <3>2, ToSetFacts
    <3>4. LastSynced < new[k]
      BY <1>4, <3>3
    <3>5. new[j] < LastSynced \/ new[j] = LastSynced
      BY <1>4, <2>1, <2>4, <3>2 DEF Up
    <3>6. new[j] \in Nat /\ new[k] \in Nat /\ LastSynced \in Nat
      BY <3>3, HistoryAssumption DEF MessageIds
    <3> QED
      BY <3>4, <3>5, <3>6
  <2>5. ~(j - Len(synced) \in 1..Len(m) /\ k \in 1..Len(synced))
    BY <2>1
  <2> QED
    BY <1>3, <2>2, <2>3, <2>4, <2>5
<1>7. Coming' = << >>
  BY <1>1 DEF Coming
<1>8. ToSet(<< >>) = {} /\ Up(<< >>)
  BY EmptySeq DEF ToSet, Up
<1>9. ASSUME NEW i \in 1..numbered, i \notin ToSet(new), i < LastOf(new)
      PROVE  i \in overtaken
  <2>1. CASE m = << >>
    BY <1>3, <1>4, <1>5, <1>9, <2>1
  <2>2. CASE m # << >>
    <3>1. LastOf(new) = LastOf(m) /\ LastOf(m) \in ToSet(m)
      BY <1>2, <1>3, <2>2, ToSetFacts
    <3> QED
      BY <1>4, <1>9, <3>1
  <2> QED
    BY <2>1, <2>2
<1>10. HistoryTypeOK'
  BY <1>1, <1>3 DEF HistoryInv, HistoryTypeOK, walkVars
<1>11. SyncInv'
  BY <1>1, <1>4, <1>5, <1>6, <1>7, <1>8, <1>9 DEF SyncInv, Up
<1> QED
  BY <1>1, <1>10, <1>11, WalkUndisturbed DEF HistoryInv

-----------------------------------------------------------------------------
(* The results *)

\* The invariant above holds of every behaviour of the writers, the service
\* and the two readers.
THEOREM HistoryInvariant == HistorySpec => []HistoryInv
<1>1. HistoryInit => HistoryInv
  <2> SUFFICES ASSUME HistoryInit PROVE HistoryInv
    OBVIOUS
  <2>1. << >> \in Seq(MessageIds) /\ LastOf(<< >>) = 0 /\ Coming = << >> /\ LastSynced = 0
        /\ ToSet(<< >>) = {} /\ Len(<< >>) = 0
    BY EmptySeq DEF HistoryInit, LastOf, Coming, LastSynced, ToSet
  <2>2. HistoryTypeOK
    <3>1. 0 \in 0..MaxIds
      BY HistoryAssumption
    <3>2. asking \in BOOLEAN
      BY DEF HistoryInit
    <3> QED
      BY <2>1, <3>1, <3>2 DEF HistoryInit, HistoryTypeOK
  <2>3. PagesInv /\ AnswerInv /\ WalkIsComplete
    BY <2>1 DEF HistoryInit, PagesInv, AnswerInv, WalkIsComplete, Down, NoCursor
  <2>4. SyncInv
    BY <2>1 DEF HistoryInit, SyncInv, Up
  <2> QED
    BY <2>2, <2>3, <2>4 DEF HistoryInv
<1>2. ASSUME HistoryInv, [HistoryNext]_historyVars PROVE HistoryInv'
  <2>1. CASE UNCHANGED historyVars
    <3>1. /\ UNCHANGED <<backend, numbered, rows, walkVars, update, synced, overtaken>>
          /\ UNCHANGED asking
      BY <2>1 DEF historyVars, writeVars, syncVars
    <3>2. HistoryTypeOK'
      BY <1>2, <3>1 DEF HistoryInv, HistoryTypeOK, walkVars
    <3> QED
      BY <1>2, <3>1, <3>2, SyncUndisturbed, WalkUndisturbed DEF HistoryInv
  <2>2. CASE TakeId
    BY <1>2, <2>2, TakeIdStep
  <2>3. CASE \E i \in MessageIds : WriteRow(i)
    BY <1>2, <2>3, WriteRowStep
  <2>4. CASE WalkStep
    BY <1>2, <2>4, AskPageStep, FetchPageStep, FetchPageFailsStep, ReceivePageStep DEF WalkStep
  <2>5. CASE SyncStep
    BY <1>2, <2>5, SyncQuiet, FetchAfterStep, ReceiveSyncStep DEF SyncStep
  <2> QED
    BY <1>2, <2>1, <2>2, <2>3, <2>4, <2>5 DEF HistoryNext
<1> QED
  BY <1>1, <1>2, PTL DEF HistorySpec

\* get_paginated_messages and sync_messages: whatever is written in between, and
\* whichever requests fail and are repeated, a reader is given no message twice
\* and none out of the order of the table.
THEOREM HistoryEachOnceInOrder == HistorySpec => []EachOnceInOrder
<1>1. HistoryInv => EachOnceInOrder
  BY DEF HistoryInv, PagesInv, SyncInv, Down, Up, EachOnceInOrder
<1> QED
  BY <1>1, HistoryInvariant, PTL

\* A walk that follows next_cursor until has_more is false has been given every
\* message that was there when it began, in MongoDB's build; on the chat service
\* no page is read and no walk ends.
THEOREM HistoryWalkComplete == HistorySpec => []WalkIsComplete
<1>1. HistoryInv => WalkIsComplete
  BY DEF HistoryInv
<1> QED
  BY <1>1, HistoryInvariant, PTL

\* Sync skips a message only if its row appeared after the reader had been
\* given a later one: the query itself leaves nothing out.
THEOREM SyncMissesOnlyLate == HistorySpec => []MissedOnlyIfLate
<1>1. ASSUME HistoryInv PROVE MissedOnlyIfLate
  <2>1. \A i \in rows : i \in 1..numbered
    BY <1>1 DEF HistoryInv, HistoryTypeOK
  <2>2. \A i \in ToSet(Coming) : LastSynced < i
    BY <1>1 DEF HistoryInv, SyncInv
  <2>3. LastSynced \in Nat
    <3>1. synced \in Seq(MessageIds) /\ LastSynced = LastOf(synced)
      BY <1>1 DEF HistoryInv, HistoryTypeOK, LastSynced, LastOf
    <3>2. LastOf(synced) \in {0} \cup MessageIds
      BY <3>1, ToSetFacts
    <3> QED
      BY <3>1, <3>2, HistoryAssumption DEF MessageIds
  <2>4. \A i \in 1..numbered : i < LastSynced => i \notin ToSet(Coming)
    BY <2>2, <2>3
  <2> QED
    BY <1>1, <2>1, <2>4 DEF HistoryInv, SyncInv, MissedOnlyIfLate
<1> QED
  BY <1>1, HistoryInvariant, PTL
=============================================================================
