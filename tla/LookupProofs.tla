---------------------------- MODULE LookupProofs ----------------------------
(***************************************************************************)
(* Proofs about ConversationLookup, for any users and any number of        *)
(* concurrent calls.                                                       *)
(***************************************************************************)
EXTENDS ConversationLookup, TLAPS

\* A pair of different ids has a sorted key.
LEMMA SortedIsKey ==
    ASSUME NEW a \in People, NEW b \in People, a # b
    PROVE  Sorted(a, b) \in Keys /\ Sorted(a, b)[1] < Sorted(a, b)[2]
<1>1. a \in Nat /\ b \in Nat
      BY PeopleAssumption
<1>2. CASE a < b
      BY <1>2 DEF Sorted, Keys
<1>3. CASE ~(a < b)
  <2>1. b < a
        BY <1>1, <1>3
  <2> QED  BY <1>3, <2>1 DEF Sorted, Keys
<1> QED  BY <1>2, <1>3

\* No key is the pair that stands for no key.
LEMMA NoKeyIsNoKey == NoKey \notin Keys
BY DEF NoKey, Keys

\* The invariant holds before the first call.
LEMMA LookupInitInv == LookupInit => LookupInv
BY NoKeyIsNoKey
   DEF LookupInit, LookupInv, LookupTypeOK, KeysMatch, ReplyBelongsToPair

\* Accepting or refusing a request preserves it: no row and no reply refers to
\* a call that is new.
LEMMA AskInv ==
    ASSUME LookupInv, NEW c \in Calls, NEW a \in People, NEW b \in People,
           Ask(c, a, b)
    PROVE  LookupInv'
<1>1. CASE a = b
      BY <1>1, NoKeyIsNoKey, MissingAssumption
         DEF LookupInv, LookupTypeOK, KeysMatch, ReplyBelongsToPair, Ask
<1>2. CASE a # b
  <2> DEFINE k0 == Sorted(a, b)
  <2>1. k0 \in Keys /\ k0[1] < k0[2]
        BY <1>2, SortedIsKey
  <2>2. /\ step' = [step EXCEPT ![c] = "select"]
        /\ key' = [key EXCEPT ![c] = k0]
        /\ dm_lookup' = dm_lookup /\ reply' = reply
        /\ step[c] = "new" /\ key[c] = NoKey
        BY <1>2 DEF Ask, LookupInv, KeysMatch
  <2> HIDE DEF k0
  <2>3. LookupTypeOK'
        BY <2>1, <2>2 DEF LookupInv, LookupTypeOK
  <2>4. \A k \in Keys : dm_lookup[k] # Missing => dm_lookup[k] # c
        BY <2>2, NoKeyIsNoKey DEF LookupInv, KeysMatch
  <2>5. \A d \in Calls : reply[d] # Missing => d # c /\ reply[d] # c
        BY <2>2, NoKeyIsNoKey
           DEF LookupInv, LookupTypeOK, KeysMatch, ReplyBelongsToPair
  <2>6. KeysMatch'
        BY <2>1, <2>2, <2>4, <2>5, MissingAssumption DEF LookupInv, LookupTypeOK, KeysMatch
  <2>7. ReplyBelongsToPair'
        BY <2>2, <2>5, MissingAssumption DEF LookupInv, LookupTypeOK, ReplyBelongsToPair
  <2> QED  BY <2>3, <2>6, <2>7 DEF LookupInv
<1> QED  BY <1>1, <1>2

\* The answers to the SELECT preserve it.
LEMMA SelectInv ==
    ASSUME LookupInv, NEW c \in Calls,
           SelectFinds(c) \/ SelectFindsNothing(c) \/ SelectFails(c) \/ InsertFails(c)
    PROVE  LookupInv'
<1>1. LookupTypeOK'
      BY DEF LookupInv, LookupTypeOK, KeysMatch, SelectFinds, SelectFindsNothing,
             SelectFails, InsertFails
<1>2. KeysMatch'
      BY DEF LookupInv, LookupTypeOK, KeysMatch, SelectFinds, SelectFindsNothing,
             SelectFails, InsertFails
<1>3. ReplyBelongsToPair'
      BY DEF LookupInv, LookupTypeOK, KeysMatch, ReplyBelongsToPair, SelectFinds,
             SelectFindsNothing, SelectFails, InsertFails
<1> QED  BY <1>1, <1>2, <1>3 DEF LookupInv

\* An INSERT, in time or late, preserves it.
LEMMA InsertInv ==
    ASSUME LookupInv, NEW c \in Calls, Insert(c) \/ LateInsert(c)
    PROVE  LookupInv'
<1>1. key[c] \in Keys /\ key' = key
      BY DEF LookupInv, KeysMatch, Insert, LateInsert
<1>2. LookupTypeOK'
      BY <1>1 DEF LookupInv, LookupTypeOK, Insert, LateInsert
<1>3. KeysMatch'
      BY <1>1 DEF LookupInv, LookupTypeOK, KeysMatch, Insert, LateInsert
<1>4. ReplyBelongsToPair'
      BY <1>1 DEF LookupInv, LookupTypeOK, ReplyBelongsToPair, Insert, LateInsert
<1> QED  BY <1>2, <1>3, <1>4 DEF LookupInv

\* The inductive invariant holds in every reachable state.
THEOREM LookupCorrect == LookupSpec => []LookupInv
<1>1. LookupInv /\ [LookupNext]_lookupVars => LookupInv'
  <2> SUFFICES ASSUME LookupInv, [LookupNext]_lookupVars PROVE LookupInv'
      OBVIOUS
  <2>1. CASE LookupNext
        BY <2>1, AskInv, SelectInv, InsertInv DEF LookupNext
  <2>2. CASE UNCHANGED lookupVars
        BY <2>2 DEF LookupInv, LookupTypeOK, KeysMatch, ReplyBelongsToPair, lookupVars
  <2> QED  BY <2>1, <2>2
<1> QED  BY <1>1, LookupInitInv, PTL DEF LookupSpec

\* Two users share at most one row, in whichever order they are named.
THEOREM OneRow == LookupSpec => []OneRowPerPair
<1>1. LookupInv => OneRowPerPair
  <2> SUFFICES ASSUME LookupInv, NEW a \in People, NEW b \in People, a # b,
                      dm_lookup[<<a, b>>] # Missing, dm_lookup[<<b, a>>] # Missing
               PROVE  FALSE
      BY DEF OneRowPerPair
  <2>1. <<a, b>> \in Keys /\ <<b, a>> \in Keys
        BY DEF Keys
  <2>2. \A k \in Keys : dm_lookup[k] # Missing => k[1] < k[2]
        BY DEF LookupInv, LookupTypeOK, KeysMatch
  <2>3. a < b /\ b < a
        BY <2>1, <2>2
  <2>4. a \in Nat /\ b \in Nat
        BY PeopleAssumption
  <2> QED  BY <2>3, <2>4
<1> QED  BY <1>1, LookupCorrect, PTL

\* No call is answered with the conversation of another pair.
THEOREM ReplyIsOwn == LookupSpec => []ReplyBelongsToPair
<1>1. LookupInv => ReplyBelongsToPair
      BY DEF LookupInv
<1> QED  BY <1>1, LookupCorrect, PTL

\* A conversation is replaced only by calls that were inserting when it was
\* there first, and no call joins them.
THEOREM PairSettles == LookupSpec => SettledPairKeepsConversation
<1> DEFINE Act == \A k \in Keys : dm_lookup[k] # Missing =>
                    /\ dm_lookup'[k] \in {dm_lookup[k]} \cup Inserting(k)
                    /\ Inserting(k)' \subseteq Inserting(k)
<1>1. LookupInv /\ [LookupNext]_lookupVars => [Act]_lookupVars
  <2> SUFFICES ASSUME LookupInv, LookupNext, NEW k \in Keys, dm_lookup[k] # Missing
               PROVE  /\ dm_lookup'[k] \in {dm_lookup[k]} \cup Inserting(k)
                      /\ Inserting(k)' \subseteq Inserting(k)
      OBVIOUS
  <2>1. ASSUME NEW c \in Calls, NEW a \in People, NEW b \in People, Ask(c, a, b)
        PROVE  /\ dm_lookup'[k] = dm_lookup[k]
               /\ Inserting(k)' \subseteq Inserting(k)
        BY <2>1 DEF LookupInv, LookupTypeOK, Ask, Inserting
  <2>2. ASSUME NEW c \in Calls,
               SelectFinds(c) \/ SelectFindsNothing(c) \/ SelectFails(c) \/ InsertFails(c)
        PROVE  /\ dm_lookup'[k] = dm_lookup[k]
               /\ Inserting(k)' \subseteq Inserting(k)
        BY <2>2 DEF LookupInv, LookupTypeOK, Inserting, SelectFinds,
                    SelectFindsNothing, SelectFails, InsertFails
  <2>3. ASSUME NEW c \in Calls, Insert(c) \/ LateInsert(c)
        PROVE  /\ dm_lookup'[k] \in {dm_lookup[k]} \cup Inserting(k)
               /\ Inserting(k)' \subseteq Inserting(k)
        BY <2>3 DEF LookupInv, LookupTypeOK, Inserting, Insert, LateInsert
  <2> QED  BY <2>1, <2>2, <2>3 DEF LookupNext
<1> QED  BY <1>1, LookupCorrect, PTL DEF LookupSpec, SettledPairKeepsConversation
=============================================================================
