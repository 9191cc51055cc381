-------------------------- MODULE AnalyticsProofs --------------------------
(***************************************************************************)
(* Proofs about Analytics, for every capacity of the store and the caches:  *)
(* its dedupe keys are those of the events it holds, and it lists the       *)
(* events of a source newest first.                                         *)
(***************************************************************************)
EXTENDS Analytics, TLAPS

Entries == Keys \cup {NoKey}

-----------------------------------------------------------------------------
(***************************************************************************)
(* Lemmas about the sequences.                                              *)
(***************************************************************************)
\* What appendleft does to a bounded deque.
LEMMA AppendLeftLemma ==
  ASSUME NEW S, NEW s \in Seq(S), NEW e \in S, NEW limit \in Nat \ {0}, Len(s) <= limit
  PROVE  /\ AppendLeft(s, e, limit) \in Seq(S)
         /\ Len(AppendLeft(s, e, limit)) = IF Len(s) < limit THEN Len(s) + 1 ELSE limit
         /\ AppendLeft(s, e, limit)[1] = e
         /\ \A i \in 2..Len(AppendLeft(s, e, limit)) :
              AppendLeft(s, e, limit)[i] = s[i - 1]
<1> DEFINE n == IF Len(s) < limit THEN Len(s) + 1 ELSE limit
           t == [i \in 1..n |-> IF i = 1 THEN e ELSE s[i - 1]]
<1>1. n \in Nat /\ n >= 1 /\ n <= Len(s) + 1
  OBVIOUS
<1>2. \A i \in 1..n : (IF i = 1 THEN e ELSE s[i - 1]) \in S
  <2> SUFFICES ASSUME NEW i \in 1..n, i # 1 PROVE s[i - 1] \in S
    OBVIOUS
  <2>1. i - 1 \in 1..Len(s)
    BY <1>1
  <2> QED BY <2>1
<1> HIDE DEF n
<1>3. t \in Seq(S) /\ Len(t) = n
  BY <1>1, <1>2
<1>4. t[1] = e /\ \A i \in 2..n : t[i] = s[i - 1]
  BY <1>1
<1>5. AppendLeft(s, e, limit) = t
  BY DEF AppendLeft, n
<1> QED BY <1>3, <1>4, <1>5 DEF n

\* A reversed sequence is one of the same elements.
LEMMA ReversedLemma ==
  ASSUME NEW S, NEW s \in Seq(S)
  PROVE  Reversed(s) \in Seq(S)
<1>1. \A i \in 1..Len(s) : s[Len(s) + 1 - i] \in S
  <2> SUFFICES ASSUME NEW i \in 1..Len(s) PROVE s[Len(s) + 1 - i] \in S
    OBVIOUS
  <2>1. Len(s) + 1 - i \in 1..Len(s)
    OBVIOUS
  <2> QED BY <2>1
<1> QED BY <1>1 DEF Reversed

-----------------------------------------------------------------------------
(***************************************************************************)
(* What one AnalyticsStore.add does.                                        *)
(***************************************************************************)
StoreOK ==
  /\ store \in Seq(Entries)
  /\ dedupeKeys \in SUBSET Keys
  /\ recorded \in SUBSET Keys
  /\ again \in BOOLEAN
  /\ KeysMatchEvents

\* An addition of an event, new, known or without a key, leaves the keys those
\* of the events held.
LEMMA AddKeeps ==
  ASSUME StoreOK, NEW key \in Entries, Add(key)
  PROVE  StoreOK'
<1>1. CASE key # NoKey /\ key \in dedupeKeys
  BY <1>1 DEF Add, storeVars, StoreOK, KeysMatchEvents
<1>2. CASE ~(key # NoKey /\ key \in dedupeKeys)
  <2> DEFINE t == AppendLeft(store, key, MaxEvents)
             full == Len(store) = MaxEvents
  <2>1. store \in Seq(Entries) /\ Len(store) <= MaxEvents /\ MaxEvents \in Nat \ {0}
    BY CapacityAssumption DEF StoreOK, KeysMatchEvents
  <2>2. /\ t \in Seq(Entries)
        /\ Len(t) = IF Len(store) < MaxEvents THEN Len(store) + 1 ELSE MaxEvents
        /\ t[1] = key
        /\ \A i \in 2..Len(t) : t[i] = store[i - 1]
    BY <2>1, AppendLeftLemma
  <2> HIDE DEF t
  <2>3. /\ Len(t) \in Nat /\ Len(store) \in Nat
        /\ full => Len(t) = Len(store) /\ Len(store) \in 1..Len(store)
        /\ ~full => Len(t) = Len(store) + 1
        /\ 1 \in 1..Len(t)
        /\ Len(t) <= MaxEvents
    <3>1. Len(store) \in Nat
      BY <2>1
    <3> QED BY <2>1, <2>2, <3>1
  <2>4. store' = t
    BY <1>2 DEF Add, t
  <2> HIDE DEF full
  <2>5. /\ dedupeKeys' = (dedupeKeys \ Forgotten) \cup ({key} \ {NoKey})
        /\ recorded' = recorded \cup ({key} \ {NoKey})
        /\ again' = (again \/ key \in recorded)
    BY <1>2 DEF Add
  <2>6. /\ dedupeKeys = {store[i] : i \in 1..Len(store)} \ {NoKey}
        /\ \A i, j \in 1..Len(store) : i # j /\ store[i] = store[j] => store[i] = NoKey
    BY <2>1 DEF StoreOK, KeysMatchEvents
  <2>7. key # NoKey => \A i \in 1..Len(store) : store[i] # key
    BY <1>2, <2>6
  <2>8. \A i \in 1..Len(t) : i = 1 \/ (i - 1 \in 1..Len(store) /\ t[i] = store[i - 1])
    <3> SUFFICES ASSUME NEW i \in 1..Len(t), i # 1
                 PROVE  i - 1 \in 1..Len(store) /\ t[i] = store[i - 1]
      OBVIOUS
    <3>1. i \in 2..Len(t) /\ i - 1 \in 1..Len(store)
      BY <2>3
    <3> QED BY <2>2, <3>1
  <2>9. \A i \in 1..Len(store) :
          (full /\ i = Len(store)) \/ (i + 1 \in 1..Len(t) /\ t[i + 1] = store[i])
    <3> SUFFICES ASSUME NEW i \in 1..Len(store), ~(full /\ i = Len(store))
                 PROVE  i + 1 \in 1..Len(t) /\ t[i + 1] = store[i]
      OBVIOUS
    <3>1. i + 1 \in 2..Len(t) /\ i + 1 \in 1..Len(t) /\ (i + 1) - 1 = i
      BY <2>3
    <3> QED BY <2>2, <3>1
  <2>10. \A i, j \in 1..Len(t) : i < j /\ t[i] = t[j] => t[i] = NoKey
    <3> SUFFICES ASSUME NEW i \in 1..Len(t), NEW j \in 1..Len(t), i < j, t[i] = t[j]
                 PROVE  t[i] = NoKey
      OBVIOUS
    <3>1. j - 1 \in 1..Len(store) /\ t[j] = store[j - 1]
      BY <2>3, <2>8
    <3>2. CASE i = 1
      BY <2>2, <2>7, <3>1, <3>2
    <3>3. CASE i # 1
      <4>1. i - 1 \in 1..Len(store) /\ t[i] = store[i - 1]
        BY <2>8, <3>3
      <4>2. i - 1 # j - 1
        BY <2>3
      <4> QED BY <2>6, <3>1, <4>1, <4>2
    <3> QED BY <3>2, <3>3
  <2>11. \A i, j \in 1..Len(t) : i # j /\ t[i] = t[j] => t[i] = NoKey
    <3> SUFFICES ASSUME NEW i \in 1..Len(t), NEW j \in 1..Len(t), i # j, t[i] = t[j]
                 PROVE  t[i] = NoKey
      OBVIOUS
    <3>1. i < j \/ j < i
      BY <2>3
    <3> QED BY <2>10, <3>1
  <2>12. ASSUME NEW k \in dedupeKeys'
         PROVE  k \in {t[i] : i \in 1..Len(t)} \ {NoKey}
    <3>1. CASE k = key /\ k # NoKey
      BY <2>2, <2>3, <3>1
    <3>2. CASE k \in dedupeKeys /\ k \notin Forgotten
      <4>1. PICK i \in 1..Len(store) : store[i] = k
        BY <2>6, <3>2
      <4>2. ~(full /\ i = Len(store))
        BY <3>2, <4>1 DEF Forgotten, full
      <4>3. i + 1 \in 1..Len(t) /\ t[i + 1] = k
        BY <2>9, <4>1, <4>2
      <4>4. k # NoKey
        BY <2>6, <3>2
      <4> QED BY <4>3, <4>4
    <3> QED BY <2>5, <2>12, <3>1, <3>2
  <2>13. ASSUME NEW i \in 1..Len(t), t[i] # NoKey
         PROVE  t[i] \in dedupeKeys'
    <3>1. CASE i = 1
      BY <2>2, <2>5, <2>13, <3>1
    <3>2. CASE i # 1
      <4>1. i - 1 \in 1..Len(store) /\ t[i] = store[i - 1]
        BY <2>8, <3>2
      <4>2. store[i - 1] \in dedupeKeys
        BY <2>6, <2>13, <4>1
      <4>3. store[i - 1] \notin Forgotten
        <5> SUFFICES ASSUME full, store[i - 1] = store[Len(store)] PROVE FALSE
          BY DEF Forgotten, full
        <5>1. Len(store) \in 1..Len(store) /\ i - 1 # Len(store)
          BY <2>3
        <5> QED BY <2>6, <2>13, <4>1, <5>1
      <4> QED BY <2>5, <4>1, <4>2, <4>3
    <3> QED BY <3>1, <3>2
  <2>14. dedupeKeys' = {t[i] : i \in 1..Len(t)} \ {NoKey}
    BY <2>12, <2>13
  <2>15. dedupeKeys' \in SUBSET Keys /\ recorded' \in SUBSET Keys /\ again' \in BOOLEAN
    BY <2>5 DEF Entries, StoreOK
  <2>16. KeysMatchEvents'
    BY <2>2, <2>3, <2>4, <2>11, <2>14 DEF KeysMatchEvents
  <2> QED BY <2>2, <2>4, <2>15, <2>16 DEF StoreOK
<1> QED BY <1>1, <1>2

-----------------------------------------------------------------------------
(***************************************************************************)
(* The invariant of a whole collection: its state has the types of TypeOK,  *)
(* the histories fit their caches, and the store is as above.               *)
(***************************************************************************)
HistoriesOK ==
  /\ made \in [Sources -> Nat]
  /\ history \in [Histories -> Seq(Keys)]
  /\ \A s \in Histories : Len(history[s]) <= MaxHistory

CollectionOK ==
  /\ status \in Statuses
  /\ fingerprint \in Statuses \cup {NoStatus}
  /\ stage \in {"runtime", "vision", "game", "recommendation"}
  /\ pending \in Seq(Keys)

IInv == HistoriesOK /\ CollectionOK /\ StoreOK

LEMMA InitIInv == Init => IInv
<1> SUFFICES ASSUME Init PROVE IInv
  OBVIOUS
<1>1. made \in [Sources -> Nat]
  BY DEF Init
<1>2. \A s \in Histories : << <<s, 1>> >> \in Seq(Keys) /\ Len(<< <<s, 1>> >>) = 1
  <2> SUFFICES ASSUME NEW s \in Histories
               PROVE  << <<s, 1>> >> \in Seq(Keys) /\ Len(<< <<s, 1>> >>) = 1
    OBVIOUS
  <2>1. << s, 1 >> \in Keys
    BY DEF Keys, Sources
  <2> QED BY <2>1
<1>3. HistoriesOK
  BY <1>1, <1>2, CapacityAssumption DEF Init, HistoriesOK
<1>4. CollectionOK
  BY DEF Init, CollectionOK
<1>5. /\ store = << >> /\ << >> \in Seq(Entries) /\ DOMAIN store = {}
      /\ Len(store) = 0
  BY DEF Init
<1>6. KeysMatchEvents
  <2>1. dedupeKeys = {}
    BY DEF Init
  <2>2. dedupeKeys = {store[i] : i \in DOMAIN store} \ {NoKey}
    BY <1>5, <2>1
  <2>3. Len(store) <= MaxEvents
    BY <1>5, CapacityAssumption
  <2> QED BY <1>5, <2>2, <2>3 DEF KeysMatchEvents
<1>7. StoreOK
  <2>1. store \in Seq(Entries)
    BY <1>5
  <2> QED BY <1>6, <2>1 DEF Init, StoreOK
<1> QED BY <1>3, <1>4, <1>7 DEF IInv

\* A step that leaves the store alone leaves its invariant alone.
LEMMA StoreUntouched == ASSUME StoreOK, UNCHANGED storeVars PROVE StoreOK'
BY DEF StoreOK, storeVars, KeysMatchEvents

LEMMA CacheUpdateKeeps ==
  ASSUME IInv, NEW s \in Histories, CacheUpdate(s)
  PROVE  IInv'
<1> DEFINE key == << s, made[s] + 1 >>
           t == AppendLeft(history[s], key, MaxHistory)
<1>1. s \in Sources /\ made[s] \in Nat /\ history[s] \in Seq(Keys)
      /\ Len(history[s]) <= MaxHistory /\ MaxHistory \in Nat \ {0}
  BY CapacityAssumption DEF IInv, HistoriesOK, Sources
<1>2. key \in Keys
  BY <1>1 DEF Keys
<1> HIDE DEF key
<1>3. t \in Seq(Keys) /\ Len(t) = IF Len(history[s]) < MaxHistory
                                  THEN Len(history[s]) + 1 ELSE MaxHistory
  BY <1>1, <1>2, AppendLeftLemma
<1>4. Len(t) <= MaxHistory
  <2>1. Len(history[s]) \in Nat
    BY <1>1
  <2> QED BY <1>1, <1>3, <2>1
<1>5. history' = [history EXCEPT ![s] = t] /\ made' = [made EXCEPT ![s] = made[s] + 1]
  BY DEF CacheUpdate, Made, key
<1> HIDE DEF t
<1>6. HistoriesOK'
  BY <1>1, <1>3, <1>4, <1>5 DEF IInv, HistoriesOK
<1>7. CollectionOK' /\ StoreOK'
  BY StoreUntouched DEF CacheUpdate, Made, IInv, CollectionOK
<1> QED BY <1>6, <1>7 DEF IInv

LEMMA NewDetectionKeeps == ASSUME IInv, NewDetection PROVE IInv'
<1>1. "vision" \in Sources /\ made["vision"] \in Nat
  BY DEF IInv, HistoriesOK, Sources
<1>2. HistoriesOK'
  BY <1>1 DEF NewDetection, Made, IInv, HistoriesOK
<1>3. CollectionOK' /\ StoreOK'
  BY StoreUntouched DEF NewDetection, Made, IInv, CollectionOK
<1> QED BY <1>2, <1>3 DEF IInv

LEMMA StatusChangesKeeps == ASSUME IInv, StatusChanges PROVE IInv'
<1>1. HistoriesOK' /\ CollectionOK'
  BY DEF StatusChanges, IInv, HistoriesOK, CollectionOK
<1>2. StoreOK'
  BY StoreUntouched DEF StatusChanges, IInv
<1> QED BY <1>1, <1>2 DEF IInv

LEMMA CollectRuntimeKeeps == ASSUME IInv, CollectRuntime PROVE IInv'
<1>1. HistoriesOK' /\ CollectionOK'
  BY DEF CollectRuntime, sources, IInv, HistoriesOK, CollectionOK
<1>2. NoKey \in Entries /\ (UNCHANGED storeVars \/ Add(NoKey))
  BY DEF CollectRuntime, Entries
<1>3. StoreOK'
  BY <1>2, AddKeeps, StoreUntouched DEF IInv
<1> QED BY <1>1, <1>3 DEF IInv

LEMMA CollectDetectionKeeps == ASSUME IInv, CollectDetection PROVE IInv'
<1> DEFINE key == << "vision", made["vision"] >>
<1>1. HistoriesOK' /\ CollectionOK'
  BY DEF CollectDetection, sources, IInv, HistoriesOK, CollectionOK
<1>2. key \in Entries
  BY DEF IInv, HistoriesOK, Sources, Entries, Keys
<1>3. UNCHANGED storeVars \/ Add(key)
  BY DEF CollectDetection
<1> HIDE DEF key
<1>4. StoreOK'
  BY <1>2, <1>3, AddKeeps, StoreUntouched DEF IInv
<1> QED BY <1>1, <1>4 DEF IInv

LEMMA ReadHistoryKeeps ==
  ASSUME IInv, NEW s \in Histories,
         NEW next \in {"runtime", "recommendation"}, ReadHistory(s, next)
  PROVE  IInv'
<1>1. HistoriesOK' /\ StoreOK'
  BY StoreUntouched DEF ReadHistory, sources, IInv, HistoriesOK
<1>2. history[s] \in Seq(Keys)
  BY DEF IInv, HistoriesOK
<1>3. Reversed(history[s]) \in Seq(Keys)
  BY <1>2, ReversedLemma
<1>4. CollectionOK'
  BY <1>3 DEF ReadHistory, sources, IInv, CollectionOK
<1> QED BY <1>1, <1>4 DEF IInv

LEMMA AddNextKeeps == ASSUME IInv, AddNext PROVE IInv'
<1>1. Head(pending) \in Keys /\ Tail(pending) \in Seq(Keys)
  BY DEF IInv, CollectionOK, AddNext
<1>2. HistoriesOK' /\ CollectionOK'
  BY <1>1 DEF AddNext, sources, IInv, HistoriesOK, CollectionOK
<1>3. Head(pending) \in Entries /\ Add(Head(pending))
  BY <1>1 DEF AddNext, Entries
<1>4. StoreOK'
  BY <1>3, AddKeeps DEF IInv
<1> QED BY <1>2, <1>4 DEF IInv

LEMMA NextKeeps == IInv /\ [Next]_vars => IInv'
<1> SUFFICES ASSUME IInv, [Next]_vars PROVE IInv'
  OBVIOUS
<1>1. CASE \E s \in Histories : CacheUpdate(s)
  BY <1>1, CacheUpdateKeeps
<1>2. CASE NewDetection
  BY <1>2, NewDetectionKeeps
<1>3. CASE StatusChanges
  BY <1>3, StatusChangesKeeps
<1>4. CASE CollectRuntime
  BY <1>4, CollectRuntimeKeeps
<1>5. CASE CollectDetection
  BY <1>5, CollectDetectionKeeps
<1>6. CASE ReadHistory("game", "recommendation")
  BY <1>6, ReadHistoryKeeps DEF Histories
<1>7. CASE ReadHistory("recommendation", "runtime")
  BY <1>7, ReadHistoryKeeps DEF Histories
<1>8. CASE AddNext
  BY <1>8, AddNextKeeps
<1>9. CASE UNCHANGED vars
  <2>1. HistoriesOK' /\ CollectionOK'
    BY <1>9 DEF vars, sources, IInv, HistoriesOK, CollectionOK
  <2> QED BY <1>9, <2>1, StoreUntouched DEF vars, IInv
<1> QED BY <1>1, <1>2, <1>3, <1>4, <1>5, <1>6, <1>7, <1>8, <1>9 DEF Next

\* Whatever the watched services do between two reads of a collection, the
\* state keeps its types and the histories fit their caches.
THEOREM Inductive == Spec => []IInv
BY InitIInv, NextKeeps, PTL DEF Spec

THEOREM TypeCorrect == Spec => []TypeOK
<1>1. IInv => TypeOK
  BY DEF IInv, HistoriesOK, CollectionOK, StoreOK, TypeOK, Entries
<1> QED BY <1>1, Inductive, PTL

\* AnalyticsStore's _dedupe_keys are the keys of exactly the events it holds,
\* for every capacity: no event is held twice, none that fell out of the deque
\* is refused for ever, and the set does not outgrow the deque.
THEOREM KeysMatch == Spec => []KeysMatchEvents
<1>1. IInv => KeysMatchEvents
  BY DEF IInv, StoreOK
<1> QED BY <1>1, Inductive, PTL
-----------------------------------------------------------------------------
(***************************************************************************)
(* The order of the list.  The numbers of a cache's events run without a    *)
(* gap, so do those of the events a collection has read and not yet added;  *)
(* and whatever can still be added and is older than a recorded event of    *)
(* its source has been recorded itself.                                     *)
(***************************************************************************)
HistoryNumbered ==
  \A s \in Histories : \A i \in 1..Len(history[s]) : history[s][i] = << s, made[s] + 1 - i >>

PendingNumbered ==
  \A i \in 1..Len(pending) :
    /\ pending[i][1] \in Histories
    /\ pending[i][1] = pending[1][1]
    /\ pending[i][2] = pending[1][2] + i - 1
    /\ pending[i][2] <= made[pending[i][1]]

RecordedMade ==
  /\ \A r \in recorded : r[2] <= made[r[1]]
  /\ dedupeKeys \subseteq recorded

\* An event x that is not newer than a recorded one is recorded too.
CaughtUp(x) == \A r \in recorded : r[1] = x[1] /\ x[2] <= r[2] => x \in recorded

VisibleCaughtUp ==
  /\ \A s \in Histories : \A i \in 1..Len(history[s]) : CaughtUp(history[s][i])
  /\ \A i \in 1..Len(pending) : CaughtUp(pending[i])

\* What a cache still lists and is older than the next event to add is recorded.
OlderRecorded ==
  pending # << >> =>
    \A i \in 1..Len(history[pending[1][1]]) :
      history[pending[1][1]][i][2] < pending[1][2] => history[pending[1][1]][i] \in recorded

Order ==
  /\ HistoryNumbered /\ PendingNumbered /\ RecordedMade
  /\ VisibleCaughtUp /\ OlderRecorded
  /\ NewestFirst

LEMMA KeyParts == ASSUME NEW k \in Keys
                  PROVE  k[1] \in Sources /\ k[2] \in Nat /\ k = << k[1], k[2] >>
BY DEF Keys

\* Entry by entry, a reversed sequence.
LEMMA ReversedEntries ==
  ASSUME NEW S, NEW s \in Seq(S)
  PROVE  /\ Len(Reversed(s)) = Len(s)
         /\ \A i \in 1..Len(s) : /\ Len(s) + 1 - i \in 1..Len(s)
                                 /\ Reversed(s)[i] = s[Len(s) + 1 - i]
<1>1. \A i \in 1..Len(s) : s[Len(s) + 1 - i] \in S
  <2> SUFFICES ASSUME NEW i \in 1..Len(s) PROVE s[Len(s) + 1 - i] \in S
    OBVIOUS
  <2>1. Len(s) + 1 - i \in 1..Len(s)
    OBVIOUS
  <2> QED BY <2>1
<1> QED BY <1>1 DEF Reversed

\* After an addition the key is among the recorded ones, and nothing else is new.
LEMMA AddRecords ==
  ASSUME StoreOK, dedupeKeys \subseteq recorded, NEW key \in Entries, Add(key)
  PROVE  recorded' = recorded \cup ({key} \ {NoKey}) /\ dedupeKeys' \subseteq recorded'
BY DEF Add, storeVars

\* Adding a key newer than every recorded one of its source keeps the list in
\* order.
LEMMA AddOrdered ==
  ASSUME StoreOK, NewestFirst, dedupeKeys \subseteq recorded, NEW key \in Entries, Add(key),
         key # NoKey /\ key \notin recorded =>
           \A r \in recorded : r[1] = key[1] => r[2] < key[2]
  PROVE  NewestFirst'
<1>1. CASE key # NoKey /\ key \in dedupeKeys
  BY <1>1 DEF Add, storeVars, NewestFirst
<1>2. CASE ~(key # NoKey /\ key \in dedupeKeys)
  <2> DEFINE t == AppendLeft(store, key, MaxEvents)
  <2>1. store \in Seq(Entries) /\ Len(store) <= MaxEvents /\ MaxEvents \in Nat \ {0}
    BY CapacityAssumption DEF StoreOK, KeysMatchEvents
  <2>2. /\ t \in Seq(Entries)
        /\ Len(t) = IF Len(store) < MaxEvents THEN Len(store) + 1 ELSE MaxEvents
        /\ t[1] = key
        /\ \A n \in 2..Len(t) : t[n] = store[n - 1]
    BY <2>1, AppendLeftLemma
  <2>3. store' = t
    BY <1>2 DEF Add
  <2> HIDE DEF t
  <2> SUFFICES ASSUME ~again', NEW i \in 1..Len(t), NEW j \in 1..Len(t), i < j,
                      t[i] # NoKey, t[j] # NoKey, t[i][1] = t[j][1]
               PROVE  t[i][2] > t[j][2]
    <3>1. DOMAIN t = 1..Len(t)
      BY <2>2
    <3> QED BY <2>3, <3>1 DEF NewestFirst
  <2>4. Len(t) \in Nat /\ Len(t) <= Len(store) + 1 /\ Len(store) \in Nat
    <3>1. Len(store) \in Nat
      BY <2>1
    <3> QED BY <2>1, <2>2, <3>1
  <2>5. j - 1 \in 1..Len(store) /\ t[j] = store[j - 1]
    <3>1. j \in 2..Len(t)
      OBVIOUS
    <3> QED BY <2>2, <2>4, <3>1
  <2>6. ~again /\ key \notin recorded
    BY <1>2 DEF Add, StoreOK
  <2>7. CASE i = 1
    <3>1. t[j] \in recorded
      BY <2>5 DEF StoreOK, KeysMatchEvents
    <3>2. t[i] = key
      BY <2>2, <2>7
    <3>3. t[j] \in Keys /\ t[i] \in Keys
      BY <2>2, <2>5 DEF Entries
    <3>4. t[j][2] < t[i][2]
      BY <2>6, <3>1, <3>2
    <3> QED BY <3>3, <3>4, KeyParts
  <2>8. CASE i # 1
    <3>1. i - 1 \in 1..Len(store) /\ t[i] = store[i - 1] /\ i - 1 < j - 1
      <4>1. i \in 2..Len(t)
        BY <2>8
      <4> QED BY <2>2, <2>4, <4>1
    <3>2. DOMAIN store = 1..Len(store)
      BY <2>1
    <3>3. \A m, n \in 1..Len(store) :
            (m < n /\ NoKey \notin {store[m], store[n]} /\ store[m][1] = store[n][1])
              => store[m][2] > store[n][2]
      BY <2>6, <3>2 DEF NewestFirst
    <3> QED BY <2>5, <3>1, <3>3
  <2> QED BY <2>7, <2>8
<1> QED BY <1>1, <1>2

OInv == IInv /\ Order

LEMMA InitOrder == Init => Order
<1> SUFFICES ASSUME Init PROVE Order
  OBVIOUS
<1>1. \A s \in Histories : made[s] = 1 /\ history[s] = << <<s, 1>> >>
  BY DEF Init, Histories, Sources
<1>2. HistoryNumbered
  BY <1>1 DEF HistoryNumbered
<1>3. Len(pending) = 0 /\ Len(store) = 0 /\ recorded = {} /\ dedupeKeys = {}
  BY DEF Init
<1>4. DOMAIN store = {}
  BY DEF Init
<1> QED BY <1>2, <1>3, <1>4, <1>1
      DEF Init, Order, PendingNumbered, RecordedMade, VisibleCaughtUp, CaughtUp,
          OlderRecorded, NewestFirst

\* A step of the watched services: an event more of one source.
LEMMA CacheUpdateOrders ==
  ASSUME OInv, NEW s \in Histories, CacheUpdate(s)
  PROVE  Order'
<1> DEFINE key == << s, made[s] + 1 >>
           t == AppendLeft(history[s], key, MaxHistory)
<1>1. s \in Sources /\ made \in [Sources -> Nat] /\ made[s] \in Nat
      /\ history \in [Histories -> Seq(Keys)] /\ history[s] \in Seq(Keys)
      /\ Len(history[s]) <= MaxHistory /\ MaxHistory \in Nat \ {0}
  BY CapacityAssumption DEF OInv, IInv, HistoriesOK, Sources
<1>2. key \in Keys /\ key[1] = s /\ key[2] = made[s] + 1
  BY <1>1 DEF Keys
<1> HIDE DEF key
<1>3. /\ t \in Seq(Keys)
      /\ Len(t) = IF Len(history[s]) < MaxHistory THEN Len(history[s]) + 1 ELSE MaxHistory
      /\ t[1] = key
      /\ \A i \in 2..Len(t) : t[i] = history[s][i - 1]
  BY <1>1, <1>2, AppendLeftLemma
<1>4. history' = [history EXCEPT ![s] = t] /\ made' = [made EXCEPT ![s] = made[s] + 1]
  BY DEF CacheUpdate, Made, key
<1>5. UNCHANGED << pending, storeVars >>
  BY DEF CacheUpdate, Made
<1> HIDE DEF t
<1>6. \A i \in 1..Len(t) : \/ i = 1 /\ t[i] = key
                           \/ i - 1 \in 1..Len(history[s]) /\ t[i] = history[s][i - 1]
  <2>1. Len(history[s]) \in Nat
    BY <1>1
  <2>2. Len(t) \in Nat /\ Len(t) <= Len(history[s]) + 1
    BY <1>1, <1>3, <2>1
  <2> SUFFICES ASSUME NEW i \in 1..Len(t), i # 1
               PROVE  i - 1 \in 1..Len(history[s]) /\ t[i] = history[s][i - 1]
    BY <1>3
  <2>3. i \in 2..Len(t) /\ i - 1 \in 1..Len(history[s])
    BY <2>1, <2>2
  <2> QED BY <1>3, <2>3
<1>7. /\ history'[s] = t /\ made'[s] = made[s] + 1
      /\ \A h \in Histories \ {s} : history'[h] = history[h] /\ made'[h] = made[h]
      /\ \A h \in Sources : made[h] \in Nat /\ made'[h] \in Nat /\ made[h] <= made'[h]
  BY <1>1, <1>4 DEF Sources
<1>8. HistoryNumbered'
  <2> SUFFICES ASSUME NEW h \in Histories, NEW i \in 1..Len(history'[h])
               PROVE  history'[h][i] = << h, made'[h] + 1 - i >>
    BY DEF HistoryNumbered
  <2>1. CASE h # s
    BY <1>7, <2>1 DEF OInv, Order, HistoryNumbered
  <2>2. CASE h = s /\ i = 1
    BY <1>1, <1>6, <1>7, <2>2 DEF key
  <2>3. CASE h = s /\ i # 1
    <3>1. i - 1 \in 1..Len(history[s]) /\ t[i] = history[s][i - 1]
      BY <1>6, <1>7, <2>3
    <3>2. history[s][i - 1] = << s, made[s] + 1 - (i - 1) >>
      BY <3>1 DEF OInv, Order, HistoryNumbered
    <3>3. made[s] + 1 - (i - 1) = made'[s] + 1 - i
      BY <1>1, <1>7, <2>3
    <3> QED BY <1>7, <2>3, <3>1, <3>2, <3>3
  <2> QED BY <2>1, <2>2, <2>3
<1>9. \A i \in 1..Len(pending) : pending[i] \in Keys /\ pending[i][2] \in Nat
  <2>1. pending \in Seq(Keys)
    BY DEF OInv, IInv, CollectionOK
  <2> QED BY <2>1, KeyParts
<1>10. PendingNumbered'
  <2> SUFFICES ASSUME NEW i \in 1..Len(pending)
               PROVE  /\ pending[i][1] \in Histories
                      /\ pending[i][1] = pending[1][1]
                      /\ pending[i][2] = pending[1][2] + i - 1
                      /\ pending[i][2] <= made'[pending[i][1]]
    BY <1>5 DEF PendingNumbered
  <2>1. /\ pending[i][1] \in Histories
        /\ pending[i][1] = pending[1][1]
        /\ pending[i][2] = pending[1][2] + i - 1
        /\ pending[i][2] <= made[pending[i][1]]
    BY DEF OInv, Order, PendingNumbered
  <2> QED BY <1>7, <1>9, <2>1 DEF Sources
<1>11. \A r \in recorded : r[1] \in Sources /\ r[2] \in Nat /\ r[2] <= made[r[1]]
  BY KeyParts DEF OInv, IInv, StoreOK, Order, RecordedMade
<1>12. RecordedMade'
  BY <1>5, <1>7, <1>11 DEF RecordedMade, storeVars, OInv, Order
<1>13. CaughtUp(key)
  <2> SUFFICES ASSUME NEW r \in recorded, r[1] = s, made[s] + 1 <= r[2] PROVE FALSE
    BY <1>2 DEF CaughtUp
  <2> QED BY <1>1, <1>11
<1>14. /\ \A h \in Histories : \A i \in 1..Len(history[h]) : CaughtUp(history[h][i])
       /\ \A i \in 1..Len(pending) : CaughtUp(pending[i])
  BY DEF OInv, Order, VisibleCaughtUp
<1>15. \A h \in Histories : \A i \in 1..Len(history'[h]) : CaughtUp(history'[h][i])
  BY <1>6, <1>7, <1>13, <1>14
<1>16. VisibleCaughtUp'
  BY <1>5, <1>14, <1>15 DEF VisibleCaughtUp, CaughtUp, storeVars
<1>17. OlderRecorded'
  <2> DEFINE p == pending[1][1]
  <2> SUFFICES ASSUME pending # << >>, NEW i \in 1..Len(history'[p]),
                      history'[p][i][2] < pending[1][2]
               PROVE  history'[p][i] \in recorded
    BY <1>5 DEF OlderRecorded, storeVars
  <2>1. 1 \in 1..Len(pending)
    BY DEF OInv, IInv, CollectionOK
  <2>2. p \in Histories /\ pending[1][2] <= made[p] /\ pending[1][2] \in Nat
    BY <1>9, <2>1 DEF OInv, Order, PendingNumbered
  <2>3. \A n \in 1..Len(history[p]) :
          history[p][n][2] < pending[1][2] => history[p][n] \in recorded
    BY DEF OInv, Order, OlderRecorded
  <2> HIDE DEF p
  <2>4. CASE p # s
    BY <1>7, <2>2, <2>3, <2>4
  <2>5. CASE p = s
    <3>1. history'[p][i] # key
      BY <1>1, <1>2, <2>2, <2>5
    <3>2. i - 1 \in 1..Len(history[p]) /\ history'[p][i] = history[p][i - 1]
      BY <1>6, <1>7, <2>5, <3>1
    <3> QED BY <2>3, <3>2
  <2> QED BY <2>4, <2>5
<1>18. NewestFirst'
  BY <1>5 DEF OInv, Order, NewestFirst, storeVars
<1> QED BY <1>8, <1>10, <1>12, <1>16, <1>17, <1>18 DEF Order

LEMMA NewDetectionOrders == ASSUME OInv, NewDetection PROVE Order'
<1>1. /\ made \in [Sources -> Nat] /\ "vision" \in Sources \ Histories
      /\ made' = [made EXCEPT !["vision"] = made["vision"] + 1]
      /\ UNCHANGED << history, pending, storeVars >>
  BY DEF OInv, IInv, HistoriesOK, NewDetection, Made, Sources, Histories
<1>2. /\ \A s \in Histories : made'[s] = made[s]
      /\ \A s \in Sources : made[s] \in Nat /\ made'[s] \in Nat /\ made[s] <= made'[s]
  BY <1>1 DEF Sources
<1>3. \A r \in recorded : r[1] \in Sources /\ r[2] \in Nat /\ r[2] <= made[r[1]]
  BY KeyParts DEF OInv, IInv, StoreOK, Order, RecordedMade
<1>4. RecordedMade'
  BY <1>1, <1>2, <1>3 DEF RecordedMade, storeVars, OInv, Order
<1>5. HistoryNumbered' /\ PendingNumbered'
  BY <1>1, <1>2 DEF OInv, Order, HistoryNumbered, PendingNumbered
<1>6. VisibleCaughtUp' /\ OlderRecorded' /\ NewestFirst'
  BY <1>1 DEF OInv, Order, VisibleCaughtUp, CaughtUp, OlderRecorded, NewestFirst, storeVars
<1> QED BY <1>4, <1>5, <1>6 DEF Order

\* A step that leaves the sources, the events read and the store alone.
LEMMA OrderUntouched ==
  ASSUME Order, UNCHANGED << made, history, pending, storeVars >>
  PROVE  Order'
BY DEF Order, HistoryNumbered, PendingNumbered, RecordedMade, VisibleCaughtUp, CaughtUp,
       OlderRecorded, NewestFirst, storeVars

\* An event of no cache, newer than every recorded one of its source.
LEMMA AddOutsideOrders ==
  ASSUME OInv, UNCHANGED << made, history, pending >>, NEW key \in Entries, Add(key),
         key # NoKey => key[1] \notin Histories /\ key[2] = made[key[1]]
  PROVE  Order'
<1>1. StoreOK /\ dedupeKeys \subseteq recorded /\ NewestFirst
  BY DEF OInv, IInv, Order, RecordedMade
<1>2. recorded' = recorded \cup ({key} \ {NoKey}) /\ dedupeKeys' \subseteq recorded'
  BY <1>1, AddRecords
<1>3. \A r \in recorded : r \in Keys /\ r[2] \in Nat /\ r[2] <= made[r[1]]
  BY KeyParts DEF OInv, IInv, StoreOK, Order, RecordedMade
<1>4. key # NoKey /\ key \notin recorded => \A r \in recorded : r[1] = key[1] => r[2] < key[2]
  <2> SUFFICES ASSUME key # NoKey, key \notin recorded, NEW r \in recorded, r[1] = key[1]
               PROVE  r[2] < key[2]
    OBVIOUS
  <2>1. key \in Keys /\ r = << r[1], r[2] >> /\ key = << key[1], key[2] >> /\ key[2] \in Nat
    BY <1>3, KeyParts DEF Entries
  <2>2. r[2] # key[2]
    BY <2>1
  <2> QED BY <1>3, <2>1, <2>2
<1>5. NewestFirst'
  BY <1>1, <1>4, AddOrdered
<1>6. HistoryNumbered' /\ PendingNumbered'
  BY DEF OInv, Order, HistoryNumbered, PendingNumbered
<1>7. key # NoKey => key[2] <= made[key[1]]
  <2> SUFFICES ASSUME key # NoKey PROVE key[2] <= made[key[1]]
    OBVIOUS
  <2>1. key[2] \in Nat
    BY KeyParts DEF Entries
  <2> QED BY <2>1
<1>8. RecordedMade'
  BY <1>2, <1>3, <1>7 DEF RecordedMade
<1>9. ASSUME NEW x, x[1] \in Histories, CaughtUp(x) PROVE CaughtUp(x)'
  BY <1>2, <1>9 DEF CaughtUp
<1>10. /\ \A s \in Histories : \A i \in 1..Len(history[s]) : history[s][i][1] = s
       /\ \A i \in 1..Len(pending) : pending[i][1] \in Histories
  BY DEF OInv, Order, HistoryNumbered, PendingNumbered
<1>11. VisibleCaughtUp'
  <2>1. ASSUME NEW s \in Histories, NEW i \in 1..Len(history[s]) PROVE CaughtUp(history[s][i])'
    <3>1. history[s][i][1] \in Histories /\ CaughtUp(history[s][i])
      BY <1>10 DEF OInv, Order, VisibleCaughtUp
    <3> QED BY <1>2, <1>10, <3>1 DEF CaughtUp
  <2>2. ASSUME NEW i \in 1..Len(pending) PROVE CaughtUp(pending[i])'
    <3>1. pending[i][1] \in Histories /\ CaughtUp(pending[i])
      BY <1>10 DEF OInv, Order, VisibleCaughtUp
    <3> QED BY <1>2, <1>10, <3>1 DEF CaughtUp
  <2> QED BY <2>1, <2>2 DEF VisibleCaughtUp
<1>12. OlderRecorded'
  BY <1>2 DEF OInv, Order, OlderRecorded
<1> QED BY <1>5, <1>6, <1>8, <1>11, <1>12 DEF Order

LEMMA CollectRuntimeOrders == ASSUME OInv, CollectRuntime PROVE Order'
<1>1. NoKey \in Entries /\ UNCHANGED << made, history, pending >>
      /\ (UNCHANGED storeVars \/ Add(NoKey))
  BY DEF CollectRuntime, Entries, sources
<1> QED BY <1>1, OrderUntouched, AddOutsideOrders DEF OInv

LEMMA CollectDetectionOrders == ASSUME OInv, CollectDetection PROVE Order'
<1> DEFINE key == << "vision", made["vision"] >>
<1>1. key \in Entries /\ key[1] \notin Histories /\ key[2] = made[key[1]]
  BY DEF OInv, IInv, HistoriesOK, Sources, Histories, Entries, Keys
<1>2. UNCHANGED << made, history, pending >> /\ (UNCHANGED storeVars \/ Add(key))
  BY DEF CollectDetection, sources
<1> HIDE DEF key
<1> QED BY <1>1, <1>2, OrderUntouched, AddOutsideOrders DEF OInv

\* The events read are those of the cache, so they have all their properties,
\* and none the cache lists is older than the first of them.
LEMMA ReadHistoryOrders ==
  ASSUME OInv, NEW s \in Histories,
         NEW next \in {"runtime", "recommendation"}, ReadHistory(s, next)
  PROVE  Order'
<1> DEFINE h == history[s]
           n == Len(h)
           p == Reversed(h)
<1>1. h \in Seq(Keys) /\ n \in Nat /\ made[s] \in Nat
  BY DEF OInv, IInv, HistoriesOK, Sources
<1>2. /\ pending' = p
      /\ UNCHANGED << made, history, storeVars >>
  BY DEF ReadHistory, sources
<1>3. Len(p) = n /\ \A i \in 1..n : n + 1 - i \in 1..n /\ p[i] = h[n + 1 - i]
  BY <1>1, ReversedEntries
<1>4. \A i \in 1..n : h[i] = << s, made[s] + 1 - i >> /\ h[i] \in Keys
  BY <1>1 DEF OInv, Order, HistoryNumbered
<1>5. \A i \in 1..n : h[i][1] = s /\ h[i][2] = made[s] + 1 - i
  BY <1>4
<1>6. \A i \in 1..n : CaughtUp(h[i])
  BY DEF OInv, Order, VisibleCaughtUp
<1> HIDE DEF p, n
<1>7. \A i \in 1..n : p[i][1] = s /\ p[i][2] = made[s] - n + i /\ CaughtUp(p[i])
  <2> SUFFICES ASSUME NEW i \in 1..n
               PROVE  p[i][1] = s /\ p[i][2] = made[s] - n + i /\ CaughtUp(p[i])
    OBVIOUS
  <2>1. n + 1 - i \in 1..n /\ p[i] = h[n + 1 - i]
    BY <1>3
  <2>2. p[i][1] = s /\ p[i][2] = made[s] + 1 - (n + 1 - i) /\ CaughtUp(p[i])
    BY <1>5, <1>6, <2>1
  <2> QED BY <1>1, <2>2
<1>8. PendingNumbered'
  <2> SUFFICES ASSUME NEW i \in 1..n
               PROVE  /\ p[i][1] \in Histories
                      /\ p[i][1] = p[1][1]
                      /\ p[i][2] = p[1][2] + i - 1
                      /\ p[i][2] <= made[p[i][1]]
    BY <1>2, <1>3 DEF PendingNumbered
  <2>1. 1 \in 1..n
    BY <1>1
  <2>2. p[1][1] = s /\ p[1][2] = made[s] - n + 1
    BY <1>7, <2>1
  <2>3. p[i][1] = s /\ p[i][2] = made[s] - n + i
    BY <1>7
  <2> QED BY <1>1, <2>2, <2>3
<1>9. HistoryNumbered' /\ RecordedMade' /\ NewestFirst'
  BY <1>2 DEF OInv, Order, HistoryNumbered, RecordedMade, NewestFirst, storeVars
<1>10. VisibleCaughtUp'
  <2>1. \A i \in 1..Len(p) : CaughtUp(p[i])
    BY <1>3, <1>7
  <2>2. \A g \in Histories : \A i \in 1..Len(history[g]) : CaughtUp(history[g][i])
    BY DEF OInv, Order, VisibleCaughtUp
  <2> QED BY <1>2, <2>1, <2>2 DEF VisibleCaughtUp, CaughtUp, storeVars
<1>11. OlderRecorded'
  <2> SUFFICES ASSUME p # << >>, NEW i \in 1..Len(history[p[1][1]]),
                      history[p[1][1]][i][2] < p[1][2]
               PROVE  FALSE
    BY <1>2 DEF OlderRecorded
  <2>1. n # 0
    <3>1. p \in Seq(Keys)
      BY <1>1, ReversedLemma DEF p
    <3> QED BY <1>3, <3>1
  <2>2. 1 \in 1..n
    BY <1>1, <2>1
  <2>3. p[1][1] = s /\ p[1][2] = made[s] - n + 1
    BY <1>7, <2>2
  <2>4. i \in 1..n /\ h[i][2] < p[1][2]
    BY <2>3 DEF n
  <2>5. h[i][2] = made[s] + 1 - i
    BY <1>5, <2>4
  <2> QED BY <1>1, <2>3, <2>4, <2>5
<1> QED BY <1>8, <1>9, <1>10, <1>11 DEF Order

\* The next event is newer than every recorded one of its cache, or recorded
\* itself: so it lands in front of older ones only.
LEMMA AddNextOrders == ASSUME OInv, AddNext PROVE Order'
<1> DEFINE x == pending[1]
           rest == Tail(pending)
<1>1. /\ pending \in Seq(Keys) /\ pending # << >> /\ Head(pending) = x
      /\ Len(pending) \in Nat /\ 1 \in 1..Len(pending) /\ x \in Keys
      /\ Len(rest) = Len(pending) - 1
      /\ \A i \in 1..Len(rest) : rest[i] = pending[i + 1]
  <2>1. pending \in Seq(Keys) /\ pending # << >>
    BY DEF OInv, IInv, CollectionOK, AddNext
  <2> QED BY <2>1
<1>2. Add(x) /\ pending' = rest /\ UNCHANGED << made, history >>
  BY <1>1 DEF AddNext, sources
<1>3. StoreOK /\ dedupeKeys \subseteq recorded /\ NewestFirst /\ x \in Entries /\ x # NoKey
  BY <1>1, KeyAssumption DEF OInv, IInv, Order, RecordedMade, Entries
<1>4. x[1] \in Histories /\ x[2] \in Nat /\ x[2] <= made[x[1]] /\ x = << x[1], x[2] >>
  BY <1>1, KeyParts DEF OInv, Order, PendingNumbered
<1>5. recorded' = recorded \cup {x} /\ dedupeKeys' \subseteq recorded'
  BY <1>2, <1>3, AddRecords
<1>6. \A i \in 1..Len(rest) :
        /\ i + 1 \in 1..Len(pending) /\ rest[i] = pending[i + 1]
        /\ rest[i][1] = x[1] /\ rest[i][2] = x[2] + i /\ rest[i][2] <= made[x[1]]
  <2> SUFFICES ASSUME NEW i \in 1..Len(rest)
               PROVE  /\ i + 1 \in 1..Len(pending) /\ rest[i] = pending[i + 1]
                      /\ rest[i][1] = x[1] /\ rest[i][2] = x[2] + i
                      /\ rest[i][2] <= made[x[1]]
    OBVIOUS
  <2>1. i + 1 \in 1..Len(pending) /\ rest[i] = pending[i + 1]
    BY <1>1
  <2>2. /\ pending[i + 1][1] = x[1]
        /\ pending[i + 1][2] = x[2] + (i + 1) - 1
        /\ pending[i + 1][2] <= made[pending[i + 1][1]]
    BY <2>1 DEF OInv, Order, PendingNumbered
  <2>3. x[2] + (i + 1) - 1 = x[2] + i
    BY <1>4
  <2> QED BY <2>1, <2>2, <2>3
<1>7. \A r \in recorded : r \in Keys /\ r[1] \in Sources /\ r[2] \in Nat /\ r[2] <= made[r[1]]
  BY KeyParts DEF OInv, IInv, StoreOK, Order, RecordedMade
<1>8. CaughtUp(x)
  BY <1>1 DEF OInv, Order, VisibleCaughtUp
<1> HIDE DEF x, rest
<1>9. NewestFirst'
  <2>1. x \notin recorded => \A r \in recorded : r[1] = x[1] => r[2] < x[2]
    BY <1>4, <1>7, <1>8 DEF CaughtUp
  <2> QED BY <1>2, <1>3, <2>1, AddOrdered
<1>10. HistoryNumbered' /\ PendingNumbered' /\ RecordedMade'
  <2>1. HistoryNumbered'
    BY <1>2 DEF OInv, Order, HistoryNumbered
  <2>2. PendingNumbered'
    <3> SUFFICES ASSUME NEW i \in 1..Len(rest)
                 PROVE  /\ rest[i][1] \in Histories
                        /\ rest[i][1] = rest[1][1]
                        /\ rest[i][2] = rest[1][2] + i - 1
                        /\ rest[i][2] <= made[rest[i][1]]
      BY <1>2 DEF PendingNumbered
    <3>1. 1 \in 1..Len(rest)
      BY <1>1 DEF rest
    <3>2. rest[1][1] = x[1] /\ rest[1][2] = x[2] + 1
      BY <1>6, <3>1
    <3>3. x[2] + i = (x[2] + 1) + i - 1
      BY <1>4
    <3> QED BY <1>4, <1>6, <3>2, <3>3
  <2>3. RecordedMade'
    BY <1>2, <1>4, <1>5, <1>7 DEF RecordedMade
  <2> QED BY <2>1, <2>2, <2>3
<1>11. \A s \in Histories : \A i \in 1..Len(history[s]) :
         /\ history[s][i] = << s, made[s] + 1 - i >>
         /\ history[s][i] \in Keys
         /\ CaughtUp(history[s][i])
  BY DEF OInv, IInv, HistoriesOK, Order, HistoryNumbered, VisibleCaughtUp
<1>12. \A i \in 1..Len(history[x[1]]) :
         history[x[1]][i][2] <= x[2] => history[x[1]][i] \in recorded'
  <2> SUFFICES ASSUME NEW i \in 1..Len(history[x[1]]), history[x[1]][i][2] <= x[2]
               PROVE  history[x[1]][i] \in recorded'
    OBVIOUS
  <2> DEFINE y == history[x[1]][i]
  <2>1. y \in Keys /\ y[1] = x[1]
    BY <1>4, <1>11
  <2>2. y[2] \in Nat /\ y = << y[1], y[2] >>
    BY <2>1, KeyParts
  <2>3. CASE y[2] = x[2]
    BY <1>4, <1>5, <2>1, <2>2, <2>3
  <2>4. CASE y[2] < x[2]
    BY <1>1, <1>5, <2>4 DEF OInv, Order, OlderRecorded, x
  <2> HIDE DEF y
  <2>5. y[2] < x[2] \/ y[2] = x[2]
    BY <1>4, <2>2 DEF y
  <2> QED BY <2>3, <2>4, <2>5 DEF y
<1>13. VisibleCaughtUp'
  <2>1. ASSUME NEW s \in Histories, NEW i \in 1..Len(history[s]) PROVE CaughtUp(history[s][i])'
    <3> SUFFICES ASSUME NEW r \in recorded', r[1] = history[s][i][1], history[s][i][2] <= r[2]
                 PROVE  history[s][i] \in recorded'
      BY <1>2 DEF CaughtUp
    <3>1. CASE r \in recorded
      BY <1>5, <1>11, <3>1 DEF CaughtUp
    <3>2. CASE r = x
      <4>1. s = x[1]
        BY <1>11, <3>2
      <4> QED BY <1>12, <3>2, <4>1
    <3> QED BY <1>5, <3>1, <3>2
  <2>2. ASSUME NEW i \in 1..Len(rest),
               NEW r \in recorded', r[1] = rest[i][1], rest[i][2] <= r[2]
        PROVE  rest[i] \in recorded'
    <3>1. CASE r \in recorded
      <4>1. CaughtUp(rest[i])
        BY <1>6 DEF OInv, Order, VisibleCaughtUp
      <4> QED BY <1>5, <2>2, <3>1, <4>1 DEF CaughtUp
    <3>2. CASE r = x
      BY <1>4, <1>6, <2>2, <3>2
    <3> QED BY <1>5, <3>1, <3>2
  <2>3. \A i \in 1..Len(pending') : CaughtUp(pending[i])'
    BY <1>2, <2>2 DEF CaughtUp
  <2> QED BY <1>2, <2>1, <2>3 DEF VisibleCaughtUp
<1>14. OlderRecorded'
  <2> SUFFICES ASSUME rest # << >>, NEW i \in 1..Len(history[rest[1][1]]),
                      history[rest[1][1]][i][2] < rest[1][2]
               PROVE  history[rest[1][1]][i] \in recorded'
    BY <1>2 DEF OlderRecorded
  <2>1. 1 \in 1..Len(rest)
    BY <1>1 DEF rest
  <2>2. rest[1][1] = x[1] /\ rest[1][2] = x[2] + 1
    BY <1>6, <2>1
  <2>3. history[x[1]][i] \in Keys
    BY <1>4, <1>11, <2>2
  <2>4. history[x[1]][i][2] <= x[2]
    BY <1>4, <2>2, <2>3, KeyParts
  <2> QED BY <1>12, <2>2, <2>4
<1> QED BY <1>9, <1>10, <1>13, <1>14 DEF Order

LEMMA NextOrders == OInv /\ [Next]_vars => Order'
<1> SUFFICES ASSUME OInv, [Next]_vars PROVE Order'
  OBVIOUS
<1>1. CASE \E s \in Histories : CacheUpdate(s)
  BY <1>1, CacheUpdateOrders
<1>2. CASE NewDetection
  BY <1>2, NewDetectionOrders
<1>3. CASE StatusChanges
  BY <1>3, OrderUntouched DEF StatusChanges, OInv
<1>4. CASE CollectRuntime
  BY <1>4, CollectRuntimeOrders
<1>5. CASE CollectDetection
  BY <1>5, CollectDetectionOrders
<1>6. CASE ReadHistory("game", "recommendation")
  BY <1>6, ReadHistoryOrders DEF Histories
<1>7. CASE ReadHistory("recommendation", "runtime")
  BY <1>7, ReadHistoryOrders DEF Histories
<1>8. CASE AddNext
  BY <1>8, AddNextOrders
<1>9. CASE UNCHANGED vars
  BY <1>9, OrderUntouched DEF vars, sources, OInv
<1> QED BY <1>1, <1>2, <1>3, <1>4, <1>5, <1>6, <1>7, <1>8, <1>9 DEF Next

\* /analytics lists the events of one source newest first, for every capacity
\* of the caches and of the store and however many events arrive while a
\* collection reads them, as long as none was recorded twice.
THEOREM Newest == Spec => []NewestFirst
<1>1. Init => OInv
  BY InitIInv, InitOrder DEF OInv
<1>2. OInv /\ [Next]_vars => OInv'
  BY NextKeeps, NextOrders DEF OInv
<1>3. OInv => NewestFirst
  BY DEF OInv, Order
<1> QED BY <1>1, <1>2, <1>3, PTL DEF Spec
=============================================================================
