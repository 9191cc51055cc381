----------------------------- MODULE Analytics -----------------------------
(***************************************************************************)
(* Read-only analytics.  Every request to /analytics lets AnalyticsService  *)
(* copy what it can see into a bounded AnalyticsStore: the runtime status   *)
(* when it has changed, the latest detection, and the recent events of the  *)
(* game-state and recommendation caches, which go on changing meanwhile.    *)
(* A dedupe key tells the store which events it has.                        *)
(*                                                                          *)
(* An event is its dedupe key, << source, number >>; the runtime events,    *)
(* which have none, are all NoKey.  The two deques of the store grow and    *)
(* shrink together, so one sequence of keys, newest first, stands for both. *)
(***************************************************************************)
EXTENDS Integers, Sequences

CONSTANTS
  NoKey,       \* the key of an event that is never deduplicated
  Statuses,    \* runtime statuses the service tells apart
  NoStatus,    \* no fingerprint yet
  MaxEvents,   \* capacity of the store
  MaxHistory,  \* capacity of each cache
  MaxMade      \* bound on the events a source makes

ASSUME CapacityAssumption ==
  /\ MaxEvents \in Nat \ {0}
  /\ MaxHistory \in Nat \ {0}
  /\ MaxMade \in Nat

Histories == {"game", "recommendation"}
Sources == Histories \cup {"vision"}
Keys == Sources \X Nat

ASSUME KeyAssumption == NoKey \notin Keys

VARIABLES
  made,         \* events each source has made so far
  history,      \* recent events of the two caches, newest first
  status,       \* RuntimeController.status()
  fingerprint,  \* _last_runtime_fingerprint
  stage,        \* what the collection that holds _collect_lock reads next
  pending,      \* the events it has read and not yet added, next one first
  store,        \* _event_dedupe_keys, newest first
  dedupeKeys,   \* _dedupe_keys
  recorded,     \* history: the keys ever added
  again         \* history: a key was added a second time

sources == << made, history, status >>
storeVars == << store, dedupeKeys, recorded, again >>
vars == << sources, fingerprint, stage, pending, storeVars >>

\* deque(maxlen=limit).appendleft(e)
AppendLeft(s, e, limit) ==
  [i \in 1..(IF Len(s) < limit THEN Len(s) + 1 ELSE limit) |->
     IF i = 1 THEN e ELSE s[i - 1]]

Reversed(s) == [i \in 1..Len(s) |-> s[Len(s) + 1 - i]]

\* Each cache starts with an initial event of its own.
Init ==
  /\ made = [s \in Sources |-> IF s = "vision" THEN 0 ELSE 1]
  /\ history = [s \in Histories |-> << <<s, 1>> >>]
  /\ status \in Statuses
  /\ fingerprint = NoStatus
  /\ stage = "runtime" /\ pending = << >>
  /\ store = << >> /\ dedupeKeys = {}
  /\ recorded = {} /\ again = FALSE

-----------------------------------------------------------------------------
(***************************************************************************)
(* The services it watches.                                                 *)
(***************************************************************************)
Made(s) ==
  /\ made[s] < MaxMade
  /\ made' = [made EXCEPT ![s] = made[s] + 1]
  /\ UNCHANGED << status, fingerprint, stage, pending, storeVars >>

CacheUpdate(s) ==
  /\ Made(s)
  /\ history' = [history EXCEPT ![s] = AppendLeft(@, << s, made[s] + 1 >>, MaxHistory)]

NewDetection == Made("vision") /\ UNCHANGED history

StatusChanges ==
  /\ status' \in Statuses \ {status}
  /\ UNCHANGED << made, history, fingerprint, stage, pending, storeVars >>

-----------------------------------------------------------------------------
(***************************************************************************)
(* AnalyticsStore.add.  A full store forgets the key of the event that is   *)
(* about to fall out of its right end.                                      *)
(***************************************************************************)
\* Faulty variant: the key is looked up once the event has been appended.
ForgottenAfterAppend ==
  IF Len(store) = MaxEvents /\ MaxEvents > 1 THEN {store[Len(store) - 1]} ELSE {}

Forgotten == IF Len(store) = MaxEvents THEN {store[Len(store)]} ELSE {}

Add(key) ==
  IF key # NoKey /\ key \in dedupeKeys
  THEN UNCHANGED storeVars
  ELSE /\ store' = AppendLeft(store, key, MaxEvents)
       /\ dedupeKeys' = (dedupeKeys \ Forgotten) \cup ({key} \ {NoKey})
       /\ recorded' = recorded \cup ({key} \ {NoKey})
       /\ again' = (again \/ key \in recorded)

-----------------------------------------------------------------------------
(***************************************************************************)
(* AnalyticsService.collect, one collection at a time.                      *)
(***************************************************************************)
CollectRuntime ==
  /\ stage = "runtime" /\ pending = << >>
  /\ fingerprint' = status
  /\ IF status = fingerprint THEN UNCHANGED storeVars ELSE Add(NoKey)
  /\ stage' = "vision"
  /\ UNCHANGED << sources, pending >>

CollectDetection ==
  /\ stage = "vision"
  /\ IF made["vision"] = 0 THEN UNCHANGED storeVars ELSE Add(<< "vision", made["vision"] >>)
  /\ stage' = "game"
  /\ UNCHANGED << sources, fingerprint, pending >>

\* Faulty variant: the events are added in the order the cache lists them.
ReadHistoryAsListed(s, next) ==
  /\ stage = s /\ pending = << >>
  /\ pending' = history[s]
  /\ stage' = next
  /\ UNCHANGED << sources, fingerprint, storeVars >>

ReadHistory(s, next) ==
  /\ stage = s /\ pending = << >>
  /\ pending' = Reversed(history[s])
  /\ stage' = next
  /\ UNCHANGED << sources, fingerprint, storeVars >>

AddNext ==
  /\ pending # << >>
  /\ Add(Head(pending))
  /\ pending' = Tail(pending)
  /\ UNCHANGED << sources, fingerprint, stage >>

Next ==
  \/ \E s \in Histories : CacheUpdate(s)
  \/ NewDetection
  \/ StatusChanges
  \/ CollectRuntime
  \/ CollectDetection
  \/ ReadHistory("game", "recommendation")
  \/ ReadHistory("recommendation", "runtime")
  \/ AddNext

Spec == Init /\ [][Next]_vars

-----------------------------------------------------------------------------
TypeOK ==
  /\ made \in [Sources -> Nat]
  /\ history \in [Histories -> Seq(Keys)]
  /\ status \in Statuses
  /\ fingerprint \in Statuses \cup {NoStatus}
  /\ stage \in {"runtime", "vision", "game", "recommendation"}
  /\ pending \in Seq(Keys)
  /\ store \in Seq(Keys \cup {NoKey})
  /\ dedupeKeys \in SUBSET Keys
  /\ recorded \in SUBSET Keys
  /\ again \in BOOLEAN

\* The store knows exactly the events it holds: no event is in it twice, none
\* it holds could be added again, and none that fell out is refused.
KeysMatchEvents ==
  /\ Len(store) <= MaxEvents
  /\ dedupeKeys = {store[i] : i \in DOMAIN store} \ {NoKey}
  /\ \A i, j \in DOMAIN store : i # j /\ store[i] = store[j] => store[i] = NoKey

\* /analytics lists the events of one source newest first, whatever the source
\* did while it was read, as long as no event came in a second time.
NewestFirst ==
  ~again =>
    \A i, j \in DOMAIN store :
      (i < j /\ NoKey \notin {store[i], store[j]} /\ store[i][1] = store[j][1])
        => store[i][2] > store[j][2]

\* "Repeated polls are deduplicated": no event is recorded a second time.
NeverAgain == ~again
=============================================================================
