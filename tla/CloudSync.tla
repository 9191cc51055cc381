----------------------------- MODULE CloudSync -----------------------------
(***************************************************************************)
(* CloudSyncService: threads of the dashboard that keep the machine's row   *)
(* in Supabase up to date, read it back or validate the schema, through one *)
(* client that a failure disconnects and a back-off keeps disconnected.     *)
(* Everything but the validation's query runs under the service's lock,     *)
(* remote calls included.  A remote call that fails may have taken effect,  *)
(* but takes none once it has returned.                                     *)
(*                                                                          *)
(* Statuses are numbered in the order the service accepts them; 0 is the    *)
(* "unknown" status, all that a heartbeat knows before the first one.       *)
(***************************************************************************)
EXTENDS Naturals

CONSTANTS
  Threads,
  Nobody,      \* holds no lock
  Absent,      \* the table has no row for the machine
  RetryTicks,  \* retry_seconds
  MaxStatus    \* bound on the statuses accepted

ASSUME RetryAssumption == RetryTicks \in Nat
ASSUME StatusAssumption == MaxStatus \in Nat /\ Absent \notin Nat
ASSUME NobodyAssumption == Nobody \notin Threads

Operations == {"update", "fetch", "validate"}

\* Where a thread is in its operation.
Steps == {"idle", "connect", "update", "insert", "fetch", "query", "disconnect", "back_off"}

VARIABLES
  step,        \* [Threads -> Steps]
  operation,   \* the operation each thread performs, or "none"
  sending,     \* the status each thread sends, or 0
  lock,        \* owner of CloudSyncService._lock
  connected,   \* SupabaseClient holds a client
  retryIn,     \* ticks until _retry_after
  lastStatus,  \* _last_status
  row,         \* the machine's row in the table
  healthy,     \* CloudHealthState.connected
  disturbed    \* history: a validation overlapped another operation, and
               \* nothing has brought client and health together since

threads == << step, operation, sending >>
cloud == << connected, retryIn, healthy, disturbed >>
vars == << threads, lock, cloud, lastStatus, row >>

Init ==
  /\ step = [t \in Threads |-> "idle"]
  /\ operation = [t \in Threads |-> "none"]
  /\ sending = [t \in Threads |-> 0]
  /\ lock = Nobody
  /\ connected = FALSE /\ retryIn = 0 /\ healthy = FALSE
  /\ disturbed = FALSE
  /\ lastStatus = 0
  /\ row \in {Absent, 0}

-----------------------------------------------------------------------------
Unlocked == {"query", "disconnect", "back_off"}
Validating == \E t \in Threads : step[t] \in Unlocked

GoesOn(t, s) == step' = [step EXCEPT ![t] = s] /\ UNCHANGED << operation, sending, lock >>

Returns(t) ==
  /\ step' = [step EXCEPT ![t] = "idle"]
  /\ operation' = [operation EXCEPT ![t] = "none"]
  /\ sending' = [sending EXCEPT ![t] = 0]
  /\ lock' = IF lock = t THEN Nobody ELSE lock

Begins(t, op, status) ==
  /\ lock = Nobody /\ lock' = t
  /\ step' = [step EXCEPT ![t] = "connect"]
  /\ operation' = [operation EXCEPT ![t] = op]
  /\ sending' = [sending EXCEPT ![t] = status]
  /\ disturbed' = (disturbed \/ Validating)
  /\ UNCHANGED << connected, retryIn, healthy, row >>

Idle(t) == operation[t] = "none"

\* sync_game_status.
SyncGameStatus(t) ==
  /\ Idle(t)
  /\ lastStatus < MaxStatus
  /\ lastStatus' = lastStatus + 1
  /\ Begins(t, "update", lastStatus + 1)

\* Faulty variant: the last status is read before the lock is taken.
SendAgainUnlocked(t) ==
  \/ /\ Idle(t)
     /\ operation' = [operation EXCEPT ![t] = "update"]
     /\ sending' = [sending EXCEPT ![t] = lastStatus]
     /\ UNCHANGED << step, lock, cloud, lastStatus, row >>
  \/ /\ operation[t] = "update" /\ step[t] = "idle"
     /\ Begins(t, "update", sending[t])
     /\ lastStatus' = sending[t]

\* heartbeat and sync_online_state: the last status once more.
SendAgain(t) ==
  /\ Idle(t)
  /\ Begins(t, "update", lastStatus)
  /\ UNCHANGED lastStatus

FetchOrValidate(t) ==
  /\ Idle(t)
  /\ \E op \in {"fetch", "validate"} : Begins(t, op, 0)
  /\ UNCHANGED lastStatus

-----------------------------------------------------------------------------
\* Faulty variant: the client is kept.
FailsConnected ==
  /\ retryIn' = RetryTicks
  /\ healthy' = FALSE
  /\ disturbed' = (disturbed /\ Validating)
  /\ UNCHANGED connected

\* _schedule_retry, with the client disconnected.
Fails ==
  /\ connected' = FALSE
  /\ retryIn' = RetryTicks
  /\ healthy' = FALSE
  /\ disturbed' = (disturbed /\ Validating)

\* CloudSyncService.connect.  The validation leaves the lock with it.
Connected(t) ==
  IF operation[t] # "validate" THEN GoesOn(t, operation[t])
  ELSE /\ step' = [step EXCEPT ![t] = "query"]
       /\ lock' = Nobody
       /\ UNCHANGED << operation, sending >>

Connect(t) ==
  /\ step[t] = "connect"
  /\ \/ connected /\ Connected(t) /\ UNCHANGED cloud
     \/ ~connected /\ retryIn > 0 /\ Returns(t) /\ UNCHANGED cloud
     \/ /\ ~connected /\ retryIn = 0
        /\ connected' = TRUE /\ healthy' = TRUE
        /\ disturbed' = (disturbed /\ Validating)
        /\ Connected(t)
        /\ UNCHANGED retryIn
     \/ ~connected /\ retryIn = 0 /\ Fails /\ Returns(t)
  /\ UNCHANGED << lastStatus, row >>

SyncSucceeds(t) ==
  /\ retryIn' = 0
  /\ healthy' = TRUE
  /\ UNCHANGED << connected, disturbed >>
  /\ Returns(t)

\* update_machine_status: the row is updated, or inserted if there is none.  The
\* call goes through the client it found: a validation that disconnects the
\* service meanwhile may let it succeed or not.
Update(t) ==
  /\ step[t] = "update"
  /\ \/ row # Absent /\ row' = sending[t] /\ SyncSucceeds(t)
     \/ row = Absent /\ GoesOn(t, "insert") /\ UNCHANGED << cloud, row >>
     \/ /\ row' \in IF row = Absent THEN {row} ELSE {row, sending[t]}
        /\ Fails /\ Returns(t)
  /\ UNCHANGED lastStatus

Insert(t) ==
  /\ step[t] = "insert"
  /\ \/ row' = sending[t] /\ SyncSucceeds(t)
     \/ row' \in {row, sending[t]} /\ Fails /\ Returns(t)
  /\ UNCHANGED lastStatus

\* fetch_machine_status: a missing row is a success of the connection.
Fetch(t) ==
  /\ step[t] = "fetch"
  /\ \/ healthy' = TRUE /\ UNCHANGED << connected, retryIn, disturbed >>
     \/ Fails
  /\ Returns(t)
  /\ UNCHANGED << lastStatus, row >>

-----------------------------------------------------------------------------
\* validate_schema, without the lock: the query through the client as it was
\* when the call was made, and what its failure does to the client as it is now.
Query(t) ==
  /\ step[t] = "query"
  /\ \/ healthy' = TRUE /\ Returns(t)
     \/ GoesOn(t, "disconnect") /\ UNCHANGED healthy
  /\ UNCHANGED << connected, retryIn, disturbed, lastStatus, row >>

Disconnect(t) ==
  /\ step[t] = "disconnect"
  /\ connected' = FALSE
  /\ GoesOn(t, "back_off")
  /\ UNCHANGED << retryIn, healthy, disturbed, lastStatus, row >>

BackOff(t) ==
  /\ step[t] = "back_off"
  /\ retryIn' = RetryTicks
  /\ healthy' = FALSE
  /\ Returns(t)
  /\ UNCHANGED << connected, disturbed, lastStatus, row >>

Tick ==
  /\ retryIn > 0
  /\ retryIn' = retryIn - 1
  /\ UNCHANGED << threads, lock, connected, healthy, disturbed, lastStatus, row >>

Next ==
  \/ Tick
  \/ \E t \in Threads :
       \/ SyncGameStatus(t)
       \/ SendAgain(t)
       \/ FetchOrValidate(t)
       \/ Connect(t)
       \/ Update(t)
       \/ Insert(t)
       \/ Fetch(t)
       \/ Query(t)
       \/ Disconnect(t)
       \/ BackOff(t)

Spec == Init /\ [][Next]_vars

-----------------------------------------------------------------------------
ThreadsOK ==
  /\ step \in [Threads -> Steps]
  /\ operation \in [Threads -> Operations \cup {"none"}]
  /\ sending \in [Threads -> 0..MaxStatus]
  /\ lock \in Threads \cup {Nobody}

FlagsOK == connected \in BOOLEAN /\ healthy \in BOOLEAN /\ disturbed \in BOOLEAN

StatusOK ==
  /\ retryIn \in 0..RetryTicks
  /\ lastStatus \in 0..MaxStatus
  /\ row \in (0..MaxStatus) \cup {Absent}

TypeOK == ThreadsOK /\ FlagsOK /\ StatusOK

\* What the health page shows is what the client is, whenever no thread is in
\* the middle of something, unless a validation has run beside another
\* operation: then until the next attempt or failure.
HealthIsHonest ==
  /\ TypeOK
  /\ (lock = Nobody /\ ~Validating /\ ~disturbed) => healthy = connected

\* Heartbeats, retries and half-failed calls never put an older status back
\* into the machine's row.
RowNeverGoesBack ==
  [][row # Absent => row' # Absent /\ row' >= row]_vars

\* The same without regard to validations: "connected" is shown only for a
\* client that is there.
HealthIsAlwaysHonest ==
  (lock = Nobody /\ ~Validating) => healthy = connected
=============================================================================
