-------------------------- MODULE CloudSyncProofs --------------------------
(***************************************************************************)
(* Proofs about CloudSync, for every set of threads, back-off and number of *)
(* statuses: the health page is honest, and the machine's row never goes    *)
(* back.                                                                    *)
(***************************************************************************)
EXTENDS CloudSync, TLAPS

Locked == {"connect", "update", "insert", "fetch"}

\* Exactly the owner of the lock is inside it, with an operation that fits.
LockInv ==
  \A t \in Threads :
    /\ (step[t] \in Locked) <=> (lock = t)
    /\ (step[t] = "idle") <=> (operation[t] = "none")
    /\ step[t] \in {"update", "insert"} => operation[t] = "update"
    /\ step[t] \in Unlocked => operation[t] = "validate"

\* A validation that shares the client with anything else is remembered.
SharedInv ==
  \A t \in Threads : step[t] \in Unlocked =>
    /\ lock # Nobody => disturbed
    /\ \A u \in Threads : step[u] \in Unlocked /\ u # t => disturbed

\* As long as none did, the client is what each thread takes it for.
ClientInv ==
  ~disturbed =>
    /\ \A t \in Threads :
         /\ step[t] \in {"update", "insert", "fetch", "query"} => connected
         /\ step[t] = "back_off" => ~connected
    /\ (\A t \in Threads : step[t] # "back_off") => healthy = connected

\* What is sent is the newest status, and the row is no newer than that.
StatusInv ==
  /\ \A t \in Threads : operation[t] = "update" => sending[t] = lastStatus
  /\ row # Absent => row <= lastStatus

IInv == TypeOK /\ LockInv /\ SharedInv /\ ClientInv /\ StatusInv

-----------------------------------------------------------------------------
LEMMA InitHolds == Init => IInv
<1> SUFFICES ASSUME Init PROVE IInv
  OBVIOUS
<1> USE RetryAssumption, StatusAssumption, NobodyAssumption DEF Init
<1>1. ThreadsOK
  BY DEF ThreadsOK, Steps, Operations
<1>2. FlagsOK
  BY DEF FlagsOK
<1>3. StatusOK
  BY DEF StatusOK
<1>4. LockInv
  BY DEF LockInv, Locked, Unlocked
<1>5. SharedInv
  BY DEF SharedInv, Unlocked
<1>6. ClientInv
  BY DEF ClientInv
<1>7. StatusInv
  BY DEF StatusInv
<1> QED BY <1>1, <1>2, <1>3, <1>4, <1>5, <1>6, <1>7 DEF IInv, TypeOK

-----------------------------------------------------------------------------
(***************************************************************************)
(* Types.                                                                   *)
(***************************************************************************)
\* Each action keeps the types of the threads' variables ...
LEMMA ThreadsStep == TypeOK /\ LockInv /\ Next => ThreadsOK'
<1> SUFFICES ASSUME TypeOK, LockInv, Next PROVE ThreadsOK'
  OBVIOUS
<1> USE StatusAssumption DEF TypeOK, ThreadsOK, StatusOK, Steps, Operations
<1>a. ASSUME NEW t \in Threads, Returns(t) PROVE ThreadsOK'
  BY <1>a DEF Returns
<1>b. ASSUME NEW t \in Threads, NEW s \in Steps, GoesOn(t, s) PROVE ThreadsOK'
  BY <1>b DEF GoesOn
<1>c. ASSUME NEW t \in Threads, NEW op \in Operations, NEW n \in 0..MaxStatus,
             Begins(t, op, n)
      PROVE  ThreadsOK'
  BY <1>c DEF Begins
<1>1. CASE Tick
  BY <1>1 DEF Tick, threads
<1>2. ASSUME NEW t \in Threads, SyncGameStatus(t) PROVE ThreadsOK'
  <2>1. lastStatus + 1 \in 0..MaxStatus
    BY <1>2 DEF SyncGameStatus
  <2> QED BY <1>2, <1>c, <2>1 DEF SyncGameStatus
<1>3. ASSUME NEW t \in Threads, SendAgain(t) PROVE ThreadsOK'
  BY <1>3, <1>c DEF SendAgain
<1>4. ASSUME NEW t \in Threads, FetchOrValidate(t) PROVE ThreadsOK'
  BY <1>4, <1>c DEF FetchOrValidate
<1>5. ASSUME NEW t \in Threads, Connect(t) PROVE ThreadsOK'
  <2>1. operation[t] \in Operations
    BY <1>5 DEF Connect, LockInv
  <2>2. ASSUME Connected(t) PROVE ThreadsOK'
    <3>1. CASE operation[t] = "validate"
      BY <2>2, <3>1 DEF Connected
    <3>2. CASE operation[t] # "validate"
      BY <2>1, <2>2, <3>2, <1>b DEF Connected
    <3> QED BY <3>1, <3>2
  <2> QED BY <1>5, <1>a, <2>2 DEF Connect
<1>6. ASSUME NEW t \in Threads, Update(t) PROVE ThreadsOK'
  BY <1>6, <1>a, <1>b DEF Update, SyncSucceeds
<1>7. ASSUME NEW t \in Threads, Insert(t) PROVE ThreadsOK'
  BY <1>7, <1>a DEF Insert, SyncSucceeds
<1>8. ASSUME NEW t \in Threads, Fetch(t) PROVE ThreadsOK'
  BY <1>8, <1>a DEF Fetch
<1>9. ASSUME NEW t \in Threads, Query(t) PROVE ThreadsOK'
  BY <1>9, <1>a, <1>b DEF Query
<1>10. ASSUME NEW t \in Threads, Disconnect(t) PROVE ThreadsOK'
  BY <1>10, <1>b DEF Disconnect
<1>11. ASSUME NEW t \in Threads, BackOff(t) PROVE ThreadsOK'
  BY <1>11, <1>a DEF BackOff
<1> QED
  BY <1>1, <1>2, <1>3, <1>4, <1>5, <1>6, <1>7, <1>8, <1>9, <1>10, <1>11 DEF Next

\* ... of the client and the health ...
LEMMA FlagsStep == TypeOK /\ Next => FlagsOK'
<1> SUFFICES ASSUME FlagsOK, Next PROVE FlagsOK'
  BY DEF TypeOK
<1> USE DEF FlagsOK
<1>a. ASSUME Fails PROVE FlagsOK'
  BY <1>a DEF Fails
<1>b. ASSUME NEW t \in Threads, SyncSucceeds(t) PROVE FlagsOK'
  BY <1>b DEF SyncSucceeds
<1>c. ASSUME NEW t, NEW op, NEW n, Begins(t, op, n) PROVE FlagsOK'
  BY <1>c DEF Begins
<1>1. CASE Tick
  BY <1>1 DEF Tick
<1>2. ASSUME NEW t \in Threads, SyncGameStatus(t) \/ SendAgain(t) \/ FetchOrValidate(t)
      PROVE  FlagsOK'
  BY <1>2, <1>c DEF SyncGameStatus, SendAgain, FetchOrValidate
<1>3. ASSUME NEW t \in Threads, Connect(t) PROVE FlagsOK'
  BY <1>3, <1>a DEF Connect, cloud
<1>4. ASSUME NEW t \in Threads, Update(t) \/ Insert(t) \/ Fetch(t) PROVE FlagsOK'
  BY <1>4, <1>a, <1>b DEF Update, Insert, Fetch, cloud
<1>5. ASSUME NEW t \in Threads, Query(t) \/ Disconnect(t) \/ BackOff(t) PROVE FlagsOK'
  BY <1>5 DEF Query, Disconnect, BackOff
<1> QED BY <1>1, <1>2, <1>3, <1>4, <1>5 DEF Next

\* ... and of the statuses.
LEMMA StatusStep == TypeOK /\ Next => StatusOK'
<1> SUFFICES ASSUME TypeOK, Next PROVE StatusOK'
  OBVIOUS
<1> USE RetryAssumption, StatusAssumption DEF TypeOK, ThreadsOK, StatusOK
<1>1. CASE Tick
  BY <1>1 DEF Tick
<1>2. ASSUME NEW t \in Threads, SyncGameStatus(t) \/ SendAgain(t) \/ FetchOrValidate(t)
      PROVE  StatusOK'
  BY <1>2 DEF SyncGameStatus, SendAgain, FetchOrValidate, Begins
<1>3. ASSUME NEW t \in Threads, Connect(t) PROVE StatusOK'
  BY <1>3 DEF Connect, cloud, Fails
<1>4. ASSUME NEW t \in Threads, Update(t) PROVE StatusOK'
  BY <1>4 DEF Update, SyncSucceeds, Fails, cloud
<1>5. ASSUME NEW t \in Threads, Insert(t) \/ Fetch(t) PROVE StatusOK'
  BY <1>5 DEF Insert, Fetch, SyncSucceeds, Fails
<1>6. ASSUME NEW t \in Threads, Query(t) \/ Disconnect(t) \/ BackOff(t) PROVE StatusOK'
  BY <1>6 DEF Query, Disconnect, BackOff
<1> QED BY <1>1, <1>2, <1>3, <1>4, <1>5, <1>6 DEF Next

-----------------------------------------------------------------------------
(***************************************************************************)
(* The parts of the invariant.                                              *)
(***************************************************************************)
\* The lock is taken and released where the steps say so.
LEMMA LockStep == TypeOK /\ LockInv /\ Next => LockInv'
<1> SUFFICES ASSUME TypeOK, LockInv, Next PROVE LockInv'
  OBVIOUS
<1> USE NobodyAssumption DEF TypeOK, ThreadsOK, LockInv, Locked, Unlocked
<1>a. ASSUME NEW t \in Threads, Returns(t) PROVE LockInv'
  BY <1>a DEF Returns
<1>b. ASSUME NEW t \in Threads, NEW op \in Operations, NEW n, Idle(t), Begins(t, op, n)
      PROVE  LockInv'
  BY <1>b DEF Begins, Idle, Operations
<1>1. CASE Tick
  BY <1>1 DEF Tick, threads
<1>2. ASSUME NEW t \in Threads, SyncGameStatus(t) \/ SendAgain(t) \/ FetchOrValidate(t)
      PROVE  LockInv'
  BY <1>2, <1>b DEF SyncGameStatus, SendAgain, FetchOrValidate, Operations
<1>3. ASSUME NEW t \in Threads, Connect(t) PROVE LockInv'
  <2>1. step[t] = "connect" /\ operation[t] \in Operations
    BY <1>3 DEF Connect, Operations
  <2>2. ASSUME Connected(t) PROVE LockInv'
    <3>1. CASE operation[t] = "validate"
      BY <2>1, <2>2, <3>1 DEF Connected
    <3>2. CASE operation[t] # "validate"
      BY <2>1, <2>2, <3>2 DEF Connected, GoesOn, Operations
    <3> QED BY <3>1, <3>2
  <2> QED BY <1>3, <1>a, <2>2 DEF Connect
<1>4. ASSUME NEW t \in Threads, Update(t) PROVE LockInv'
  BY <1>4, <1>a DEF Update, SyncSucceeds, GoesOn
<1>5. ASSUME NEW t \in Threads, Insert(t) \/ Fetch(t) PROVE LockInv'
  BY <1>5, <1>a DEF Insert, Fetch, SyncSucceeds
<1>6. ASSUME NEW t \in Threads, Query(t) \/ Disconnect(t) PROVE LockInv'
  BY <1>6, <1>a DEF Query, Disconnect, GoesOn
<1>7. ASSUME NEW t \in Threads, BackOff(t) PROVE LockInv'
  BY <1>7, <1>a DEF BackOff
<1> QED BY <1>1, <1>2, <1>3, <1>4, <1>5, <1>6, <1>7 DEF Next

\* A thread that leaves "query", "disconnect" or "back_off" leaves the others alone.
LEMMA SharedStep == TypeOK /\ LockInv /\ SharedInv /\ Next => SharedInv'
<1> SUFFICES ASSUME TypeOK, LockInv, SharedInv, Next PROVE SharedInv'
  OBVIOUS
<1> USE NobodyAssumption
    DEF TypeOK, ThreadsOK, FlagsOK, LockInv, SharedInv, Locked, Unlocked, Validating
<1>1. CASE Tick
  BY <1>1 DEF Tick, threads
<1>2. ASSUME NEW t \in Threads, SyncGameStatus(t) \/ SendAgain(t) \/ FetchOrValidate(t)
      PROVE  SharedInv'
  BY <1>2 DEF SyncGameStatus, SendAgain, FetchOrValidate, Begins
<1>a. ASSUME NEW t \in Threads, step[t] \in Locked, Returns(t),
             disturbed' = (disturbed /\ Validating) \/ disturbed' = disturbed
      PROVE  SharedInv'
  BY <1>a DEF Returns
<1>3. ASSUME NEW t \in Threads, Connect(t) PROVE SharedInv'
  <2>1. step[t] = "connect" /\ lock = t /\ operation[t] \in Operations
    BY <1>3 DEF Connect, Operations
  <2>2. \/ disturbed' = (disturbed /\ Validating)
        \/ disturbed' = disturbed
    BY <1>3 DEF Connect, Fails, cloud
  <2>3. ASSUME Connected(t) PROVE SharedInv'
    <3>1. CASE operation[t] = "validate"
      BY <2>1, <2>2, <2>3, <3>1 DEF Connected
    <3>2. CASE operation[t] # "validate"
      BY <2>1, <2>2, <2>3, <3>2 DEF Connected, GoesOn, Operations
    <3> QED BY <3>1, <3>2
  <2> QED BY <1>3, <1>a, <2>1, <2>2, <2>3 DEF Connect
<1>4. ASSUME NEW t \in Threads, Update(t) PROVE SharedInv'
  <2>1. CASE Returns(t)
    BY <1>4, <1>a, <2>1 DEF Update, SyncSucceeds, Fails, cloud
  <2>2. CASE GoesOn(t, "insert") /\ UNCHANGED cloud
    BY <1>4, <2>2 DEF Update, GoesOn, cloud
  <2> QED BY <1>4, <2>1, <2>2 DEF Update, SyncSucceeds
<1>5. ASSUME NEW t \in Threads, Insert(t) \/ Fetch(t) PROVE SharedInv'
  BY <1>5, <1>a DEF Insert, Fetch, SyncSucceeds, Fails
<1>6. ASSUME NEW t \in Threads, Query(t) \/ Disconnect(t) \/ BackOff(t)
      PROVE  SharedInv'
  BY <1>6 DEF Query, Disconnect, BackOff, Returns, GoesOn
<1> QED BY <1>1, <1>2, <1>3, <1>4, <1>5, <1>6 DEF Next

\* The owner of the lock is alone, or its company is remembered.
LEMMA OwnerIsAlone ==
  ASSUME TypeOK, LockInv, SharedInv, NEW t \in Threads, step[t] \in Locked,
         ~disturbed',
         disturbed' = disturbed \/ disturbed' = (disturbed /\ Validating)
  PROVE  \A u \in Threads : u # t => step[u] = "idle"
<1>1. lock = t /\ t # Nobody
  BY NobodyAssumption DEF LockInv
<1>2. ~Validating
  <2>1. Validating => disturbed
    BY <1>1 DEF SharedInv, Validating
  <2>2. CASE disturbed' = disturbed
    BY <2>1, <2>2
  <2>3. CASE disturbed' = (disturbed /\ Validating)
    BY <2>1, <2>3
  <2> QED BY <2>2, <2>3
<1> QED BY <1>1, <1>2 DEF LockInv, Validating, TypeOK, ThreadsOK, Steps, Locked, Unlocked

\* Only a thread on its own changes the client.
LEMMA ClientStep == TypeOK /\ LockInv /\ SharedInv /\ ClientInv /\ Next => ClientInv'
<1> SUFFICES ASSUME TypeOK, LockInv, SharedInv, ClientInv, Next PROVE ClientInv'
  OBVIOUS
<1> USE NobodyAssumption
    DEF TypeOK, ThreadsOK, FlagsOK, LockInv, SharedInv, ClientInv, Locked, Unlocked,
        Validating
<1>1. CASE Tick
  BY <1>1 DEF Tick, threads
<1>2. ASSUME NEW t \in Threads, SyncGameStatus(t) \/ SendAgain(t) \/ FetchOrValidate(t)
      PROVE  ClientInv'
  BY <1>2 DEF SyncGameStatus, SendAgain, FetchOrValidate, Begins
<1>a. ASSUME NEW t \in Threads, step[t] \in Locked, Returns(t),
             \/ Fails
             \/ UNCHANGED cloud
             \/ UNCHANGED << connected, disturbed >> /\ healthy' = TRUE /\ step[t] # "connect"
      PROVE  ClientInv'
  <2> SUFFICES ASSUME ~disturbed' PROVE ClientInv'
    OBVIOUS
  <2>1. \A u \in Threads : u # t => step[u] = "idle"
    BY <1>a, OwnerIsAlone DEF Fails, cloud
  <2>2. \A u \in Threads : step'[u] = "idle"
    BY <1>a, <2>1 DEF Returns
  <2>3. CASE Fails
    BY <2>2, <2>3 DEF Fails
  <2>4. CASE UNCHANGED cloud
    BY <1>a, <2>1, <2>2, <2>4 DEF cloud
  <2>5. CASE UNCHANGED << connected, disturbed >> /\ healthy' = TRUE /\ step[t] # "connect"
    <3>1. connected
      BY <1>a, <2>5
    <3> QED BY <2>2, <2>5, <3>1
  <2> QED BY <1>a, <2>3, <2>4, <2>5
<1>3. ASSUME NEW t \in Threads, Connect(t) PROVE ClientInv'
  <2>1. step[t] = "connect" /\ lock = t /\ operation[t] \in Operations
    BY <1>3 DEF Connect, Operations
  <2>2. ASSUME Connected(t),
               \/ connected /\ UNCHANGED cloud
               \/ connected' = TRUE /\ healthy' = TRUE /\ disturbed' = (disturbed /\ Validating)
        PROVE  ClientInv'
    <3> SUFFICES ASSUME ~disturbed' PROVE ClientInv'
      OBVIOUS
    <3>1. \A u \in Threads : u # t => step[u] = "idle"
      BY <2>1, <2>2, OwnerIsAlone DEF cloud
    <3>2. \A u \in Threads : step'[u] \in {"idle", "query", "update", "fetch"}
      BY <2>1, <2>2, <3>1 DEF Connected, GoesOn, Operations
    <3>3. connected' = TRUE /\ healthy' = TRUE
      BY <2>1, <2>2, <3>1 DEF cloud
    <3> QED BY <3>2, <3>3
  <2> QED BY <1>3, <1>a, <2>1, <2>2 DEF Connect
<1>4. ASSUME NEW t \in Threads, Update(t) PROVE ClientInv'
  <2>1. CASE Returns(t) /\ Fails
    BY <1>4, <1>a, <2>1 DEF Update
  <2>2. CASE SyncSucceeds(t)
    BY <1>4, <1>a, <2>2 DEF Update, SyncSucceeds
  <2>3. CASE GoesOn(t, "insert") /\ UNCHANGED cloud
    BY <1>4, <2>3 DEF Update, GoesOn, cloud
  <2> QED BY <1>4, <2>1, <2>2, <2>3 DEF Update
<1>5. ASSUME NEW t \in Threads, Insert(t) \/ Fetch(t) PROVE ClientInv'
  BY <1>5, <1>a DEF Insert, Fetch, SyncSucceeds
<1>6. ASSUME NEW t \in Threads, Query(t) PROVE ClientInv'
  <2> SUFFICES ASSUME ~disturbed' PROVE ClientInv'
    OBVIOUS
  <2>1. step[t] = "query" /\ connected /\ ~disturbed /\ connected' = connected
    BY <1>6 DEF Query
  <2>2. \A u \in Threads : step[u] \in Unlocked => u = t
    BY <2>1
  <2>3. CASE healthy' = TRUE /\ Returns(t)
    BY <2>1, <2>2, <2>3 DEF Returns
  <2>4. CASE GoesOn(t, "disconnect") /\ UNCHANGED healthy
    <3>1. \A u \in Threads : step[u] # "back_off"
      BY <2>1, <2>2
    <3>2. healthy = connected
      BY <2>1, <3>1
    <3> QED BY <2>1, <2>2, <2>4, <3>2 DEF GoesOn
  <2> QED BY <1>6, <2>3, <2>4 DEF Query
<1>7. ASSUME NEW t \in Threads, Disconnect(t) PROVE ClientInv'
  BY <1>7 DEF Disconnect, GoesOn
<1>8. ASSUME NEW t \in Threads, BackOff(t) PROVE ClientInv'
  BY <1>8 DEF BackOff, Returns
<1> QED BY <1>1, <1>2, <1>3, <1>4, <1>5, <1>6, <1>7, <1>8 DEF Next

\* Statuses are accepted and sent in one order, that of the lock.
LEMMA StatusInvStep == TypeOK /\ LockInv /\ StatusInv /\ Next => StatusInv'
<1> SUFFICES ASSUME TypeOK, LockInv, StatusInv, Next PROVE StatusInv'
  OBVIOUS
<1> USE StatusAssumption, NobodyAssumption
    DEF TypeOK, ThreadsOK, StatusOK, LockInv, StatusInv, Locked, Unlocked
<1>a. ASSUME NEW t \in Threads, Returns(t), UNCHANGED << lastStatus, row >>
      PROVE  StatusInv'
  BY <1>a DEF Returns
<1>b. ASSUME NEW t \in Threads, Returns(t), UNCHANGED lastStatus, row' = sending[t],
             operation[t] = "update"
      PROVE  StatusInv'
  BY <1>b DEF Returns
<1>1. CASE Tick
  BY <1>1 DEF Tick, threads
<1>2. ASSUME NEW t \in Threads, SyncGameStatus(t) \/ SendAgain(t) \/ FetchOrValidate(t)
      PROVE  StatusInv'
  <2>1. lock = Nobody /\ \A u \in Threads : operation[u] # "update"
    BY <1>2 DEF SyncGameStatus, SendAgain, FetchOrValidate, Begins, Steps, Operations
  <2> QED BY <1>2, <2>1 DEF SyncGameStatus, SendAgain, FetchOrValidate, Begins
<1>3. ASSUME NEW t \in Threads, Connect(t) PROVE StatusInv'
  BY <1>3, <1>a DEF Connect, Connected, GoesOn
<1>4. ASSUME NEW t \in Threads, Update(t) \/ Insert(t) PROVE StatusInv'
  BY <1>4, <1>a, <1>b DEF Update, Insert, SyncSucceeds, GoesOn
<1>5. ASSUME NEW t \in Threads, Fetch(t) PROVE StatusInv'
  BY <1>5, <1>a DEF Fetch
<1>6. ASSUME NEW t \in Threads, Query(t) \/ Disconnect(t) \/ BackOff(t)
      PROVE  StatusInv'
  BY <1>6, <1>a DEF Query, Disconnect, BackOff, GoesOn
<1> QED BY <1>1, <1>2, <1>3, <1>4, <1>5, <1>6 DEF Next

LEMMA InductiveStep == IInv /\ [Next]_vars => IInv'
<1> SUFFICES ASSUME IInv, [Next]_vars PROVE IInv'
  OBVIOUS
<1>1. CASE Next
  BY <1>1, ThreadsStep, FlagsStep, StatusStep, LockStep, SharedStep, ClientStep, StatusInvStep
     DEF IInv, TypeOK
<1>2. CASE UNCHANGED vars
  BY <1>2
     DEF vars, threads, cloud, IInv, TypeOK, ThreadsOK, FlagsOK, StatusOK, LockInv, SharedInv,
         ClientInv, StatusInv
<1> QED BY <1>1, <1>2

-----------------------------------------------------------------------------
(***************************************************************************)
(* Theorems.                                                                *)
(***************************************************************************)
\* The inductive invariant: who has the lock, what each thread may believe of the
\* client, and what it sends.
THEOREM Inductive == Spec => []IInv
BY InitHolds, InductiveStep, PTL DEF Spec

\* The health page agrees with the client (CloudHealthState.connected against
\* SupabaseClient.connected) whenever nothing is under way and no validation has
\* run beside another operation.
THEOREM HealthHonest == Spec => []HealthIsHonest
<1>1. IInv => HealthIsHonest
  <2> SUFFICES ASSUME IInv, lock = Nobody, ~Validating, ~disturbed PROVE healthy = connected
    BY DEF HealthIsHonest, IInv
  <2>1. \A t \in Threads : step[t] # "back_off"
    BY DEF Validating, Unlocked
  <2> QED BY <2>1 DEF IInv, ClientInv
<1> QED BY <1>1, Inductive, PTL

\* The row of the machine never returns to an older status: update_machine_status
\* holds the lock from accepting a status until the table has it.
THEOREM RowForward == Spec => RowNeverGoesBack
<1>1. IInv /\ [Next]_vars => [row # Absent => row' # Absent /\ row' >= row]_vars
  <2> SUFFICES ASSUME IInv, [Next]_vars, row # Absent PROVE row' # Absent /\ row' >= row
    OBVIOUS
  <2>1. row \in 0..MaxStatus /\ row <= lastStatus /\ lastStatus \in Nat
    BY StatusAssumption DEF IInv, TypeOK, StatusOK, StatusInv
  <2>2. \A t \in Threads : step[t] \in {"update", "insert"} => sending[t] = lastStatus
    BY DEF IInv, LockInv, StatusInv
  <2>3. row' = row \/ \E t \in Threads : step[t] \in {"update", "insert"} /\ row' = sending[t]
    <3>1. CASE UNCHANGED vars
      BY <3>1 DEF vars
    <3>2. CASE Next
      BY <3>2
         DEF Next, Tick, SyncGameStatus, SendAgain, FetchOrValidate, Begins, Connect, Update,
             Insert, Fetch, Query, Disconnect, BackOff
    <3> QED BY <3>1, <3>2
  <2>4. row' = row \/ row' = lastStatus
    BY <2>2, <2>3
  <2> QED BY <2>1, <2>4, StatusAssumption
<1> QED BY <1>1, Inductive, PTL DEF Spec, RowNeverGoesBack
=============================================================================
