------------------------ MODULE AdministrationProofs ------------------------
(***************************************************************************)
(* Proofs about Administration, for every number of helper processes,       *)
(* networks, polls and attempts: the last configuration that worked is kept *)
(* through every interleaving of the helpers with signals and power         *)
(* failures.                                                                *)
(*                                                                          *)
(* The argument: the flock makes the helper that is past it the only one    *)
(* that touches the files; from its back-up to the end of its restoration   *)
(* it knows the saved configuration, and outside that stretch the           *)
(* configuration in place is good unless a helper died before restoring.    *)
(***************************************************************************)
EXTENDS Administration, TLAPS

\* The helper owns the flock.
Working == Steps \ {"none", "lock"}

\* The configuration in place may be any: the good one is in the backup.
Unsettled == Changing \cup {"restore"}

LoginOK ==
  /\ attempts \in [Recent -> Nat]
  /\ sessionLeft \in 0..SessionTicks

DashboardOK ==
  /\ dashboardLock \in {"free", "wifi", "emergency"}
  /\ caller \in Helpers \cup {Nobody}
  /\ wifiWaits \in BOOLEAN /\ emergencyWaits \in BOOLEAN

HelpersOK ==
  /\ step \in [Helpers -> Steps]
  /\ target \in [Helpers -> Networks \cup {Nobody}]
  /\ original \in [Helpers -> Networks \cup {Nobody}]
  /\ polls \in [Helpers -> 0..MaxPolls]
  /\ operationLock \in Helpers \cup {Nobody}
  /\ \A h \in Helpers :
       /\ step[h] \in Working <=> operationLock = h
       /\ step[h] \notin {"none", "status"} => target[h] \in Networks

FilesOK ==
  /\ config \in Networks /\ lastGood \in Networks
  /\ backup \in Networks \cup {Nobody}
  /\ unproven \in BOOLEAN /\ overwritten \in BOOLEAN
  /\ ~overwritten => lastGood \in {config, backup}

\* What the files and the helper that owns the flock know of each other.
Settled == unproven \/ config = lastGood

HelperKnows(h) ==
  /\ step[h] = "back_up" => original[h] = config
  /\ step[h] \in Unsettled =>
       /\ original[h] = backup /\ original[h] \in Networks
       /\ unproven => overwritten
       /\ ~unproven => lastGood = original[h]
  /\ step[h] \in {"reconfigure", "poll"} => config = target[h]

FilesKnown ==
  /\ \A h \in Helpers : HelperKnows(h)
  /\ (\A h \in Helpers : step[h] \notin Unsettled) => Settled

IInv == LoginOK /\ DashboardOK /\ HelpersOK /\ FilesOK /\ FilesKnown

-----------------------------------------------------------------------------
LEMMA Limits ==
  /\ MaxAttempts \in Nat /\ MaxPolls \in Nat
  /\ WindowTicks \in Nat \ {0} /\ SessionTicks \in Nat
BY LimitsAssumption

LEMMA InitIInv == Init => IInv
<1> SUFFICES ASSUME Init PROVE IInv
  OBVIOUS
<1>1. LoginOK
  BY Limits DEF Init, LoginOK, NoAttempts
<1>1a. DashboardOK
  BY DEF Init, DashboardOK
<1>2. HelpersOK
  BY Limits, NobodyAssumption DEF Init, HelpersOK, Working, Steps
<1>3. FilesOK
  BY DEF Init, FilesOK
<1>4. FilesKnown
  <2>1. \A h \in Helpers : step[h] = "none"
    BY DEF Init
  <2>2. Settled
    BY DEF Init, Settled
  <2> QED BY <2>1, <2>2 DEF FilesKnown, HelperKnows, Unsettled, Changing
<1> QED BY <1>1, <1>1a, <1>2, <1>3, <1>4 DEF IInv

\* Only one helper is past the flock.
LEMMA OneWorks ==
  ASSUME HelpersOK, NEW h \in Helpers, step[h] \in Working
  PROVE  operationLock = h /\ \A g \in Helpers \ {h} : step[g] \in {"none", "lock"}
<1>1. operationLock = h
  BY DEF HelpersOK
<1>2. \A g \in Helpers \ {h} : step[g] \in Steps /\ step[g] \notin Working
  BY <1>1 DEF HelpersOK
<1> QED BY <1>1, <1>2 DEF Working

-----------------------------------------------------------------------------
(***************************************************************************)
(* Login and dashboard.                                                     *)
(***************************************************************************)
LEMMA TickKeeps == ASSUME LoginOK, Tick PROVE LoginOK'
<1>1. \A age \in Recent : age # 0 => age - 1 \in Recent
  BY Limits DEF Recent
<1>2. attempts' \in [Recent -> Nat]
  BY <1>1 DEF LoginOK, Tick
<1>3. sessionLeft' \in 0..SessionTicks
  BY Limits DEF LoginOK, Tick
<1> QED BY <1>2, <1>3 DEF LoginOK

LEMMA LoginKeeps == ASSUME LoginOK, Login PROVE LoginOK'
<1>1. CASE Refused
  BY <1>1 DEF Refused, login, LoginOK
<1>2. CASE WrongPin
  <2>1. 0 \in Recent
    BY Limits DEF Recent
  <2>2. attempts[0] + 1 \in Nat
    BY <2>1 DEF LoginOK
  <2> QED BY <1>2, <2>2 DEF WrongPin, LoginOK
<1>3. CASE RightPin
  <2>1. NoAttempts \in [Recent -> Nat]
    BY DEF NoAttempts
  <2>2. SessionTicks \in 0..SessionTicks
    BY Limits
  <2> QED BY <1>3, <2>1, <2>2 DEF RightPin, LoginOK
<1> QED BY <1>1, <1>2, <1>3 DEF Login

\* What leaves the files and every helper alone keeps what they know.
LEMMA OthersUntouched ==
  ASSUME HelpersOK, FilesOK, FilesKnown, UNCHANGED << helper, files >>
  PROVE  HelpersOK' /\ FilesOK' /\ FilesKnown'
BY DEF helper, files, HelpersOK, FilesOK, FilesKnown, HelperKnows, Settled

LEMMA DashboardKeeps ==
  ASSUME IInv,
         \/ Tick \/ Login \/ Logout \/ RequestChange \/ GiveUp
         \/ RequestEmergencyStop \/ TakeLock \/ ReleaseLock \/ UNCHANGED vars
  PROVE  IInv'
<1>1. UNCHANGED << helper, files >>
  BY DEF Tick, Login, Logout, RequestChange, GiveUp, RequestEmergencyStop,
         TakeLock, ReleaseLock, vars
<1>2. LoginOK'
  <2>1. CASE Tick \/ Login
    BY <2>1, TickKeeps, LoginKeeps DEF IInv
  <2>2. CASE Logout
    BY <2>2, Limits DEF Logout, IInv, LoginOK
  <2>3. CASE UNCHANGED login
    BY <2>3 DEF login, IInv, LoginOK
  <2> QED
    BY <2>1, <2>2, <2>3
       DEF RequestChange, GiveUp, RequestEmergencyStop, TakeLock, ReleaseLock, vars
<1>3. DashboardOK'
  <2>1. CASE UNCHANGED dashboard
    BY <2>1 DEF dashboard, IInv, DashboardOK
  <2>2. CASE RequestChange \/ GiveUp \/ RequestEmergencyStop \/ TakeLock \/ ReleaseLock
    BY <2>2 DEF RequestChange, GiveUp, RequestEmergencyStop, TakeLock, ReleaseLock,
                Answered, IInv, DashboardOK
  <2> QED BY <2>1, <2>2 DEF Tick, Login, Logout, vars
<1>4. HelpersOK' /\ FilesOK' /\ FilesKnown'
  BY <1>1, OthersUntouched DEF IInv
<1> QED BY <1>2, <1>3, <1>4 DEF IInv

-----------------------------------------------------------------------------
(***************************************************************************)
(* What a helper's step leaves behind, in terms of who owns the flock.      *)
(***************************************************************************)
LEMMA OwnerKnows ==
  ASSUME NEW h \in Helpers, HelpersOK', operationLock' = h, HelperKnows(h)',
         step'[h] \in Unsettled \/ Settled'
  PROVE  FilesKnown'
<1>1. \A g \in Helpers \ {h} : step'[g] \in {"none", "lock"}
  BY DEF HelpersOK, Working
<1>2. \A g \in Helpers : HelperKnows(g)'
  <2> SUFFICES ASSUME NEW g \in Helpers \ {h} PROVE HelperKnows(g)'
    OBVIOUS
  <2>1. step'[g] \in {"none", "lock"}
    BY <1>1
  <2> QED BY <2>1 DEF HelperKnows, Unsettled, Changing
<1> QED BY <1>2 DEF FilesKnown

LEMMA NobodyWorks ==
  ASSUME HelpersOK', operationLock' = Nobody, Settled'
  PROVE  FilesKnown'
<1>1. \A g \in Helpers : step'[g] \in {"none", "lock"}
  BY NobodyAssumption DEF HelpersOK, Working
<1>2. \A g \in Helpers : HelperKnows(g)'
  BY <1>1 DEF HelperKnows, Unsettled, Changing
<1> QED BY <1>2 DEF FilesKnown

LEMMA EndsLemma ==
  ASSUME LoginOK, DashboardOK, HelpersOK, NEW h \in Helpers, Ends(h)
  PROVE  /\ LoginOK' /\ DashboardOK' /\ HelpersOK'
         /\ step[h] \in Working => operationLock' = Nobody
         /\ \A g \in Helpers \ {h} :
              step'[g] = step[g] /\ original'[g] = original[g] /\ target'[g] = target[g]
<1>1. LoginOK'
  BY DEF Ends, login, LoginOK
<1>2. DashboardOK'
  BY DEF Ends, Answered, DashboardOK
<1>3. /\ step' = [step EXCEPT ![h] = "none"]
      /\ target' = [target EXCEPT ![h] = Nobody]
      /\ original' = [original EXCEPT ![h] = Nobody]
      /\ polls' = [polls EXCEPT ![h] = 0]
      /\ operationLock' = IF operationLock = h THEN Nobody ELSE operationLock
  BY DEF Ends, Runs
<1>4. /\ step' \in [Helpers -> Steps]
      /\ target' \in [Helpers -> Networks \cup {Nobody}]
      /\ original' \in [Helpers -> Networks \cup {Nobody}]
      /\ polls' \in [Helpers -> 0..MaxPolls]
      /\ operationLock' \in Helpers \cup {Nobody}
  <2>1. "none" \in Steps /\ 0 \in 0..MaxPolls
    BY Limits DEF Steps
  <2> QED BY <1>3, <2>1 DEF HelpersOK
<1>5. \A g \in Helpers \ {h} :
        step'[g] = step[g] /\ original'[g] = original[g] /\ target'[g] = target[g]
  BY <1>3 DEF HelpersOK
<1>6. step'[h] = "none" /\ operationLock' # h
  BY <1>3, NobodyAssumption DEF HelpersOK
<1>7. ASSUME NEW g \in Helpers
      PROVE  /\ step'[g] \in Working <=> operationLock' = g
             /\ step'[g] \notin {"none", "status"} => target'[g] \in Networks
  <2>1. CASE g = h
    BY <1>6, <2>1 DEF Working
  <2>2. CASE g # h
    BY <1>3, <1>5, <2>2, NobodyAssumption DEF HelpersOK
  <2> QED BY <2>1, <2>2
<1>8. step[h] \in Working => operationLock' = Nobody
  BY <1>3 DEF HelpersOK
<1> QED BY <1>1, <1>2, <1>4, <1>5, <1>7, <1>8 DEF HelpersOK

\* A helper that ends outside the unsettled stretch, with the files as they are.
LEMMA EndsQuietly ==
  ASSUME IInv, NEW h \in Helpers, Ends(h), UNCHANGED files, step[h] \notin Unsettled
  PROVE  IInv'
<1>1. /\ LoginOK' /\ DashboardOK' /\ HelpersOK'
      /\ step[h] \in Working => operationLock' = Nobody
      /\ \A g \in Helpers \ {h} :
           step'[g] = step[g] /\ original'[g] = original[g] /\ target'[g] = target[g]
  BY EndsLemma DEF IInv
<1>2. FilesOK'
  BY DEF files, IInv, FilesOK
<1>3. CASE step[h] \in Working
  <2>1. \A g \in Helpers : step[g] \notin Unsettled
    BY <1>3, OneWorks DEF IInv, Unsettled, Changing
  <2>2. Settled'
    BY <2>1 DEF IInv, FilesKnown, Settled, files
  <2> QED BY <1>1, <1>2, <1>3, <2>2, NobodyWorks DEF IInv
<1>4. CASE step[h] \notin Working
  <2>1. step'[h] = "none"
    BY DEF Ends, Runs, IInv, HelpersOK
  <2>2. \A g \in Helpers : HelperKnows(g)'
    <3> SUFFICES ASSUME NEW g \in Helpers PROVE HelperKnows(g)'
      OBVIOUS
    <3>1. CASE g = h
      BY <2>1, <3>1 DEF HelperKnows, Unsettled, Changing
    <3>2. CASE g # h
      BY <1>1, <3>2 DEF IInv, FilesKnown, HelperKnows, files
    <3> QED BY <3>1, <3>2
  <2>3. (\A g \in Helpers : step'[g] \notin Unsettled) => Settled'
    BY <1>1 DEF IInv, FilesKnown, Settled, files
  <2> QED BY <1>1, <1>2, <2>2, <2>3 DEF IInv, FilesKnown
<1> QED BY <1>3, <1>4

\* A helper that goes on under the flock.
LEMMA ContinuesLemma ==
  ASSUME LoginOK, DashboardOK, HelpersOK, NEW h \in Helpers, NEW at \in Working,
         step[h] \in Working \ {"status"}, Continues(h, at)
  PROVE  /\ LoginOK' /\ DashboardOK' /\ HelpersOK' /\ operationLock' = h
         /\ step'[h] = at /\ original'[h] = original[h] /\ target'[h] = target[h]
<1>1. LoginOK' /\ DashboardOK'
  BY DEF Continues, login, dashboard, LoginOK, DashboardOK
<1>2. step' = [step EXCEPT ![h] = at] /\ at \in Steps
  BY DEF Continues, Runs, Working
<1>3. operationLock' = h
  BY DEF HelpersOK, Continues
<1>4. HelpersOK'
  <2>1. step' \in [Helpers -> Steps] /\ step'[h] = at
        /\ \A g \in Helpers \ {h} : step'[g] = step[g]
    BY <1>2 DEF HelpersOK
  <2>2. target[h] \in Networks
    BY DEF HelpersOK, Working
  <2> QED BY <1>3, <2>1, <2>2 DEF HelpersOK, Continues
<1> QED BY <1>1, <1>2, <1>3, <1>4 DEF Continues, HelpersOK

-----------------------------------------------------------------------------
(***************************************************************************)
(* The actions of a helper.                                                 *)
(***************************************************************************)
\* Starting a helper, or failing to start one, is nothing the others notice.
LEMMA StartChangeKeeps ==
  ASSUME IInv, NEW h \in Helpers, StartChange(h)
  PROVE  IInv'
<1>1. PICK n \in Networks : target' = [target EXCEPT ![h] = n]
  BY DEF StartChange
<1>2. step' = [step EXCEPT ![h] = "lock"] /\ step[h] = "none" /\ UNCHANGED operationLock
      /\ UNCHANGED << original, polls, files >>
  BY DEF StartChange, Runs
<1>3. LoginOK' /\ DashboardOK' /\ FilesOK'
  <2>1. LoginOK'
    BY DEF StartChange, login, IInv, LoginOK
  <2>2. DashboardOK'
    BY DEF StartChange, IInv, DashboardOK
  <2>3. FilesOK'
    BY <1>2 DEF files, IInv, FilesOK
  <2> QED BY <2>1, <2>2, <2>3
<1>4. /\ step' \in [Helpers -> Steps] /\ step'[h] = "lock" /\ target'[h] = n
      /\ target' \in [Helpers -> Networks \cup {Nobody}]
      /\ \A g \in Helpers \ {h} : step'[g] = step[g] /\ target'[g] = target[g]
  BY <1>1, <1>2 DEF IInv, HelpersOK, Steps
<1>5. HelpersOK'
  <2>1. step[h] \notin Working /\ "lock" \notin Working
    BY <1>2 DEF Working
  <2> QED BY <1>2, <1>4, <2>1 DEF IInv, HelpersOK
<1>6. FilesKnown'
  <2>1. \A g \in Helpers : HelperKnows(g)'
    <3> SUFFICES ASSUME NEW g \in Helpers PROVE HelperKnows(g)'
      OBVIOUS
    <3>1. CASE g = h
      BY <1>4, <3>1 DEF HelperKnows, Unsettled, Changing
    <3>2. CASE g # h
      BY <1>2, <1>4, <3>2 DEF IInv, FilesKnown, HelperKnows, files
    <3> QED BY <3>1, <3>2
  <2>2. (\A g \in Helpers : step'[g] \notin Unsettled) => Settled'
    BY <1>2, <1>4 DEF IInv, FilesKnown, Settled, files, Unsettled, Changing
  <2> QED BY <2>1, <2>2 DEF FilesKnown
<1> QED BY <1>3, <1>5, <1>6 DEF IInv

\* The first step under the flock, with the files settled.
LEMMA LockTakenKeeps ==
  ASSUME IInv, NEW h \in Helpers, NEW at \in {"status", "read"},
         operationLock = Nobody, step[h] \in {"none", "lock"},
         at = "read" => target[h] \in Networks,
         step' = [step EXCEPT ![h] = at], operationLock' = h,
         UNCHANGED << login, dashboard, target, original, polls, files >>
  PROVE  IInv'
<1>1. LoginOK' /\ DashboardOK' /\ FilesOK'
  BY DEF login, dashboard, files, IInv, LoginOK, DashboardOK, FilesOK
<1>2. \A g \in Helpers : step[g] \notin Working
  BY NobodyAssumption DEF IInv, HelpersOK
<1>3. /\ step' \in [Helpers -> Steps] /\ step'[h] = at
      /\ \A g \in Helpers \ {h} : step'[g] = step[g]
  BY DEF IInv, HelpersOK, Steps
<1>4. at \in Working
  BY DEF Working, Steps, Changing
<1>5. HelpersOK'
  BY <1>2, <1>3, <1>4 DEF IInv, HelpersOK
<1>6. Settled'
  <2>1. \A g \in Helpers : step[g] \notin Unsettled
    BY <1>2 DEF Unsettled, Working, Changing, Steps
  <2> QED BY <2>1 DEF IInv, FilesKnown, Settled, files
<1>7. HelperKnows(h)'
  BY <1>3 DEF HelperKnows, Unsettled, Changing
<1>8. FilesKnown'
  BY <1>5, <1>6, <1>7, OwnerKnows
<1> QED BY <1>1, <1>5, <1>8 DEF IInv

LEMMA StartStatusKeeps ==
  ASSUME IInv, NEW h \in Helpers, StartStatus(h)
  PROVE  IInv'
<1>1. CASE operationLock = Nobody
  BY <1>1, LockTakenKeeps DEF StartStatus, Runs
<1>2. CASE operationLock # Nobody
  <2>1. UNCHANGED vars
    BY <1>2 DEF StartStatus, vars, helper
  <2> QED BY <2>1, DashboardKeeps
<1> QED BY <1>1, <1>2

LEMMA TakeOperationLockKeeps ==
  ASSUME IInv, NEW h \in Helpers, TakeOperationLock(h)
  PROVE  IInv'
<1>1. CASE operationLock = Nobody
  <2>1. target[h] \in Networks
    BY DEF TakeOperationLock, IInv, HelpersOK
  <2> QED BY <1>1, <2>1, LockTakenKeeps DEF TakeOperationLock, Runs
<1>2. CASE operationLock # Nobody
  BY <1>2, EndsQuietly DEF TakeOperationLock, Unsettled, Changing
<1> QED BY <1>1, <1>2

\* A change that ends in success has its target in place.
LEMMA SucceedsKeeps ==
  ASSUME IInv, NEW h \in Helpers, Succeeds(h),
         step[h] \in {"read", "poll"}, config = target[h]
  PROVE  IInv'
<1>1. step[h] \in Working
  BY DEF Working, Steps, Changing
<1>2. LoginOK' /\ DashboardOK' /\ HelpersOK' /\ operationLock' = Nobody
  BY <1>1, EndsLemma DEF Succeeds, IInv
<1>3. FilesOK' /\ Settled'
  BY DEF Succeeds, IInv, FilesOK, Settled
<1>4. FilesKnown'
  BY <1>2, <1>3, NobodyWorks
<1> QED BY <1>2, <1>3, <1>4 DEF IInv

\* A step under the flock that leaves the files alone.
LEMMA MovesKeeps ==
  ASSUME IInv, NEW h \in Helpers, NEW at \in Working,
         step[h] \in Working \ {"status"}, Continues(h, at), UNCHANGED files,
         HelperKnows(h)', at \in Unsettled \/ Settled
  PROVE  IInv'
<1>1. LoginOK' /\ DashboardOK' /\ HelpersOK' /\ operationLock' = h /\ step'[h] = at
  BY ContinuesLemma DEF IInv
<1>2. FilesOK'
  BY DEF files, IInv, FilesOK
<1>3. step'[h] \in Unsettled \/ Settled'
  BY <1>1 DEF files, Settled
<1>4. FilesKnown'
  BY <1>1, <1>3, OwnerKnows
<1> QED BY <1>1, <1>2, <1>4 DEF IInv

\* Outside the unsettled stretch the owner of the flock finds the files settled.
LEMMA OwnerSettled ==
  ASSUME IInv, NEW h \in Helpers, step[h] \in Working, step[h] \notin Unsettled
  PROVE  Settled
<1>1. \A g \in Helpers : step[g] \notin Unsettled
  BY OneWorks DEF IInv, Unsettled, Changing
<1> QED BY <1>1 DEF IInv, FilesKnown

LEMMA ReadConfigKeeps ==
  ASSUME IInv, NEW h \in Helpers, ReadConfig(h)
  PROVE  IInv'
<1>1. step[h] = "read" /\ step[h] \in Working /\ step[h] \notin Unsettled
  BY DEF ReadConfig, Working, Steps, Unsettled, Changing
<1>2. CASE config = target[h] /\ Succeeds(h)
  BY <1>1, <1>2, SucceedsKeeps
<1>3. CASE Ends(h) /\ UNCHANGED files
  BY <1>1, <1>3, EndsQuietly
<1>4. CASE /\ original' = [original EXCEPT ![h] = config]
           /\ polls' = [polls EXCEPT ![h] = MaxPolls]
           /\ Runs(h, "back_up")
           /\ UNCHANGED << login, dashboard, target, operationLock, files >>
  <2>1. LoginOK' /\ DashboardOK' /\ FilesOK'
    BY <1>4 DEF login, dashboard, files, IInv, LoginOK, DashboardOK, FilesOK
  <2>2. /\ step' \in [Helpers -> Steps] /\ step'[h] = "back_up"
        /\ \A g \in Helpers \ {h} : step'[g] = step[g]
    BY <1>4 DEF Runs, IInv, HelpersOK, Steps
  <2>3. /\ original' \in [Helpers -> Networks \cup {Nobody}] /\ original'[h] = config
        /\ polls' \in [Helpers -> 0..MaxPolls]
    BY <1>4, Limits DEF IInv, HelpersOK, FilesOK
  <2>4. operationLock' = h /\ target'[h] \in Networks /\ "back_up" \in Working
    BY <1>1, <1>4 DEF IInv, HelpersOK, Working, Steps
  <2>5. HelpersOK'
    BY <1>1, <1>4, <2>2, <2>3, <2>4 DEF IInv, HelpersOK
  <2>6. Settled'
    BY <1>1, <1>4, OwnerSettled DEF Settled, files
  <2>7. HelperKnows(h)'
    BY <1>4, <2>2, <2>3 DEF HelperKnows, Unsettled, Changing, files
  <2>8. FilesKnown'
    BY <2>4, <2>5, <2>6, <2>7, OwnerKnows
  <2> QED BY <2>1, <2>5, <2>8 DEF IInv
<1> QED BY <1>2, <1>3, <1>4 DEF ReadConfig

\* The back-up is where a loss that an earlier helper left becomes final.
LEMMA BackUpKeeps ==
  ASSUME IInv, NEW h \in Helpers, BackUp(h)
  PROVE  IInv'
<1>1. step[h] = "back_up" /\ step[h] \in Working /\ step[h] \notin Unsettled
  BY DEF BackUp, Working, Steps, Unsettled, Changing
<1>2. CASE Ends(h) /\ UNCHANGED files
  BY <1>1, <1>2, EndsQuietly
<1>3. CASE /\ backup' = original[h]
           /\ overwritten' = (overwritten \/ unproven)
           /\ Continues(h, "write")
           /\ UNCHANGED << config, lastGood, unproven >>
  <2>1. original[h] = config
    BY <1>1 DEF IInv, FilesKnown, HelperKnows
  <2>2. "write" \in Working
    BY DEF Working, Steps, Changing
  <2>3. /\ LoginOK' /\ DashboardOK' /\ HelpersOK' /\ operationLock' = h
        /\ step'[h] = "write" /\ original'[h] = original[h]
    BY <1>1, <1>3, <2>2, ContinuesLemma DEF IInv
  <2>4. Settled
    BY <1>1, OwnerSettled
  <2>5. FilesOK'
    BY <1>3, <2>1, <2>4 DEF IInv, FilesOK, Settled
  <2>6. HelperKnows(h)'
    BY <1>3, <2>1, <2>3, <2>4 DEF HelperKnows, Settled, IInv, FilesOK
  <2>7. FilesKnown'
    BY <2>3, <2>6, OwnerKnows DEF Unsettled, Changing
  <2> QED BY <2>3, <2>5, <2>7 DEF IInv
<1> QED BY <1>2, <1>3 DEF BackUp

LEMMA WriteConfigKeeps ==
  ASSUME IInv, NEW h \in Helpers, WriteConfig(h)
  PROVE  IInv'
<1>1. step[h] = "write" /\ step[h] \in Working \ {"status"} /\ step[h] \in Unsettled
  BY DEF WriteConfig, Working, Steps, Unsettled, Changing
<1>2. "reconfigure" \in Working /\ "reconfigure" \in Unsettled
  BY DEF Working, Steps, Unsettled, Changing
<1>3. /\ LoginOK' /\ DashboardOK' /\ HelpersOK' /\ operationLock' = h
      /\ step'[h] = "reconfigure"
      /\ original'[h] = original[h] /\ target'[h] = target[h]
  BY <1>1, <1>2, ContinuesLemma DEF IInv, WriteConfig
<1>4. /\ original[h] = backup /\ original[h] \in Networks
      /\ unproven => overwritten
      /\ ~unproven => lastGood = original[h]
  BY <1>1 DEF IInv, FilesKnown, HelperKnows
<1>5. target[h] \in Networks
  BY <1>1 DEF IInv, HelpersOK
<1>6. FilesOK'
  BY <1>4, <1>5 DEF WriteConfig, IInv, FilesOK
<1>7. HelperKnows(h)'
  BY <1>3, <1>4 DEF WriteConfig, HelperKnows
<1>8. FilesKnown'
  BY <1>2, <1>3, <1>7, OwnerKnows
<1> QED BY <1>3, <1>6, <1>8 DEF IInv

LEMMA RestoreKeeps ==
  ASSUME IInv, NEW h \in Helpers, Restore(h)
  PROVE  IInv'
<1>1. step[h] = "restore" /\ step[h] \in Working \ {"status"} /\ step[h] \in Unsettled
  BY DEF Restore, Working, Steps, Unsettled, Changing
<1>2. "reload" \in Working
  BY DEF Working, Steps, Changing
<1>3. /\ LoginOK' /\ DashboardOK' /\ HelpersOK' /\ operationLock' = h
      /\ step'[h] = "reload"
  BY <1>1, <1>2, ContinuesLemma DEF IInv, Restore
<1>4. /\ original[h] = backup /\ original[h] \in Networks
      /\ unproven => overwritten
      /\ ~unproven => lastGood = original[h]
  BY <1>1 DEF IInv, FilesKnown, HelperKnows
<1>5. FilesOK' /\ Settled'
  BY <1>4 DEF Restore, IInv, FilesOK, Settled
<1>6. HelperKnows(h)'
  BY <1>3 DEF HelperKnows, Unsettled, Changing
<1>7. FilesKnown'
  BY <1>3, <1>5, <1>6, OwnerKnows
<1> QED BY <1>3, <1>5, <1>7 DEF IInv

LEMMA ReconfigureKeeps ==
  ASSUME IInv, NEW h \in Helpers, Reconfigure(h)
  PROVE  IInv'
<1>1. step[h] = "reconfigure" /\ step[h] \in Working \ {"status"} /\ step[h] \in Unsettled
      /\ "poll" \in Working /\ "poll" \in Unsettled
  BY DEF Reconfigure, Working, Steps, Unsettled, Changing
<1>2. step'[h] = "poll" /\ original'[h] = original[h] /\ target'[h] = target[h]
  BY <1>1, ContinuesLemma DEF IInv, Reconfigure
<1>3. HelperKnows(h)'
  BY <1>1, <1>2 DEF IInv, FilesKnown, HelperKnows, Reconfigure, files
<1> QED BY <1>1, <1>3, MovesKeeps DEF Reconfigure

\* Any way into the restoration knows what to restore.
LEMMA ToRestoreKeeps ==
  ASSUME IInv, NEW h \in Helpers, step[h] \in Changing,
         Continues(h, "restore"), UNCHANGED files
  PROVE  IInv'
<1>1. step[h] \in Working \ {"status"} /\ step[h] \in Unsettled
      /\ "restore" \in Working /\ "restore" \in Unsettled
  BY DEF Working, Steps, Unsettled, Changing
<1>2. step'[h] = "restore" /\ original'[h] = original[h]
  BY <1>1, ContinuesLemma DEF IInv
<1>3. HelperKnows(h)'
  BY <1>1, <1>2 DEF IInv, FilesKnown, HelperKnows, files
<1> QED BY <1>1, <1>3, MovesKeeps

LEMMA PollKeeps ==
  ASSUME IInv, NEW h \in Helpers, Poll(h)
  PROVE  IInv'
<1>1. step[h] = "poll" /\ step[h] \in Changing
  BY DEF Poll, Changing
<1>2. CASE polls[h] > 0 /\ Succeeds(h)
  <2>1. config = target[h]
    BY <1>1 DEF IInv, FilesKnown, HelperKnows
  <2> QED BY <1>1, <1>2, <2>1, SucceedsKeeps
<1>3. CASE /\ polls[h] > 0
           /\ polls' = [polls EXCEPT ![h] = polls[h] - 1]
           /\ UNCHANGED << login, dashboard, step, target, original, operationLock, files >>
  <2>1. polls[h] - 1 \in 0..MaxPolls
    BY <1>3, Limits DEF IInv, HelpersOK
  <2>2. HelpersOK'
    BY <1>3, <2>1 DEF IInv, HelpersOK
  <2>3. LoginOK' /\ DashboardOK' /\ FilesOK'
    BY <1>3 DEF login, dashboard, files, IInv, LoginOK, DashboardOK, FilesOK
  <2>4. FilesKnown'
    BY <1>3 DEF files, IInv, FilesKnown, HelperKnows, Settled
  <2> QED BY <2>2, <2>3, <2>4 DEF IInv
<1>4. CASE polls[h] = 0 /\ Continues(h, "restore") /\ UNCHANGED files
  BY <1>1, <1>4, ToRestoreKeeps
<1> QED BY <1>2, <1>3, <1>4 DEF Poll

\* A helper that dies restoring leaves the good configuration in the backup.
LEMMA InterruptKeeps ==
  ASSUME IInv, NEW h \in Helpers, Interrupt(h)
  PROVE  IInv'
<1>1. CASE step[h] \in Changing /\ Continues(h, "restore") /\ UNCHANGED files
  BY <1>1, ToRestoreKeeps
<1>2. CASE step[h] = "restore" /\ Ends(h) /\ LeavesUnproven
  <2>1. step[h] \in Working
    BY <1>2 DEF Working, Steps
  <2>2. LoginOK' /\ DashboardOK' /\ HelpersOK' /\ operationLock' = Nobody
    BY <1>2, <2>1, EndsLemma DEF IInv
  <2>3. FilesOK' /\ Settled'
    BY <1>2 DEF LeavesUnproven, IInv, FilesOK, Settled
  <2> QED BY <2>2, <2>3, NobodyWorks DEF IInv
<1>3. CASE /\ step[h] \in {"lock", "status", "read", "back_up", "reload"}
           /\ Ends(h) /\ UNCHANGED files
  BY <1>3, EndsQuietly DEF Unsettled, Changing
<1> QED BY <1>1, <1>2, <1>3 DEF Interrupt

LEMMA PowerFailsKeeps == ASSUME IInv, PowerFails PROVE IInv'
<1>1. LoginOK'
  BY Limits DEF PowerFails, NoAttempts, IInv, LoginOK
<1>2. DashboardOK'
  BY DEF PowerFails, DashboardOK
<1>3. HelpersOK' /\ operationLock' = Nobody
  BY Limits, NobodyAssumption DEF PowerFails, HelpersOK, Working, Steps
<1>4. FilesOK' /\ Settled'
  BY DEF PowerFails, LeavesUnproven, IInv, FilesOK, Settled
<1> QED BY <1>1, <1>2, <1>3, <1>4, NobodyWorks DEF IInv

LEMMA NextKeeps == IInv /\ [Next]_vars => IInv'
<1> SUFFICES ASSUME IInv, [Next]_vars PROVE IInv'
  OBVIOUS
<1>1. CASE \/ Tick \/ Login \/ Logout \/ RequestChange \/ GiveUp
           \/ RequestEmergencyStop \/ TakeLock \/ ReleaseLock \/ UNCHANGED vars
  BY <1>1, DashboardKeeps
<1>2. CASE PowerFails
  BY <1>2, PowerFailsKeeps
<1>3. ASSUME NEW h \in Helpers, StartChange(h) \/ StartStatus(h) \/ Interrupt(h)
      PROVE  IInv'
  BY <1>3, StartChangeKeeps, StartStatusKeeps, InterruptKeeps
<1>4. ASSUME NEW h \in Helpers, HelperStep(h)
      PROVE  IInv'
  <2>1. CASE TakeOperationLock(h)
    BY <2>1, TakeOperationLockKeeps
  <2>2. CASE EndStatus(h) \/ Reload(h)
    BY <2>2, EndsQuietly DEF EndStatus, Reload, Unsettled, Changing
  <2>3. CASE ReadConfig(h)
    BY <2>3, ReadConfigKeeps
  <2>4. CASE BackUp(h)
    BY <2>4, BackUpKeeps
  <2>5. CASE WriteConfig(h)
    BY <2>5, WriteConfigKeeps
  <2>6. CASE Reconfigure(h)
    BY <2>6, ReconfigureKeeps
  <2>7. CASE Poll(h)
    BY <2>7, PollKeeps
  <2>8. CASE Restore(h)
    BY <2>8, RestoreKeeps
  <2> QED
    BY <1>4, <2>1, <2>2, <2>3, <2>4, <2>5, <2>6, <2>7, <2>8 DEF HelperStep
<1> QED BY <1>1, <1>2, <1>3, <1>4 DEF Next

\* The flock has one owner, and what it knows of the files is true.
THEOREM Inductive == Spec => []IInv
BY InitIInv, NextKeeps, PTL DEF Spec

\* A power failure, a signal or a refused association at any step of a change
\* loses nothing: the last good configuration is in place or in the backup, and
\* in place when no helper works, until a helper killed before it could restore
\* is followed by another change.
THEOREM LastGoodKept == Spec => []LastGoodIsKept
<1>1. IInv => LastGoodIsKept
  <2> SUFFICES ASSUME IInv PROVE LastGoodIsKept
    OBVIOUS
  <2>1. TypeOK
    BY DEF IInv, LoginOK, DashboardOK, HelpersOK, FilesOK, TypeOK
  <2>2. operationLock = Nobody /\ ~unproven => config = lastGood
    <3> SUFFICES ASSUME operationLock = Nobody PROVE Settled
      BY DEF Settled
    <3>1. \A h \in Helpers : step[h] \notin Working /\ step[h] \in Steps
      BY NobodyAssumption DEF IInv, HelpersOK
    <3>2. \A h \in Helpers : step[h] \notin Unsettled
      BY <3>1 DEF Unsettled, Changing, Working, Steps
    <3> QED BY <3>2 DEF IInv, FilesKnown
  <2> QED BY <2>1, <2>2 DEF LastGoodIsKept, IInv, FilesOK
<1> QED BY <1>1, Inductive, PTL
=============================================================================
