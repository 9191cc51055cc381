--------------------------- MODULE Administration ---------------------------
(***************************************************************************)
(* Administrator login, and the change of the Wi-Fi network it gives access *)
(* to.  The dashboard handles a change while it holds the lock that an      *)
(* emergency stop needs too.  The work is done by a root helper process,    *)
(* one at a time (flock), which saves the configuration, writes the new     *)
(* one, waits for an association and restores the old one on any failure;   *)
(* signals and power failures can catch it between two of its steps, and it *)
(* outlives the dashboard's patience.                                       *)
(*                                                                          *)
(* A configuration is the network its managed block names.                  *)
(***************************************************************************)
EXTENDS Naturals, Functions

CONSTANTS
  Networks,
  Helpers,       \* slots for helper processes
  Nobody,        \* no helper, no network
  MaxAttempts,   \* MAX_ATTEMPTS
  WindowTicks,   \* ATTEMPT_WINDOW_SECONDS
  SessionTicks,  \* ADMIN_SESSION_SECONDS
  MaxPolls       \* CONNECT_ATTEMPTS

ASSUME LimitsAssumption ==
  {MaxAttempts, WindowTicks, SessionTicks, MaxPolls} \subseteq Nat \ {0}

ASSUME NobodyAssumption == Nobody \notin Helpers \cup Networks

\* Where a helper process is; from "write" on, a failure restores.
Changing == {"write", "reconfigure", "poll"}
Steps ==
  {"none", "lock", "status", "read", "back_up", "restore", "reload"} \cup Changing

VARIABLES
  attempts,       \* _attempts[client]: how many of each age
  sessionLeft,    \* ticks until the session expires
  dashboardLock,  \* the dashboard's lock: "free", "wifi" or "emergency"
  caller,         \* the helper process a Wi-Fi request waits for
  wifiWaits,      \* an authenticated Wi-Fi request waits for the lock
  emergencyWaits, \* an emergency stop waits for the lock
  step,           \* [Helpers -> Steps]
  target,         \* the network each helper is to connect to, or Nobody
  original,       \* the configuration each helper has read, or Nobody
  polls,          \* status polls each helper has left
  operationLock,  \* owner of the flock
  config,         \* wpa_supplicant.conf
  backup,         \* its backup, or Nobody
  lastGood,       \* history: the last configuration that held or connected
  unproven,       \* history: a helper ended with neither success nor restoration
  overwritten     \* history: ... and another one has saved what it left

login == << attempts, sessionLeft >>
dashboard == << dashboardLock, caller, wifiWaits, emergencyWaits >>
helper == << step, target, original, polls, operationLock >>
files == << config, backup, lastGood, unproven, overwritten >>
vars == << login, dashboard, helper, files >>

Recent == 0 .. WindowTicks - 1

NoAttempts == [age \in Recent |-> 0]

Init ==
  /\ attempts = NoAttempts /\ sessionLeft = 0
  /\ dashboardLock = "free" /\ caller = Nobody
  /\ wifiWaits = FALSE /\ emergencyWaits = FALSE
  /\ step = [h \in Helpers |-> "none"]
  /\ target = [h \in Helpers |-> Nobody] /\ original = [h \in Helpers |-> Nobody]
  /\ polls = [h \in Helpers |-> 0]
  /\ operationLock = Nobody
  /\ config \in Networks /\ lastGood = config
  /\ backup = Nobody
  /\ unproven = FALSE /\ overwritten = FALSE

-----------------------------------------------------------------------------
(***************************************************************************)
(* Login.  authenticate drops the attempts that have left the window before *)
(* it counts the others; a refused attempt leaves no trace.                 *)
(***************************************************************************)
Tick ==
  /\ attempts' = [age \in Recent |-> IF age = 0 THEN 0 ELSE attempts[age - 1]]
  /\ sessionLeft' = IF sessionLeft > 0 THEN sessionLeft - 1 ELSE 0
  /\ UNCHANGED << dashboard, helper, files >>

Attempts == SumFunction(attempts)

LockedOut == Attempts >= MaxAttempts

\* Faulty variant: a refused attempt starts the lock-out again.
RefusedCounting ==
  /\ attempts' = [age \in Recent |-> IF age = 0 THEN MaxAttempts ELSE 0]
  /\ UNCHANGED sessionLeft

Refused == UNCHANGED login

WrongPin == attempts' = [attempts EXCEPT ![0] = @ + 1] /\ UNCHANGED sessionLeft

RightPin == attempts' = NoAttempts /\ sessionLeft' = SessionTicks

Login ==
  /\ \/ LockedOut /\ Refused
     \/ ~LockedOut /\ (WrongPin \/ RightPin)
  /\ UNCHANGED << dashboard, helper, files >>

Logout ==
  /\ sessionLeft > 0
  /\ sessionLeft' = 0
  /\ UNCHANGED << attempts, dashboard, helper, files >>

-----------------------------------------------------------------------------
(***************************************************************************)
(* The dashboard.  Maintenance mode and the idle machine that wifi_connect  *)
(* asks for are those of module Dashboard.                                  *)
(***************************************************************************)
RequestChange ==
  /\ sessionLeft > 0
  /\ ~wifiWaits /\ dashboardLock # "wifi"
  /\ wifiWaits' = TRUE
  /\ UNCHANGED << login, dashboardLock, caller, emergencyWaits, helper, files >>

Runs(h, at) == step' = [step EXCEPT ![h] = at]

\* LiveWifiManager starts the helper.
StartChange(h) ==
  /\ wifiWaits /\ dashboardLock = "free"
  /\ wifiWaits' = FALSE /\ dashboardLock' = "wifi" /\ caller' = h
  /\ step[h] = "none" /\ Runs(h, "lock")
  /\ \E n \in Networks : target' = [target EXCEPT ![h] = n]
  /\ UNCHANGED << login, emergencyWaits, original, polls, operationLock, files >>

\* wifi_status or wifi_networks: a helper without the dashboard's lock.
StartStatus(h) ==
  /\ sessionLeft > 0
  /\ step[h] = "none"
  /\ IF operationLock = Nobody
     THEN Runs(h, "status") /\ operationLock' = h
     ELSE UNCHANGED << step, operationLock >>
  /\ UNCHANGED << login, dashboard, target, original, polls, files >>

Answered == caller' = Nobody /\ dashboardLock' = "free"

\* subprocess.run gives up after 90 seconds.  It then kills sudo, if it may: the
\* helper runs on.  If it may not, it waits for the helper all the same.
GiveUp ==
  /\ caller # Nobody
  /\ Answered
  /\ UNCHANGED << login, wifiWaits, emergencyWaits, helper, files >>

RequestEmergencyStop ==
  /\ ~emergencyWaits /\ dashboardLock # "emergency"
  /\ emergencyWaits' = TRUE
  /\ UNCHANGED << login, dashboardLock, caller, wifiWaits, helper, files >>

TakeLock ==
  /\ emergencyWaits /\ dashboardLock = "free"
  /\ emergencyWaits' = FALSE /\ dashboardLock' = "emergency"
  /\ UNCHANGED << login, caller, wifiWaits, helper, files >>

ReleaseLock ==
  /\ dashboardLock = "emergency"
  /\ dashboardLock' = "free"
  /\ UNCHANGED << login, caller, wifiWaits, emergencyWaits, helper, files >>

-----------------------------------------------------------------------------
(***************************************************************************)
(* The helper: main and connect_network.                                    *)
(***************************************************************************)
Ends(h) ==
  /\ Runs(h, "none")
  /\ operationLock' = IF operationLock = h THEN Nobody ELSE operationLock
  /\ IF caller = h THEN Answered ELSE UNCHANGED << caller, dashboardLock >>
  /\ target' = [target EXCEPT ![h] = Nobody]
  /\ original' = [original EXCEPT ![h] = Nobody]
  /\ polls' = [polls EXCEPT ![h] = 0]
  /\ UNCHANGED << login, wifiWaits, emergencyWaits >>

Continues(h, at) ==
  /\ Runs(h, at)
  /\ UNCHANGED << login, dashboard, target, original, polls, operationLock >>

\* Faulty variant: the lock is not exclusive.
TakeOperationLockShared(h) ==
  /\ step[h] = "lock"
  /\ operationLock' = h /\ Runs(h, "read")
  /\ UNCHANGED << login, dashboard, target, original, polls, files >>

TakeOperationLock(h) ==
  /\ step[h] = "lock"
  /\ IF operationLock = Nobody
     THEN /\ operationLock' = h /\ Runs(h, "read")
          /\ UNCHANGED << login, dashboard, target, original, polls >>
     ELSE Ends(h)
  /\ UNCHANGED files

EndStatus(h) == step[h] = "status" /\ Ends(h) /\ UNCHANGED files

Succeeds(h) ==
  /\ Ends(h)
  /\ lastGood' = target[h]
  /\ unproven' = FALSE /\ overwritten' = FALSE
  /\ UNCHANGED << config, backup >>

\* The same configuration is left alone when the machine is connected with it;
\* a configuration that cannot be read or parsed ends the helper.
ReadConfig(h) ==
  /\ step[h] = "read"
  /\ \/ config = target[h] /\ Succeeds(h)
     \/ Ends(h) /\ UNCHANGED files
     \/ /\ original' = [original EXCEPT ![h] = config]
        /\ polls' = [polls EXCEPT ![h] = MaxPolls]
        /\ Runs(h, "back_up")
        /\ UNCHANGED << login, dashboard, target, operationLock, files >>

BackUp(h) ==
  /\ step[h] = "back_up"
  /\ \/ /\ backup' = original[h]
        /\ overwritten' = (overwritten \/ unproven)
        /\ Continues(h, "write")
        /\ UNCHANGED << config, lastGood, unproven >>
     \/ Ends(h) /\ UNCHANGED files

WriteConfig(h) ==
  /\ step[h] = "write"
  /\ config' = target[h]
  /\ Continues(h, "reconfigure")
  /\ UNCHANGED << backup, lastGood, unproven, overwritten >>

Reconfigure(h) ==
  /\ step[h] = "reconfigure"
  /\ Continues(h, "poll")
  /\ UNCHANGED files

\* Faulty variant: the helper polls until the machine is connected.
PollForever(h) ==
  /\ step[h] = "poll"
  /\ \/ Succeeds(h)
     \/ /\ polls' = [polls EXCEPT ![h] = (@ + MaxPolls) % (MaxPolls + 1)]
        /\ UNCHANGED << login, dashboard, step, target, original, operationLock, files >>

Poll(h) ==
  /\ step[h] = "poll"
  /\ \/ polls[h] > 0 /\ Succeeds(h)
     \/ /\ polls[h] > 0
        /\ polls' = [polls EXCEPT ![h] = polls[h] - 1]
        /\ UNCHANGED << login, dashboard, step, target, original, operationLock, files >>
     \/ polls[h] = 0 /\ Continues(h, "restore") /\ UNCHANGED files

Restore(h) ==
  /\ step[h] = "restore"
  /\ config' = original[h]
  /\ Continues(h, "reload")
  /\ UNCHANGED << backup, lastGood, unproven, overwritten >>

Reload(h) == step[h] = "reload" /\ Ends(h) /\ UNCHANGED files

LeavesUnproven ==
  /\ unproven' = (unproven \/ config # lastGood)
  /\ UNCHANGED << config, backup, lastGood, overwritten >>

\* A signal, or a failing write or wpa_cli.  The handler raises, and so does a
\* second signal: it aborts the restoration.
Interrupt(h) ==
  \/ step[h] \in Changing /\ Continues(h, "restore") /\ UNCHANGED files
  \/ step[h] = "restore" /\ Ends(h) /\ LeavesUnproven
  \/ step[h] \in {"lock", "status", "read", "back_up", "reload"} /\ Ends(h) /\ UNCHANGED files

\* The machine loses power: the files are all that is left, with the attempts
\* forgotten and the session kept by the browser.
PowerFails ==
  /\ attempts' = NoAttempts
  /\ dashboardLock' = "free" /\ caller' = Nobody
  /\ wifiWaits' = FALSE /\ emergencyWaits' = FALSE
  /\ step' = [h \in Helpers |-> "none"]
  /\ operationLock' = Nobody
  /\ target' = [h \in Helpers |-> Nobody] /\ original' = [h \in Helpers |-> Nobody]
  /\ polls' = [h \in Helpers |-> 0]
  /\ LeavesUnproven
  /\ UNCHANGED sessionLeft

HelperStep(h) ==
  \/ TakeOperationLock(h)
  \/ EndStatus(h)
  \/ ReadConfig(h)
  \/ BackUp(h)
  \/ WriteConfig(h)
  \/ Reconfigure(h)
  \/ Poll(h)
  \/ Restore(h)
  \/ Reload(h)

Next ==
  \/ Tick
  \/ Login
  \/ Logout
  \/ RequestChange
  \/ GiveUp
  \/ RequestEmergencyStop
  \/ TakeLock
  \/ ReleaseLock
  \/ PowerFails
  \/ \E h \in Helpers : StartChange(h) \/ StartStatus(h) \/ HelperStep(h) \/ Interrupt(h)

\* Time passes; the helper waits for nothing without a timeout; a thread that
\* finds the lock free again and again gets it.
Fairness ==
  /\ WF_vars(Tick)
  /\ \A h \in Helpers : WF_vars(HelperStep(h))
  /\ WF_vars(ReleaseLock)
  /\ SF_vars(TakeLock)

Spec == Init /\ [][Next]_vars /\ Fairness

-----------------------------------------------------------------------------
TypeOK ==
  /\ attempts \in [Recent -> Nat]
  /\ sessionLeft \in 0..SessionTicks
  /\ dashboardLock \in {"free", "wifi", "emergency"}
  /\ caller \in Helpers \cup {Nobody}
  /\ {wifiWaits, emergencyWaits, unproven, overwritten} \subseteq BOOLEAN
  /\ step \in [Helpers -> Steps]
  /\ {target, original} \subseteq [Helpers -> Networks \cup {Nobody}]
  /\ polls \in [Helpers -> 0..MaxPolls]
  /\ operationLock \in Helpers \cup {Nobody}
  /\ {config, lastGood} \subseteq Networks
  /\ backup \in Networks \cup {Nobody}

\* The configuration the machine was last known to work with is in place or in
\* the backup at every step, so that a power failure loses nothing, however the
\* requests, the helpers they left behind and the signals interleave; and it is
\* in place whenever no helper is at work.  Both hold until a helper that was
\* killed before it could restore is followed by another change.
LastGoodIsKept ==
  /\ TypeOK
  /\ ~overwritten => lastGood \in {config, backup}
  /\ operationLock = Nobody /\ ~unproven => config = lastGood

\* "Keep one last-known-good copy": the same without that exception.
OneGoodCopy == lastGood \in {config, backup}

\* An emergency stop that waits behind a Wi-Fi change is served, because every
\* wait of the helper ends.
EmergencyIsServed == emergencyWaits ~> ~emergencyWaits

\* A lock-out ends, however often a PIN is tried while it lasts.
LockOutEnds == LockedOut ~> ~LockedOut
=============================================================================
