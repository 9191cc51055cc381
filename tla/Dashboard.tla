----------------------------- MODULE Dashboard -----------------------------
(***************************************************************************)
(* The dashboard server: dashboard/backend/routes_api.py, routes_player.py  *)
(* and routes_admin.py over the dictionary `state` of dashboard_state.py.   *)
(*                                                                          *)
(* Every handler that changes state holds the module's `lock`, but between  *)
(* two of its calls into RuntimeController the auto-stop thread, which does *)
(* not take that lock, may end the play.  `at` says where the handler that  *)
(* holds the lock has got; a controller call is one step, as SafetyBoundary *)
(* (which RuntimeController implements) says it is.                         *)
(***************************************************************************)
EXTENDS SafetyBoundary

CONSTANTS
  Names,         \* player names
  AiCounts,      \* people the detector counts on a photo
  Targets,       \* people per credit
  DefaultTarget, \* the one it starts with
  InitialModes,  \* values CLAW_GRABBER_POWER_MODE may configure
  MaxPeople,     \* bound of the people counter
  MaxCredits,    \* bound of the credits that pile up
  Faults         \* which of "transport", "restart" may happen

ASSUME PowerAssumption ==
  /\ Percents \subseteq Int
  /\ InitialPercents \subseteq MinClawPower .. MaxClawPower
ASSUME ModesAssumption == InitialModes \subseteq {"manual", "ai"}
ASSUME CrowdAssumption ==
  /\ AiCounts \subseteq Nat
  /\ Targets \subseteq Nat \ {0} /\ DefaultTarget \in Targets
  /\ MaxPeople \in Nat /\ MaxCredits \in Nat

VARIABLES
  state,         \* dashboard_state.state
  at,            \* where the handler that holds `lock` is; "idle": nobody holds it
  todo,          \* keys of a /api/settings request still to be handled
  saw_running    \* what stop_play has read from the controller's status

dashboardVars == << state, at, todo, saw_running >>
vars == << boundaryVars, dashboardVars >>

NoName       == "nobody"
NotCounted   == -1      \* the detector was not available
PowerModes   == {"manual", "ai"}
SettingsKeys ==
  {"grabber_power_percent", "grabber_power_mode", "ai_people_count", "machine_enabled"}

\* The handlers that go through dashboard_state.stop_play.
StopRoutes == {"stop", "admin_stop", "reset", "maintenance", "disable"}

\* The keys of `state` that decide something (not the wording, the times, the
\* counters of the day); newest_player is the head of state["players"].
State ==
  [play_mode : PlayModes \cup {"none"},
   machine_enabled : BOOLEAN, maintenance_mode : BOOLEAN,
   people : 0 .. MaxPeople, target : Targets, credits : 0 .. MaxCredits,
   grabber_power_mode : PowerModes,
   manual_grabber_power_percent : MinClawPower .. MaxClawPower,
   ai_people_count : AiCounts \cup {0},
   player_photo_ready : BOOLEAN,
   current_player_name : Names \cup {NoName},
   newest_player : Names \cup {NoName}]

\* Faulty variant: the mode is ignored.
PowerOfCrowd(s) == AiPercent(s.ai_people_count)

\* refresh_effective_grabber_power
EffectivePower(s) ==
  IF s.grabber_power_mode = "ai" THEN AiPercent(s.ai_people_count)
                                 ELSE s.manual_grabber_power_percent

\* Faulty variants: a fault is taken for the end of the play; the end is not
\* noticed at all.
OverInFault(s) == s.play_mode # "none" /\ status # "running"
OverUnnoticed(s) == FALSE

\* controller_status["running"] is whether there is a play mode.
PlayIsOver(s) == s.play_mode # "none" /\ play_mode = "none"

\* dashboard_state(), which ends almost every answer: it takes over what the
\* controller says and notices that a play has ended by itself.
Refreshed(s) ==
  [s EXCEPT !.machine_enabled = TRUE,
            !.play_mode = IF PlayIsOver(s) THEN "none" ELSE @,
            !.player_photo_ready = IF PlayIsOver(s) THEN FALSE ELSE @]

InitialState(power, mode) ==
  [play_mode |-> "none", machine_enabled |-> TRUE, maintenance_mode |-> FALSE,
   people |-> 0, target |-> DefaultTarget, credits |-> 0,
   grabber_power_mode |-> mode, manual_grabber_power_percent |-> power,
   ai_people_count |-> 0, player_photo_ready |-> FALSE,
   current_player_name |-> NoName, newest_player |-> NoName]

Init ==
  /\ BoundaryInit
  /\ \E mode \in InitialModes : state = InitialState(claw_power, mode)
  /\ at = "idle" /\ todo = {} /\ saw_running = FALSE

-----------------------------------------------------------------------------
(***************************************************************************)
(* Calls into the controller that may raise SafetyError: because the        *)
(* validator refuses them, or because the transport does.                   *)
(***************************************************************************)
Raises(may, fails) ==
  \/ ~may /\ UNCHANGED boundaryVars
  \/ may /\ "transport" \in Faults /\ fails

StartRaises    == Raises(MayStart, CommandFails)
StopRaises     == Raises(MayStop, StopFails)
PowerRaises(p) == Raises(MaySetPower(p), CommandFails)

\* A handler that does not stop or configure anything: takes the lock, changes
\* state and goes on to its dashboard_state().
Handles(newState) ==
  /\ at = "idle" /\ at' = "refresh"
  /\ state' = newState
  /\ UNCHANGED << todo, saw_running >>

Answer ==
  /\ at = "refresh" /\ at' = "idle"
  /\ state' = Refreshed(state)
  /\ UNCHANGED << boundaryVars, todo, saw_running >>

\* GET /api/status, which the browser sends every two seconds.
PollStatus ==
  /\ at = "idle"
  /\ state' = Refreshed(state)
  /\ UNCHANGED << boundaryVars, at, todo, saw_running >>

-----------------------------------------------------------------------------
(***************************************************************************)
(* The controller routes.                                                   *)
(***************************************************************************)
ApiPlayStart(mode) ==
  /\ ~state.maintenance_mode
  /\ \/ PlayStarts(mode) /\ Handles([state EXCEPT !.play_mode = mode])
     \/ StartRaises /\ Handles(state)

ApiPlayStop ==
  \/ PlayStops /\ Handles([state EXCEPT !.play_mode = "none"])
  \/ StopRaises /\ Handles(state)

ApiClawPower(p) ==
  \/ PowerIsSet(p) /\ Handles([state EXCEPT !.manual_grabber_power_percent = p])
  \/ PowerRaises(p) /\ Handles(state)

ApiEmergencyStop ==
  /\ EmergencyStops
  /\ Handles([state EXCEPT !.play_mode = "none"])

(***************************************************************************)
(* The operator's routes.                                                   *)
(***************************************************************************)
\* set_people and award_credits; `change` and `value` both end in a new count.
UpdateCount(n) ==
  LET earned == n \div state.target - state.people \div state.target
  IN  /\ state.credits + earned <= MaxCredits
      /\ Handles([state EXCEPT !.people = n,
                               !.credits = IF earned > 0 THEN @ + earned ELSE @])
      /\ UNCHANGED boundaryVars

AiCount(n) ==
  LET counted == [state EXCEPT !.ai_people_count = n]
  IN  /\ PowerIsSet(EffectivePower(counted)) \/ PowerRaises(EffectivePower(counted))
      /\ Handles(counted)

\* POST /api/play.  A refused or failed start takes neither credit nor photo.
Play(mode) ==
  /\ ~state.maintenance_mode /\ state.machine_enabled
  /\ state.play_mode = "none" /\ state.player_photo_ready
  /\ mode = "test" \/ state.credits >= 1
  /\ \/ /\ PlayStarts(mode)
        /\ Handles([state EXCEPT !.play_mode = mode,
                                 !.player_photo_ready = FALSE,
                                 !.current_player_name = NoName,
                                 !.credits = IF mode = "test" THEN @ ELSE @ - 1])
     \/ StartRaises /\ Handles(state)

\* /api/player-photo and /api/capture-player: the player goes on the list only
\* after the power for the counted crowd has been set.
RegisterPlayer(name, counted) ==
  LET ready  == [state EXCEPT !.player_photo_ready = TRUE,
                              !.current_player_name = name]
      crowd  == [ready EXCEPT !.ai_people_count = counted]
      listed(s) == [s EXCEPT !.newest_player = name]
  IN  \/ /\ counted = NotCounted
         /\ UNCHANGED boundaryVars
         /\ Handles(listed(ready))
      \/ /\ counted # NotCounted
         /\ PowerIsSet(EffectivePower(crowd))
         /\ Handles(listed(crowd))
      \/ /\ counted # NotCounted
         /\ PowerRaises(EffectivePower(crowd))
         /\ Handles(crowd)

-----------------------------------------------------------------------------
(***************************************************************************)
(* POST /api/settings: any set of keys, handled in the order of the code; a *)
(* SafetyError skips the keys that are left.                                *)
(***************************************************************************)
KeysBefore ==
  [grabber_power_percent |-> {},
   grabber_power_mode    |-> {"grabber_power_percent"},
   ai_people_count       |-> {"grabber_power_percent", "grabber_power_mode"},
   machine_enabled       |-> SettingsKeys \ {"machine_enabled"}]

Turn(key) ==
  at = "settings" /\ key \in todo /\ todo \cap KeysBefore[key] = {}

Settings(keys, target) ==
  /\ at = "idle"
  /\ state' = [state EXCEPT !.target = target]
  /\ todo' = keys
  /\ at' = IF keys = {} THEN "refresh" ELSE "settings"
  /\ UNCHANGED << boundaryVars, saw_running >>

\* apply_grabber_power_outputs after one key.
Applies(key, newState) ==
  /\ Turn(key)
  /\ state' = newState
  /\ \/ /\ PowerIsSet(EffectivePower(newState))
        /\ todo' = todo \ {key}
        /\ at' = IF todo' = {} THEN "refresh" ELSE "settings"
     \/ /\ PowerRaises(EffectivePower(newState))
        /\ todo' = {} /\ at' = "refresh"
  /\ UNCHANGED saw_running

SettingsPower(p) ==
  Applies("grabber_power_percent",
          [state EXCEPT !.manual_grabber_power_percent = RoundedPercent(p)])

SettingsMode(mode) ==
  Applies("grabber_power_mode", [state EXCEPT !.grabber_power_mode = mode])

\* A value that is no number, or no mode: answered 400 on the spot, without
\* dashboard_state(); the keys handled before it stay applied.
SettingsBadValue(key) ==
  /\ Turn(key)
  /\ todo' = {} /\ at' = "idle"
  /\ UNCHANGED << boundaryVars, state, saw_running >>

SettingsAiCount(n) ==
  Applies("ai_people_count", [state EXCEPT !.ai_people_count = n])

SettingsEnabled(on) ==
  /\ Turn("machine_enabled")
  /\ state' = [state EXCEPT !.machine_enabled = on]
  /\ todo' = {}
  /\ IF ~on /\ state.play_mode # "none"
       THEN at' = "disable" /\ saw_running' = (play_mode # "none")
       ELSE at' = "refresh" /\ UNCHANGED saw_running
  /\ UNCHANGED boundaryVars

-----------------------------------------------------------------------------
(***************************************************************************)
(* dashboard_state.stop_play and the five handlers that call it: first read *)
(* whether the controller is running, then stop it when it was.             *)
(***************************************************************************)
StopBegins(route) ==
  /\ at = "idle"
  /\ route \in {"stop", "admin_stop", "maintenance"} => state.play_mode # "none"
  /\ saw_running' = (play_mode # "none")
  /\ at' = route
  /\ UNCHANGED << boundaryVars, state, todo >>

AfterStop(route) ==
  LET stopped == [state EXCEPT !.play_mode = "none"]
  IN  CASE route = "maintenance" -> [stopped EXCEPT !.maintenance_mode = TRUE]
        [] route = "reset" ->
             [stopped EXCEPT !.people = 0, !.credits = 0,
                             !.player_photo_ready = FALSE,
                             !.current_player_name = NoName,
                             !.newest_player = NoName]
        [] OTHER -> stopped

StopEnds(route) ==
  /\ at = route
  /\ IF saw_running THEN PlayStops ELSE UNCHANGED boundaryVars
  /\ state' = AfterStop(route)
  /\ at' = "refresh" /\ saw_running' = FALSE
  /\ UNCHANGED todo

\* The controller refuses (the auto-stop came in between) or fails: /api/stop
\* answers with dashboard_state(), the others with a bare error.
StopGivesUp(route) ==
  /\ at = route
  /\ saw_running /\ StopRaises
  /\ at' = IF route = "stop" THEN "refresh" ELSE "idle"
  /\ saw_running' = FALSE
  /\ UNCHANGED << state, todo >>

\* /api/admin/maintenance when there is no play to stop.
Maintenance(on) ==
  /\ on => state.play_mode = "none"
  /\ Handles([state EXCEPT !.maintenance_mode = on])
  /\ UNCHANGED boundaryVars

(***************************************************************************)
(* Kiosk exit and restart; reboot, shutdown and Wi-Fi, which also ask for   *)
(* maintenance.  They run (for up to 90 seconds) with the lock held.        *)
(***************************************************************************)
SystemAction(kind) ==
  /\ at = "idle"
  /\ state.play_mode = "none"
  /\ kind = "system" => state.maintenance_mode
  /\ at' = kind
  /\ UNCHANGED << boundaryVars, state, todo, saw_running >>

SystemActionEnds ==
  /\ at \in {"kiosk", "system"}
  /\ at' = "idle"
  /\ UNCHANGED << boundaryVars, state, todo, saw_running >>

-----------------------------------------------------------------------------
\* The auto-stop thread: at any moment, whoever holds `lock`.
AutoStopThread ==
  /\ AutoStops \/ ("transport" \in Faults /\ AutoStopFails)
  /\ UNCHANGED dashboardVars

ServerRestarts ==
  /\ "restart" \in Faults
  /\ ProcessRestarts
  /\ \E mode \in InitialModes : state' = InitialState(claw_power', mode)
  /\ at' = "idle" /\ todo' = {} /\ saw_running' = FALSE

ControllerRoutes ==
  \/ \E mode \in PlayModes : ApiPlayStart(mode)
  \/ ApiPlayStop
  \/ \E p \in Percents : ApiClawPower(p)
  \/ ApiEmergencyStop

OperatorRoutes ==
  \/ \E n \in 0 .. MaxPeople : UpdateCount(n)
  \/ \E n \in AiCounts : AiCount(n)
  \/ \E mode \in PlayModes : Play(mode)
  \/ \E name \in Names, counted \in AiCounts \cup {NotCounted} :
       RegisterPlayer(name, counted)
  \/ \E keys \in SUBSET SettingsKeys, target \in Targets : Settings(keys, target)
  \/ \E route \in StopRoutes \ {"disable"} : StopBegins(route)
  \/ \E on \in BOOLEAN : Maintenance(on)
  \/ \E kind \in {"kiosk", "system"} : SystemAction(kind)

HandlerGoesOn ==
  \/ Answer
  \/ \E p \in Percents : SettingsPower(p)
  \/ \E mode \in PowerModes : SettingsMode(mode)
  \/ \E key \in SettingsKeys \ {"machine_enabled"} : SettingsBadValue(key)
  \/ \E n \in AiCounts : SettingsAiCount(n)
  \/ \E on \in BOOLEAN : SettingsEnabled(on)
  \/ \E route \in StopRoutes : StopEnds(route) \/ StopGivesUp(route)
  \/ SystemActionEnds

Next ==
  \/ PollStatus
  \/ ControllerRoutes
  \/ OperatorRoutes
  \/ HandlerGoesOn
  \/ AutoStopThread
  \/ ServerRestarts

Spec == Init /\ [][Next]_vars

\* Handlers and threads run; the browser keeps polling, and its request gets
\* the lock sooner or later although others take it in between.
FairSpec ==
  /\ Spec
  /\ WF_vars(HandlerGoesOn)
  /\ WF_vars(AutoStopThread)
  /\ SF_vars(PollStatus)

-----------------------------------------------------------------------------
(***************************************************************************)
(* Properties.                                                              *)
(***************************************************************************)
BoundaryType ==
  /\ status \in Statuses /\ play_mode \in PlayModes \cup {"none"}
  /\ emergency_stopped \in BOOLEAN /\ auto_stop_armed \in BOOLEAN
  /\ claw_power \in MinClawPower .. MaxClawPower

TypeOK ==
  /\ BoundaryType
  /\ state \in State
  /\ at \in {"idle", "refresh", "settings", "kiosk", "system"} \cup StopRoutes
  /\ todo \subseteq SettingsKeys /\ saw_running \in BOOLEAN

\* The dashboard's own copy of the play mode may lag behind the end of a play,
\* but it never misses a play: what the controller plays is what is shown, and
\* so every handler that looks at the copy before it acts sees the play.
ShownPlayIsReal == play_mode # "none" => state.play_mode = play_mode

\* Maintenance mode blocks new plays and is only entered once the current one
\* has been stopped: nobody works on a machine that plays.
MaintenanceIsIdle == state.maintenance_mode => play_mode = "none"

\* What stop_play has read is still true when it acts on it, because `lock` keeps
\* every start out: a controller seen idle is still idle.
IdleStaysIdle == at \in StopRoutes /\ ~saw_running => play_mode = "none"

\* A kiosk exit, a reboot, a shutdown or a change of Wi-Fi never finds the
\* controller playing, from its check until it is done; the last three happen
\* in maintenance only.
SystemActionsFindItIdle ==
  /\ at \in {"kiosk", "system"} => play_mode = "none"
  /\ at = "system" => state.maintenance_mode

\* The inductive invariant of the proofs (DashboardProofs).
IInv ==
  /\ TypeOK
  /\ ShownPlayIsReal /\ MaintenanceIsIdle /\ IdleStaysIdle /\ SystemActionsFindItIdle

\* In Manual mode the controller holds with the power the operator selected,
\* by whichever route it was selected (unless an emergency stop refuses it).
ManualPowerIsApplied ==
  at = "idle" /\ ~emergency_stopped /\ state.grabber_power_mode = "manual" =>
    claw_power = state.manual_grabber_power_percent

\* In AI Crowd Bonus mode it holds with the power of the counted crowd.
AiPowerIsApplied ==
  at = "idle" /\ ~emergency_stopped /\ state.grabber_power_mode = "ai" =>
    claw_power = AiPercent(state.ai_people_count)

\* Once the operator has disabled the machine only the operator enables it.
EnabledByOperatorOnly ==
  [][~state.machine_enabled /\ state'.machine_enabled => at = "settings"]_vars

\* A play that is shown ends on the dashboard, without anybody pressing Stop
\* and whatever other requests come.
ShownPlayEnds == state.play_mode # "none" ~> state.play_mode = "none"
=============================================================================
