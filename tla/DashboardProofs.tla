-------------------------- MODULE DashboardProofs --------------------------
(***************************************************************************)
(* Proofs about Dashboard: its types, and the three facts that make it safe *)
(* to look at the dashboard's own copy of the play mode before acting.      *)
(* They hold for every number of names, people, targets and powers, and     *)
(* whatever faults happen.                                                  *)
(***************************************************************************)
EXTENDS Dashboard, TLAPS

\* The percentage the operator's selection is rounded to is a legal power.
LEMMA RoundedPercentIsLegal ==
  ASSUME NEW percent \in Int
  PROVE  RoundedPercent(percent) \in MinClawPower .. MaxClawPower
<1>1. PowerLevel(percent) \in 0 .. 6
  <2> DEFINE tenths == RoundTenth(Clamp(percent, MinClawPower, MaxClawPower) - MinClawPower)
  <2>1. Clamp(percent, MinClawPower, MaxClawPower) \in Int
    BY DEF Clamp, MinClawPower, MaxClawPower
  <2>2. tenths \in Int
    BY <2>1 DEF RoundTenth, MinClawPower
  <2>3. Clamp(tenths, 0, 6) \in 0 .. 6
    BY <2>2 DEF Clamp
  <2> QED BY <2>3 DEF PowerLevel
<1> QED BY <1>1 DEF RoundedPercent, MinClawPower, MaxClawPower

-----------------------------------------------------------------------------
(***************************************************************************)
(* What a call into the controller can change.                              *)
(***************************************************************************)
\* No call leaves the types of the controller's state.
LEMMA BoundaryTypeStep ==
  ASSUME BoundaryType,
         \/ BoundaryNext \/ UNCHANGED boundaryVars
         \/ \E p \in Int : PowerIsSet(p)
  PROVE  BoundaryType'
<1> USE DEF BoundaryType, Statuses
<1>1. ASSUME NEW mode \in PlayModes, PlayStarts(mode) PROVE BoundaryType'
  BY <1>1 DEF PlayStarts
<1>2. ASSUME PlayStops PROVE BoundaryType'
  BY <1>2 DEF PlayStops
<1>3. ASSUME StopFails PROVE BoundaryType'
  BY <1>3 DEF StopFails
<1>4. ASSUME NEW p \in Int, PowerIsSet(p) PROVE BoundaryType'
  BY <1>4 DEF PowerIsSet, MaySetPower
<1>5. ASSUME CommandFails PROVE BoundaryType'
  BY <1>5 DEF CommandFails
<1>6. ASSUME EmergencyStops PROVE BoundaryType'
  BY <1>6 DEF EmergencyStops
<1>7. ASSUME ProcessRestarts PROVE BoundaryType'
  BY <1>7, PowerAssumption DEF ProcessRestarts
<1>8. ASSUME UNCHANGED boundaryVars PROVE BoundaryType'
  BY <1>8 DEF boundaryVars
<1> QED
  BY <1>1, <1>2, <1>3, <1>4, <1>5, <1>6, <1>7, <1>8, PowerAssumption
     DEF BoundaryNext, AutoStops, AutoStopFails

-----------------------------------------------------------------------------
(***************************************************************************)
(* Types.                                                                   *)
(***************************************************************************)
\* Every effective power is a whole number.
LEMMA EffectivePowerIsInt ==
  ASSUME NEW s \in State
  PROVE  EffectivePower(s) \in Int
<1>1. AiPercent(s.ai_people_count) \in Int
  BY DEF AiPercent
<1>2. s.manual_grabber_power_percent \in Int
  BY DEF State, MinClawPower, MaxClawPower
<1> QED BY <1>1, <1>2 DEF EffectivePower

\* dashboard_state() keeps the types.
LEMMA RefreshedType ==
  ASSUME state \in State
  PROVE  Refreshed(state) \in State
BY DEF Refreshed, State

\* What a stopped handler writes keeps the types.
LEMMA AfterStopType ==
  ASSUME state \in State, NEW route
  PROVE  AfterStop(route) \in State
<1>1. 0 \in 0 .. MaxPeople /\ 0 \in 0 .. MaxCredits
  BY CrowdAssumption
<1> QED BY <1>1 DEF AfterStop, State

\* A new server's state is well typed.
LEMMA InitialStateType ==
  ASSUME NEW p \in InitialPercents, NEW mode \in InitialModes
  PROVE  InitialState(p, mode) \in State
<1>1. 0 \in 0 .. MaxPeople /\ 0 \in 0 .. MaxCredits
  BY CrowdAssumption
<1> QED
  BY <1>1, CrowdAssumption, PowerAssumption, ModesAssumption
     DEF InitialState, State, PowerModes

\* Credits earned are whole numbers.
LEMMA QuotientIsInt ==
  ASSUME NEW a \in Nat, NEW b \in Nat \ {0}
  PROVE  a \div b \in Int
OBVIOUS

\* A call that raises SafetyError keeps the types.
LEMMA RaisesType ==
  ASSUME BoundaryType, StartRaises \/ StopRaises \/ \E p \in Int : PowerRaises(p)
  PROVE  BoundaryType'
<1>1. CommandFails \/ StopFails \/ UNCHANGED boundaryVars
  BY DEF StartRaises, StopRaises, PowerRaises, Raises
<1> QED BY <1>1, BoundaryTypeStep DEF BoundaryNext

\* A handler keeps the types when its controller call and its new state do.
LEMMA HandlesType ==
  ASSUME TypeOK, BoundaryType', NEW new \in State, Handles(new)
  PROVE  TypeOK'
BY DEF TypeOK, Handles

\* The controller's routes keep the types ...
LEMMA ControllerRoutesType ==
  ASSUME TypeOK, ControllerRoutes
  PROVE  TypeOK'
<1>a. state \in State /\ BoundaryType
  BY DEF TypeOK
<1>1. ASSUME NEW mode \in PlayModes, ApiPlayStart(mode) PROVE TypeOK'
  <2>1. [state EXCEPT !.play_mode = mode] \in State
    BY <1>a DEF State
  <2>2. BoundaryType'
    BY <1>1, <1>a, BoundaryTypeStep, RaisesType DEF ApiPlayStart, BoundaryNext
  <2> QED BY <1>1, <1>a, <2>1, <2>2, HandlesType DEF ApiPlayStart
<1>2. ASSUME ApiPlayStop PROVE TypeOK'
  <2>1. [state EXCEPT !.play_mode = "none"] \in State
    BY <1>a DEF State
  <2>2. BoundaryType'
    BY <1>2, <1>a, BoundaryTypeStep, RaisesType DEF ApiPlayStop, BoundaryNext
  <2> QED BY <1>2, <1>a, <2>1, <2>2, HandlesType DEF ApiPlayStop
<1>3. ASSUME NEW p \in Percents, ApiClawPower(p) PROVE TypeOK'
  <2>1. p \in Int
    BY PowerAssumption
  <2>2. BoundaryType'
    BY <1>3, <1>a, <2>1, BoundaryTypeStep, RaisesType DEF ApiClawPower
  <2>3. PowerIsSet(p) => [state EXCEPT !.manual_grabber_power_percent = p] \in State
    BY <1>a DEF State, PowerIsSet, MaySetPower
  <2>4. CASE PowerIsSet(p) /\ Handles([state EXCEPT !.manual_grabber_power_percent = p])
    BY <2>2, <2>3, <2>4, HandlesType
  <2>5. CASE Handles(state)
    BY <1>a, <2>2, <2>5, HandlesType
  <2> QED BY <1>3, <2>4, <2>5 DEF ApiClawPower
<1>4. ASSUME ApiEmergencyStop PROVE TypeOK'
  <2>1. [state EXCEPT !.play_mode = "none"] \in State
    BY <1>a DEF State
  <2>2. BoundaryType'
    BY <1>4, <1>a, BoundaryTypeStep DEF ApiEmergencyStop, BoundaryNext
  <2> QED BY <1>4, <2>1, <2>2, HandlesType DEF ApiEmergencyStop
<1> QED BY <1>1, <1>2, <1>3, <1>4 DEF ControllerRoutes

\* ... so do the operator's and the player's ...
LEMMA OperatorRoutesType ==
  ASSUME TypeOK, OperatorRoutes
  PROVE  TypeOK'
<1>a. state \in State /\ BoundaryType
  BY DEF TypeOK
<1>b. UNCHANGED boundaryVars => BoundaryType'
  BY <1>a, BoundaryTypeStep
<1>1. ASSUME NEW n \in 0 .. MaxPeople, UpdateCount(n) PROVE TypeOK'
  <2>a. state.target \in Targets /\ state.people \in 0 .. MaxPeople
        /\ state.credits \in 0 .. MaxCredits
    BY <1>a DEF State
  <2>1. /\ state.target \in Nat \ {0}
        /\ state.people \in Nat /\ state.credits \in Nat /\ n \in Nat
    <3>1. state.target \in Nat \ {0}
      BY <2>a, CrowdAssumption
    <3>2. 0 .. MaxPeople \subseteq Nat /\ 0 .. MaxCredits \subseteq Nat
      BY CrowdAssumption
    <3> QED BY <2>a, <3>1, <3>2
  <2> DEFINE earned == n \div state.target - state.people \div state.target
             new == [state EXCEPT !.people = n,
                                  !.credits = IF earned > 0 THEN @ + earned ELSE @]
  <2>2. earned \in Int
    <3>1. n \div state.target \in Int
      BY <2>1, QuotientIsInt
    <3>2. state.people \div state.target \in Int
      BY <2>1, QuotientIsInt
    <3> QED BY <3>1, <3>2
  <2>3. state.credits + earned <= MaxCredits
    BY <1>1 DEF UpdateCount
  <2>4. (IF earned > 0 THEN state.credits + earned ELSE state.credits) \in 0 .. MaxCredits
    BY <1>a, <2>1, <2>2, <2>3, CrowdAssumption DEF State
  <2> HIDE DEF earned
  <2>5. new \in State
    BY <1>a, <2>4 DEF State
  <2>6. Handles(new) /\ UNCHANGED boundaryVars
    BY <1>1 DEF UpdateCount, earned
  <2> QED BY <1>b, <2>5, <2>6, HandlesType
<1>2. ASSUME NEW n \in AiCounts, AiCount(n) PROVE TypeOK'
  <2> DEFINE counted == [state EXCEPT !.ai_people_count = n]
  <2>1. counted \in State
    BY <1>a DEF State
  <2>2. EffectivePower(counted) \in Int
    BY <2>1, EffectivePowerIsInt
  <2>3. BoundaryType'
    BY <1>2, <1>a, <2>2, BoundaryTypeStep, RaisesType DEF AiCount
  <2> QED BY <1>2, <2>1, <2>3, HandlesType DEF AiCount
<1>3. ASSUME NEW mode \in PlayModes, Play(mode) PROVE TypeOK'
  <2> DEFINE new == [state EXCEPT !.play_mode = mode,
                                  !.player_photo_ready = FALSE,
                                  !.current_player_name = NoName,
                                  !.credits = IF mode = "test" THEN @ ELSE @ - 1]
  <2>1. mode = "test" \/ state.credits - 1 \in 0 .. MaxCredits
    BY <1>3, <1>a, CrowdAssumption DEF State, Play
  <2>2. new \in State
    BY <1>a, <2>1 DEF State
  <2>3. BoundaryType'
    BY <1>3, <1>a, BoundaryTypeStep, RaisesType DEF Play, BoundaryNext
  <2>4. Handles(new) \/ Handles(state)
    BY <1>3 DEF Play
  <2> QED BY <1>a, <2>2, <2>3, <2>4, HandlesType
<1>4. ASSUME NEW name \in Names, NEW counted \in AiCounts \cup {NotCounted},
             RegisterPlayer(name, counted)
      PROVE  TypeOK'
  <2> DEFINE ready == [state EXCEPT !.player_photo_ready = TRUE,
                                    !.current_player_name = name]
             crowd == [ready EXCEPT !.ai_people_count = counted]
             listed(s) == [s EXCEPT !.newest_player = name]
  <2>1. ready \in State /\ listed(ready) \in State
    BY <1>a DEF State
  <2>2. CASE counted = NotCounted
    <3>1. Handles(listed(ready)) /\ UNCHANGED boundaryVars
      BY <1>4, <2>2 DEF RegisterPlayer
    <3> QED BY <1>b, <2>1, <3>1, HandlesType
  <2>3. CASE counted # NotCounted
    <3>1. crowd \in State
      BY <2>1, <2>3 DEF State
    <3> HIDE DEF crowd
    <3>2. listed(crowd) \in State
      BY <3>1 DEF State
    <3>3. EffectivePower(crowd) \in Int
      BY <3>1, EffectivePowerIsInt
    <3>4. \/ PowerIsSet(EffectivePower(crowd)) /\ Handles(listed(crowd))
          \/ PowerRaises(EffectivePower(crowd)) /\ Handles(crowd)
      BY <1>4, <2>3 DEF RegisterPlayer, crowd
    <3>5. BoundaryType'
      BY <1>a, <3>3, <3>4, BoundaryTypeStep, RaisesType
    <3> QED BY <3>1, <3>2, <3>4, <3>5, HandlesType
  <2> QED BY <2>2, <2>3
<1>5. ASSUME NEW keys \in SUBSET SettingsKeys, NEW target \in Targets, Settings(keys, target)
      PROVE  TypeOK'
  <2>1. [state EXCEPT !.target = target] \in State
    BY <1>a DEF State
  <2> QED BY <1>5, <1>b, <2>1 DEF Settings, TypeOK
<1>6. ASSUME NEW route \in StopRoutes \ {"disable"}, StopBegins(route) PROVE TypeOK'
  BY <1>6, <1>b DEF StopBegins, TypeOK
<1>7. ASSUME NEW on \in BOOLEAN, Maintenance(on) PROVE TypeOK'
  <2>1. [state EXCEPT !.maintenance_mode = on] \in State
    BY <1>a DEF State
  <2> QED BY <1>7, <1>b, <2>1, HandlesType DEF Maintenance
<1>8. ASSUME NEW kind \in {"kiosk", "system"}, SystemAction(kind) PROVE TypeOK'
  BY <1>8, <1>b DEF SystemAction, TypeOK
<1> QED BY <1>1, <1>2, <1>3, <1>4, <1>5, <1>6, <1>7, <1>8 DEF OperatorRoutes

\* A settings key that is applied or refused.
LEMMA AppliesType ==
  ASSUME TypeOK, NEW key \in SettingsKeys, NEW new \in State, Applies(key, new)
  PROVE  TypeOK'
<1>1. EffectivePower(new) \in Int
  BY EffectivePowerIsInt
<1>2. BoundaryType'
  BY <1>1, BoundaryTypeStep, RaisesType DEF Applies, TypeOK
<1>3. state' \in State /\ saw_running' \in BOOLEAN
  BY DEF Applies, TypeOK
<1>4. todo' \subseteq SettingsKeys /\ at' \in {"refresh", "settings"}
  BY DEF Applies, TypeOK
<1> QED BY <1>2, <1>3, <1>4 DEF TypeOK

\* ... and so does every later step of a handler.
LEMMA HandlerGoesOnType ==
  ASSUME TypeOK, HandlerGoesOn
  PROVE  TypeOK'
<1>a. state \in State /\ BoundaryType
  BY DEF TypeOK
<1>b. UNCHANGED boundaryVars => BoundaryType'
  BY <1>a, BoundaryTypeStep
<1>1. ASSUME Answer PROVE TypeOK'
  BY <1>1, <1>a, <1>b, RefreshedType DEF Answer, TypeOK
<1>2. ASSUME NEW p \in Percents, SettingsPower(p) PROVE TypeOK'
  <2>1. RoundedPercent(p) \in MinClawPower .. MaxClawPower
    BY PowerAssumption, RoundedPercentIsLegal
  <2>2. [state EXCEPT !.manual_grabber_power_percent = RoundedPercent(p)] \in State
    BY <1>a, <2>1 DEF State
  <2> QED BY <1>2, <2>2, AppliesType DEF SettingsPower, SettingsKeys
<1>3. ASSUME NEW mode \in PowerModes, SettingsMode(mode) PROVE TypeOK'
  <2>1. [state EXCEPT !.grabber_power_mode = mode] \in State
    BY <1>a DEF State
  <2> QED BY <1>3, <2>1, AppliesType DEF SettingsMode, SettingsKeys
<1>4. ASSUME NEW key \in SettingsKeys \ {"machine_enabled"}, SettingsBadValue(key) PROVE TypeOK'
  BY <1>4, <1>b DEF SettingsBadValue, TypeOK
<1>5. ASSUME NEW n \in AiCounts, SettingsAiCount(n) PROVE TypeOK'
  <2>1. [state EXCEPT !.ai_people_count = n] \in State
    BY <1>a DEF State
  <2> QED BY <1>5, <2>1, AppliesType DEF SettingsAiCount, SettingsKeys
<1>6. ASSUME NEW on \in BOOLEAN, SettingsEnabled(on) PROVE TypeOK'
  <2>1. [state EXCEPT !.machine_enabled = on] \in State
    BY <1>a DEF State
  <2>2. saw_running' \in BOOLEAN /\ at' \in {"disable", "refresh"}
    BY <1>6 DEF SettingsEnabled, TypeOK
  <2> QED BY <1>6, <1>b, <2>1, <2>2 DEF SettingsEnabled, TypeOK, StopRoutes
<1>7. ASSUME NEW route \in StopRoutes, StopEnds(route) PROVE TypeOK'
  <2>1. BoundaryType'
    BY <1>7, <1>a, <1>b, BoundaryTypeStep DEF StopEnds, BoundaryNext
  <2> QED BY <1>7, <1>a, <2>1, AfterStopType DEF StopEnds, TypeOK
<1>8. ASSUME NEW route \in StopRoutes, StopGivesUp(route) PROVE TypeOK'
  <2>1. BoundaryType'
    BY <1>8, <1>a, RaisesType DEF StopGivesUp
  <2> QED BY <1>8, <2>1 DEF StopGivesUp, TypeOK
<1>9. ASSUME SystemActionEnds PROVE TypeOK'
  BY <1>9, <1>b DEF SystemActionEnds, TypeOK
<1> QED BY <1>1, <1>2, <1>3, <1>4, <1>5, <1>6, <1>7, <1>8, <1>9 DEF HandlerGoesOn

\* A new server is well typed.
LEMMA TypeInit == Init => TypeOK
<1> SUFFICES ASSUME Init PROVE TypeOK
  OBVIOUS
<1>1. BoundaryType
  BY PowerAssumption DEF Init, BoundaryInit, BoundaryType, Statuses
<1>2. state \in State
  BY InitialStateType DEF Init, BoundaryInit
<1> QED BY <1>1, <1>2 DEF Init, TypeOK

\* The parts of the step lemma together, with the thread and the restart.
LEMMA TypeStep == TypeOK /\ [Next]_vars => TypeOK'
<1> SUFFICES ASSUME TypeOK, [Next]_vars PROVE TypeOK'
  OBVIOUS
<1>a. state \in State /\ BoundaryType
  BY DEF TypeOK
<1>1. ASSUME PollStatus PROVE TypeOK'
  BY <1>1, <1>a, BoundaryTypeStep, RefreshedType DEF PollStatus, TypeOK
<1>2. ASSUME AutoStopThread PROVE TypeOK'
  <2>1. BoundaryType'
    BY <1>2, <1>a, BoundaryTypeStep DEF AutoStopThread, BoundaryNext
  <2> QED BY <1>2, <2>1 DEF AutoStopThread, dashboardVars, TypeOK
<1>3. ASSUME ServerRestarts PROVE TypeOK'
  <2>1. BoundaryType'
    BY <1>3, <1>a, BoundaryTypeStep DEF ServerRestarts, BoundaryNext
  <2>2. state' \in State
    BY <1>3, InitialStateType DEF ServerRestarts, ProcessRestarts
  <2> QED BY <1>3, <2>1, <2>2 DEF ServerRestarts, TypeOK
<1>4. ASSUME UNCHANGED vars PROVE TypeOK'
  BY <1>4, <1>a, BoundaryTypeStep DEF vars, dashboardVars, TypeOK
<1> QED
  BY <1>1, <1>2, <1>3, <1>4, ControllerRoutesType, OperatorRoutesType, HandlerGoesOnType
     DEF Next

\* The server's state keeps its types: no sequence of requests, faults and
\* restarts puts a key of `state` or a controller field out of its range.
THEOREM TypeCorrect == Spec => []TypeOK
<1>1. Init => TypeOK
  BY TypeInit
<1>2. TypeOK /\ [Next]_vars => TypeOK'
  BY TypeStep
<1> QED BY <1>1, <1>2, PTL DEF Spec

-----------------------------------------------------------------------------
(***************************************************************************)
(* The inductive invariant.                                                 *)
(***************************************************************************)
SafeInv ==
  ShownPlayIsReal /\ MaintenanceIsIdle /\ IdleStaysIdle /\ SystemActionsFindItIdle

\* No call that raises, and no change of power, starts or ends a play.
LEMMA PlayIsKept ==
  ASSUME \/ StartRaises \/ StopRaises \/ UNCHANGED boundaryVars
         \/ \E p \in Int : PowerRaises(p) \/ PowerIsSet(p)
  PROVE  play_mode' = play_mode
BY DEF StartRaises, StopRaises, PowerRaises, Raises, CommandFails, StopFails,
       PowerIsSet, boundaryVars

\* A handler that ends in dashboard_state() has only the play and maintenance
\* to look after.
LEMMA HandlesSafe ==
  ASSUME NEW new, Handles(new),
         play_mode' # "none" => new.play_mode = play_mode',
         new.maintenance_mode => play_mode' = "none"
  PROVE  SafeInv'
BY DEF Handles, SafeInv, ShownPlayIsReal, MaintenanceIsIdle, IdleStaysIdle,
       SystemActionsFindItIdle, StopRoutes

\* The same when the controller plays on and neither key is touched.
LEMMA HandlesOther ==
  ASSUME SafeInv, NEW new, Handles(new), play_mode' = play_mode,
         new.play_mode = state.play_mode,
         new.maintenance_mode = state.maintenance_mode
  PROVE  SafeInv'
BY HandlesSafe DEF SafeInv, ShownPlayIsReal, MaintenanceIsIdle

\* Starting, stopping and setting the power through the controller's routes.
LEMMA ControllerRoutesSafe ==
  ASSUME TypeOK, SafeInv, ControllerRoutes
  PROVE  SafeInv'
<1>a. state \in State
  BY DEF TypeOK
<1>1. ASSUME NEW mode \in PlayModes, ApiPlayStart(mode) PROVE SafeInv'
  <2> DEFINE new == [state EXCEPT !.play_mode = mode]
  <2>1. new.play_mode = mode /\ new.maintenance_mode = state.maintenance_mode
    BY <1>a DEF State
  <2>2. CASE PlayStarts(mode) /\ Handles(new)
    <3>1. play_mode' = mode /\ ~state.maintenance_mode
      BY <1>1, <2>2 DEF ApiPlayStart, PlayStarts
    <3> QED BY <2>1, <2>2, <3>1, HandlesSafe
  <2>3. CASE StartRaises /\ Handles(state)
    BY <2>3, PlayIsKept, HandlesOther
  <2> QED BY <1>1, <2>2, <2>3 DEF ApiPlayStart
<1>2. ASSUME ApiPlayStop PROVE SafeInv'
  <2> DEFINE new == [state EXCEPT !.play_mode = "none"]
  <2>1. CASE PlayStops /\ Handles(new)
    BY <2>1, HandlesSafe DEF PlayStops
  <2>2. CASE StopRaises /\ Handles(state)
    BY <2>2, PlayIsKept, HandlesOther
  <2> QED BY <1>2, <2>1, <2>2 DEF ApiPlayStop
<1>3. ASSUME NEW p \in Percents, ApiClawPower(p) PROVE SafeInv'
  <2> DEFINE new == [state EXCEPT !.manual_grabber_power_percent = p]
  <2>1. new.play_mode = state.play_mode /\ new.maintenance_mode = state.maintenance_mode
    BY <1>a DEF State
  <2>2. p \in Int
    BY PowerAssumption
  <2>3. (PowerIsSet(p) /\ Handles(new)) \/ (PowerRaises(p) /\ Handles(state))
    BY <1>3 DEF ApiClawPower
  <2>4. play_mode' = play_mode
    BY <2>2, <2>3, PlayIsKept
  <2> QED BY <2>1, <2>3, <2>4, HandlesOther
<1>4. ASSUME ApiEmergencyStop PROVE SafeInv'
  BY <1>4, HandlesSafe DEF ApiEmergencyStop, EmergencyStops
<1> QED BY <1>1, <1>2, <1>3, <1>4 DEF ControllerRoutes

\* The operator's and the player's routes.
LEMMA OperatorRoutesSafe ==
  ASSUME TypeOK, SafeInv, OperatorRoutes
  PROVE  SafeInv'
<1>a. state \in State
  BY DEF TypeOK
<1>b. UNCHANGED boundaryVars => play_mode' = play_mode
  BY DEF boundaryVars
<1>1. ASSUME NEW n \in 0 .. MaxPeople, UpdateCount(n) PROVE SafeInv'
  <2>1. PICK credits : Handles([state EXCEPT !.people = n, !.credits = credits])
    BY <1>1 DEF UpdateCount
  <2> DEFINE new == [state EXCEPT !.people = n, !.credits = credits]
  <2>2. new.play_mode = state.play_mode /\ new.maintenance_mode = state.maintenance_mode
    BY <1>a DEF State
  <2>3. UNCHANGED boundaryVars
    BY <1>1 DEF UpdateCount
  <2> QED BY <1>b, <2>1, <2>2, <2>3, HandlesOther
<1>2. ASSUME NEW n \in AiCounts, AiCount(n) PROVE SafeInv'
  <2> DEFINE counted == [state EXCEPT !.ai_people_count = n]
  <2>1. counted.play_mode = state.play_mode
        /\ counted.maintenance_mode = state.maintenance_mode
    BY <1>a DEF State
  <2>2. counted \in State
    BY <1>a DEF State
  <2>3. EffectivePower(counted) \in Int
    BY <2>2, EffectivePowerIsInt
  <2>4. play_mode' = play_mode
    BY <1>2, <2>3, PlayIsKept DEF AiCount
  <2> QED BY <1>2, <2>1, <2>4, HandlesOther DEF AiCount
<1>3. ASSUME NEW mode \in PlayModes, Play(mode) PROVE SafeInv'
  <2>1. PICK credits :
          \/ /\ PlayStarts(mode)
             /\ Handles([state EXCEPT !.play_mode = mode, !.player_photo_ready = FALSE,
                                      !.current_player_name = NoName,
                                      !.credits = credits])
          \/ StartRaises /\ Handles(state)
    BY <1>3 DEF Play
  <2> DEFINE new == [state EXCEPT !.play_mode = mode, !.player_photo_ready = FALSE,
                                  !.current_player_name = NoName, !.credits = credits]
  <2>2. new.play_mode = mode /\ new.maintenance_mode = state.maintenance_mode
    BY <1>a DEF State
  <2>3. ~state.maintenance_mode
    BY <1>3 DEF Play
  <2>4. CASE PlayStarts(mode) /\ Handles(new)
    <3>1. play_mode' = mode
      BY <2>4 DEF PlayStarts
    <3> QED BY <2>2, <2>3, <2>4, <3>1, HandlesSafe
  <2>5. CASE StartRaises /\ Handles(state)
    BY <2>5, PlayIsKept, HandlesOther
  <2> QED BY <2>1, <2>4, <2>5
<1>4. ASSUME NEW name \in Names, NEW counted \in AiCounts \cup {NotCounted},
             RegisterPlayer(name, counted)
      PROVE  SafeInv'
  <2> DEFINE ready == [state EXCEPT !.player_photo_ready = TRUE,
                                    !.current_player_name = name]
             crowd == [ready EXCEPT !.ai_people_count = counted]
             listed(s) == [s EXCEPT !.newest_player = name]
             Same(s) == s.play_mode = state.play_mode
                        /\ s.maintenance_mode = state.maintenance_mode
  <2>1. Same(crowd) /\ Same(listed(ready)) /\ Same(listed(crowd))
    BY <1>a DEF State
  <2>2. counted # NotCounted => EffectivePower(crowd) \in Int
    <3>1. counted # NotCounted => crowd \in State
      BY <1>a DEF State
    <3> QED BY <3>1, EffectivePowerIsInt
  <2>3. play_mode' = play_mode
    BY <1>4, <1>b, <2>2, PlayIsKept DEF RegisterPlayer
  <2>4. Handles(listed(ready)) \/ Handles(listed(crowd)) \/ Handles(crowd)
    BY <1>4 DEF RegisterPlayer
  <2> QED BY <2>1, <2>3, <2>4, HandlesOther
<1>5. ASSUME NEW keys \in SUBSET SettingsKeys, NEW target \in Targets, Settings(keys, target)
      PROVE  SafeInv'
  <2>1. state'.play_mode = state.play_mode /\ state'.maintenance_mode = state.maintenance_mode
    BY <1>5, <1>a DEF Settings, State
  <2>2. at' \in {"refresh", "settings"} /\ play_mode' = play_mode
    BY <1>5, <1>b DEF Settings
  <2> QED BY <2>1, <2>2 DEF SafeInv, ShownPlayIsReal, MaintenanceIsIdle, IdleStaysIdle,
                            SystemActionsFindItIdle, StopRoutes
<1>6. ASSUME NEW route \in StopRoutes \ {"disable"}, StopBegins(route) PROVE SafeInv'
  <2>1. at' = route /\ state' = state /\ play_mode' = play_mode
        /\ saw_running' = (play_mode # "none")
    BY <1>6, <1>b DEF StopBegins
  <2> QED BY <2>1 DEF SafeInv, ShownPlayIsReal, MaintenanceIsIdle, IdleStaysIdle,
                      SystemActionsFindItIdle, StopRoutes
<1>7. ASSUME NEW on \in BOOLEAN, Maintenance(on) PROVE SafeInv'
  <2> DEFINE new == [state EXCEPT !.maintenance_mode = on]
  <2>1. new.play_mode = state.play_mode /\ new.maintenance_mode = on
    BY <1>a DEF State
  <2>2. Handles(new) /\ play_mode' = play_mode /\ (on => state.play_mode = "none")
    BY <1>7, <1>b DEF Maintenance
  <2>3. play_mode # "none" => state.play_mode = play_mode
    BY DEF SafeInv, ShownPlayIsReal
  <2> QED BY <2>1, <2>2, <2>3, HandlesSafe
<1>8. ASSUME NEW kind \in {"kiosk", "system"}, SystemAction(kind) PROVE SafeInv'
  <2>1. at' = kind /\ state' = state /\ play_mode' = play_mode
        /\ state.play_mode = "none" /\ (kind = "system" => state.maintenance_mode)
    BY <1>8, <1>b DEF SystemAction
  <2> QED BY <2>1 DEF SafeInv, ShownPlayIsReal, MaintenanceIsIdle, IdleStaysIdle,
                      SystemActionsFindItIdle, StopRoutes
<1> QED BY <1>1, <1>2, <1>3, <1>4, <1>5, <1>6, <1>7, <1>8 DEF OperatorRoutes

\* A step to "idle", "refresh" or "settings" that keeps the play and both keys.
LEMMA KeepsSafe ==
  ASSUME SafeInv, play_mode' = play_mode,
         state'.play_mode = state.play_mode,
         state'.maintenance_mode = state.maintenance_mode,
         at' \in {"idle", "refresh", "settings"}
  PROVE  SafeInv'
BY DEF SafeInv, ShownPlayIsReal, MaintenanceIsIdle, IdleStaysIdle,
       SystemActionsFindItIdle, StopRoutes

\* A settings key, whether its power is set or refused.
LEMMA AppliesSafe ==
  ASSUME SafeInv, NEW key, NEW new \in State, Applies(key, new),
         new.play_mode = state.play_mode,
         new.maintenance_mode = state.maintenance_mode
  PROVE  SafeInv'
<1>1. EffectivePower(new) \in Int
  BY EffectivePowerIsInt
<1>2. play_mode' = play_mode
  BY <1>1, PlayIsKept DEF Applies
<1>3. state' = new /\ at' \in {"refresh", "settings"}
  BY DEF Applies
<1> QED BY <1>2, <1>3, KeepsSafe

\* dashboard_state() forgets a play only when there is none.
LEMMA RefreshedSafe ==
  ASSUME TypeOK, SafeInv, UNCHANGED boundaryVars, state' = Refreshed(state),
         at' = at \/ at' = "idle", saw_running' = saw_running
  PROVE  SafeInv'
<1>1. state \in State /\ play_mode' = play_mode
  BY DEF TypeOK, boundaryVars
<1>2. state'.maintenance_mode = state.maintenance_mode
  BY <1>1 DEF Refreshed, State
<1>3. play_mode # "none" => state'.play_mode = state.play_mode
  BY <1>1 DEF Refreshed, PlayIsOver, State
<1> QED
  BY <1>1, <1>2, <1>3 DEF SafeInv, ShownPlayIsReal, MaintenanceIsIdle, IdleStaysIdle,
                          SystemActionsFindItIdle, StopRoutes

\* The later steps of a handler: the answer, the settings, the stops.
LEMMA HandlerGoesOnSafe ==
  ASSUME TypeOK, SafeInv, HandlerGoesOn
  PROVE  SafeInv'
<1>a. state \in State
  BY DEF TypeOK
<1>b. UNCHANGED boundaryVars => play_mode' = play_mode
  BY DEF boundaryVars
<1>1. ASSUME Answer PROVE SafeInv'
  BY <1>1, RefreshedSafe DEF Answer
<1>2. ASSUME NEW p \in Percents, SettingsPower(p) PROVE SafeInv'
  <2> DEFINE new == [state EXCEPT !.manual_grabber_power_percent = RoundedPercent(p)]
  <2>1. RoundedPercent(p) \in MinClawPower .. MaxClawPower
    BY PowerAssumption, RoundedPercentIsLegal
  <2>2. new \in State /\ new.play_mode = state.play_mode
        /\ new.maintenance_mode = state.maintenance_mode
    BY <1>a, <2>1 DEF State
  <2> QED BY <1>2, <2>2, AppliesSafe DEF SettingsPower
<1>3. ASSUME NEW mode \in PowerModes, SettingsMode(mode) PROVE SafeInv'
  <2> DEFINE new == [state EXCEPT !.grabber_power_mode = mode]
  <2>1. new \in State /\ new.play_mode = state.play_mode
        /\ new.maintenance_mode = state.maintenance_mode
    BY <1>a DEF State
  <2> QED BY <1>3, <2>1, AppliesSafe DEF SettingsMode
<1>4. ASSUME NEW key \in SettingsKeys \ {"machine_enabled"}, SettingsBadValue(key) PROVE SafeInv'
  BY <1>4, <1>b, KeepsSafe DEF SettingsBadValue
<1>5. ASSUME NEW n \in AiCounts, SettingsAiCount(n) PROVE SafeInv'
  <2> DEFINE new == [state EXCEPT !.ai_people_count = n]
  <2>1. new \in State /\ new.play_mode = state.play_mode
        /\ new.maintenance_mode = state.maintenance_mode
    BY <1>a DEF State
  <2> QED BY <1>5, <2>1, AppliesSafe DEF SettingsAiCount
<1>6. ASSUME NEW on \in BOOLEAN, SettingsEnabled(on) PROVE SafeInv'
  <2>1. state'.play_mode = state.play_mode
        /\ state'.maintenance_mode = state.maintenance_mode
    BY <1>6, <1>a DEF SettingsEnabled, State
  <2>2. play_mode' = play_mode
    BY <1>6, <1>b DEF SettingsEnabled
  <2>3. CASE at' = "refresh"
    BY <2>1, <2>2, <2>3, KeepsSafe
  <2>4. CASE at' = "disable" /\ saw_running' = (play_mode # "none")
    BY <2>1, <2>2, <2>4 DEF SafeInv, ShownPlayIsReal, MaintenanceIsIdle, IdleStaysIdle,
                            SystemActionsFindItIdle, StopRoutes
  <2> QED BY <1>6, <2>3, <2>4 DEF SettingsEnabled
<1>7. ASSUME NEW route \in StopRoutes, StopEnds(route) PROVE SafeInv'
  <2>1. CASE saw_running
    BY <1>7, <2>1 DEF StopEnds, PlayStops, SafeInv, ShownPlayIsReal, MaintenanceIsIdle,
                      IdleStaysIdle, SystemActionsFindItIdle, StopRoutes
  <2>2. CASE ~saw_running
    <3>1. play_mode' = "none" /\ at' = "refresh"
      BY <1>7, <1>b, <2>2 DEF StopEnds, SafeInv, IdleStaysIdle
    <3> QED BY <3>1 DEF SafeInv, ShownPlayIsReal, MaintenanceIsIdle, IdleStaysIdle,
                        SystemActionsFindItIdle, StopRoutes
  <2> QED BY <2>1, <2>2
<1>8. ASSUME NEW route \in StopRoutes, StopGivesUp(route) PROVE SafeInv'
  BY <1>8, PlayIsKept, KeepsSafe DEF StopGivesUp
<1>9. ASSUME SystemActionEnds PROVE SafeInv'
  BY <1>9, <1>b, KeepsSafe DEF SystemActionEnds
<1> QED BY <1>1, <1>2, <1>3, <1>4, <1>5, <1>6, <1>7, <1>8, <1>9 DEF HandlerGoesOn

\* A new server plays nothing and shows nothing.
LEMMA SafeInit == Init => SafeInv
BY DEF Init, BoundaryInit, SafeInv, ShownPlayIsReal, MaintenanceIsIdle, IdleStaysIdle,
       SystemActionsFindItIdle, InitialState, StopRoutes

\* The parts together, with the thread and the restart.
LEMMA SafeStep == TypeOK /\ SafeInv /\ [Next]_vars => SafeInv'
<1> SUFFICES ASSUME TypeOK, SafeInv, [Next]_vars PROVE SafeInv'
  OBVIOUS
<1>1. ASSUME PollStatus PROVE SafeInv'
  BY <1>1, RefreshedSafe DEF PollStatus
<1>2. ASSUME AutoStopThread PROVE SafeInv'
  \* It ends the play or leaves it: each part of SafeInv allows both.
  <2>1. play_mode' \in {"none", play_mode} /\ UNCHANGED dashboardVars
    BY <1>2 DEF AutoStopThread, AutoStops, AutoStopFails, PlayStops, StopFails
  <2> QED BY <2>1 DEF dashboardVars, SafeInv, ShownPlayIsReal, MaintenanceIsIdle,
                      IdleStaysIdle, SystemActionsFindItIdle
<1>3. ASSUME ServerRestarts PROVE SafeInv'
  BY <1>3 DEF ServerRestarts, ProcessRestarts, SafeInv, ShownPlayIsReal,
              MaintenanceIsIdle, IdleStaysIdle, SystemActionsFindItIdle, InitialState,
              StopRoutes
<1>4. ASSUME UNCHANGED vars PROVE SafeInv'
  BY <1>4 DEF vars, boundaryVars, dashboardVars, SafeInv, ShownPlayIsReal,
              MaintenanceIsIdle, IdleStaysIdle, SystemActionsFindItIdle
<1> QED
  BY <1>1, <1>2, <1>3, <1>4, ControllerRoutesSafe, OperatorRoutesSafe, HandlerGoesOnSafe
     DEF Next

-----------------------------------------------------------------------------
\* The inductive invariant: the four facts about plays support one another.
THEOREM Inductive == Spec => []IInv
<1>1. Init => IInv
  BY TypeInit, SafeInit DEF IInv, SafeInv
<1>2. IInv /\ [Next]_vars => IInv'
  BY TypeStep, SafeStep DEF IInv, SafeInv
<1> QED BY <1>1, <1>2, PTL DEF Spec

\* The dashboard's copy of the play mode never misses a play of the controller,
\* although the auto-stop thread changes the one without the other.
THEOREM ShownIsReal == Spec => []ShownPlayIsReal
<1>1. IInv => ShownPlayIsReal
  BY DEF IInv
<1> QED BY <1>1, Inductive, PTL

\* In maintenance mode the controller plays nothing.
THEOREM MaintenanceIsSafe == Spec => []MaintenanceIsIdle
<1>1. IInv => MaintenanceIsIdle
  BY DEF IInv
<1> QED BY <1>1, Inductive, PTL

\* No system action overlaps a play.
THEOREM SystemActionsAreSafe == Spec => []SystemActionsFindItIdle
<1>1. IInv => SystemActionsFindItIdle
  BY DEF IInv
<1> QED BY <1>1, Inductive, PTL
-----------------------------------------------------------------------------
(***************************************************************************)
(* The power the operator selected.  Between the two routes that select it  *)
(* (ApiClawPower and the settings), the mode, the counted crowd and the     *)
(* restart, every step sets both sides or leaves both alone.                *)
(***************************************************************************)
PowerInv ==
  ~emergency_stopped /\ state.grabber_power_mode = "manual" =>
    claw_power = state.manual_grabber_power_percent

\* Every effective power is one the validator accepts.
LEMMA EffectivePowerIsLegal ==
  ASSUME NEW s \in State
  PROVE  EffectivePower(s) \in MinClawPower .. MaxClawPower
<1>1. AiPercent(s.ai_people_count) \in 60 .. 90
  BY DEF AiPercent
<1>2. s.manual_grabber_power_percent \in MinClawPower .. MaxClawPower
  BY DEF State
<1> QED BY <1>1, <1>2 DEF EffectivePower, MinClawPower, MaxClawPower

\* A step that leaves the power and what selects it alone.
LEMMA PowerIsKept ==
  ASSUME PowerInv, claw_power' = claw_power, emergency_stopped => emergency_stopped',
         state'.grabber_power_mode = state.grabber_power_mode,
         state'.manual_grabber_power_percent = state.manual_grabber_power_percent
  PROVE  PowerInv'
BY DEF PowerInv

\* A selection that is sent to the controller: it takes effect, or the machine
\* is stopped for good.
LEMMA PowerIsSelected ==
  ASSUME "transport" \notin Faults, NEW new \in State, state' = new,
         PowerIsSet(EffectivePower(new)) \/ PowerRaises(EffectivePower(new))
  PROVE  PowerInv'
<1>1. CASE PowerIsSet(EffectivePower(new))
  BY <1>1 DEF PowerIsSet, EffectivePower, PowerInv
<1>2. CASE PowerRaises(EffectivePower(new))
  <2>1. ~MaySetPower(EffectivePower(new)) /\ UNCHANGED boundaryVars
    BY <1>2 DEF PowerRaises, Raises
  <2>2. emergency_stopped'
    BY <2>1, EffectivePowerIsLegal DEF MaySetPower, boundaryVars
  <2> QED BY <2>2 DEF PowerInv
<1> QED BY <1>1, <1>2

\* No start or stop, refused or not, touches the power or the latch.
LEMMA PlayCallsKeepPower ==
  ASSUME \/ \E mode \in PlayModes : PlayStarts(mode)
         \/ PlayStops \/ StopFails \/ StartRaises \/ StopRaises
         \/ UNCHANGED boundaryVars
  PROVE  UNCHANGED << claw_power, emergency_stopped >>
BY DEF PlayStarts, PlayStops, StopFails, StartRaises, StopRaises, Raises, CommandFails,
       boundaryVars

\* The controller's routes.
LEMMA ControllerRoutesPower ==
  ASSUME "transport" \notin Faults, TypeOK, PowerInv, ControllerRoutes
  PROVE  PowerInv'
<1>a. state \in State
  BY DEF TypeOK
<1>1. ASSUME NEW mode \in PlayModes, ApiPlayStart(mode) PROVE PowerInv'
  <2>1. UNCHANGED << claw_power, emergency_stopped >>
    BY <1>1, PlayCallsKeepPower DEF ApiPlayStart
  <2>2. state' = state \/ state' = [state EXCEPT !.play_mode = mode]
    BY <1>1 DEF ApiPlayStart, Handles
  <2> QED BY <1>a, <2>1, <2>2, PowerIsKept DEF State
<1>2. ASSUME ApiPlayStop PROVE PowerInv'
  <2>1. UNCHANGED << claw_power, emergency_stopped >>
    BY <1>2, PlayCallsKeepPower DEF ApiPlayStop
  <2>2. state' = state \/ state' = [state EXCEPT !.play_mode = "none"]
    BY <1>2 DEF ApiPlayStop, Handles
  <2> QED BY <1>a, <2>1, <2>2, PowerIsKept DEF State
<1>3. ASSUME NEW p \in Percents, ApiClawPower(p) PROVE PowerInv'
  <2>1. CASE PowerIsSet(p) /\ state' = [state EXCEPT !.manual_grabber_power_percent = p]
    BY <1>a, <2>1 DEF PowerIsSet, PowerInv, State
  <2>2. CASE PowerRaises(p) /\ state' = state
    <3>1. UNCHANGED << claw_power, emergency_stopped >>
      BY <2>2 DEF PowerRaises, Raises, boundaryVars
    <3> QED BY <2>2, <3>1, PowerIsKept
  <2> QED BY <1>3, <2>1, <2>2 DEF ApiClawPower, Handles
<1>4. ASSUME ApiEmergencyStop PROVE PowerInv'
  BY <1>4 DEF ApiEmergencyStop, EmergencyStops, PowerInv
<1> QED BY <1>1, <1>2, <1>3, <1>4 DEF ControllerRoutes

\* The operator's routes.
LEMMA OperatorRoutesPower ==
  ASSUME "transport" \notin Faults, TypeOK, PowerInv, OperatorRoutes
  PROVE  PowerInv'
<1>a. state \in State
  BY DEF TypeOK
<1>b. UNCHANGED boundaryVars => UNCHANGED << claw_power, emergency_stopped >>
  BY DEF boundaryVars
\* A new state that selects the same power, with a call that keeps it.
<1>c. ASSUME UNCHANGED << claw_power, emergency_stopped >>,
             state'.grabber_power_mode = state.grabber_power_mode,
             state'.manual_grabber_power_percent = state.manual_grabber_power_percent
      PROVE  PowerInv'
  BY <1>c, PowerIsKept
<1>1. ASSUME NEW n \in 0 .. MaxPeople, UpdateCount(n) PROVE PowerInv'
  BY <1>1, <1>a, <1>b, <1>c DEF UpdateCount, Handles, State
<1>2. ASSUME NEW n \in AiCounts, AiCount(n) PROVE PowerInv'
  <2> DEFINE counted == [state EXCEPT !.ai_people_count = n]
  <2>1. counted \in State
    BY <1>a DEF State
  <2>2. /\ PowerIsSet(EffectivePower(counted)) \/ PowerRaises(EffectivePower(counted))
        /\ state' = counted
    BY <1>2 DEF AiCount, Handles
  <2> QED BY <2>1, <2>2, PowerIsSelected
<1>3. ASSUME NEW mode \in PlayModes, Play(mode) PROVE PowerInv'
  <2>1. UNCHANGED << claw_power, emergency_stopped >>
    BY <1>3, PlayCallsKeepPower DEF Play
  <2>2. state'.grabber_power_mode = state.grabber_power_mode
        /\ state'.manual_grabber_power_percent = state.manual_grabber_power_percent
    BY <1>3, <1>a DEF Play, Handles, State
  <2> QED BY <2>1, <2>2, <1>c
<1>4. ASSUME NEW name \in Names, NEW counted \in AiCounts \cup {NotCounted},
             RegisterPlayer(name, counted)
      PROVE  PowerInv'
  <2> DEFINE ready  == [state EXCEPT !.player_photo_ready = TRUE,
                                     !.current_player_name = name]
             crowd  == [ready EXCEPT !.ai_people_count = counted]
             listed(s) == [s EXCEPT !.newest_player = name]
  <2>1. CASE UNCHANGED boundaryVars /\ state' = listed(ready)
    BY <2>1, <1>a, <1>b, <1>c DEF State
  <2>2. ready \in State
    BY <1>a DEF State
  <2>3. CASE /\ counted # NotCounted
             /\ PowerIsSet(EffectivePower(crowd)) \/ PowerRaises(EffectivePower(crowd))
             /\ state' \in {crowd, listed(crowd)}
    <3>1. crowd \in State /\ listed(crowd) \in State
      BY <2>2, <2>3 DEF State
    <3>2. EffectivePower(listed(crowd)) = EffectivePower(crowd)
      BY <3>1 DEF EffectivePower, State
    <3> HIDE DEF crowd, listed
    <3> QED BY <2>3, <3>1, <3>2, PowerIsSelected
  <2> QED BY <1>4, <2>1, <2>3 DEF RegisterPlayer, Handles
<1>5. ASSUME NEW keys \in SUBSET SettingsKeys, NEW target \in Targets,
             Settings(keys, target)
      PROVE  PowerInv'
  BY <1>5, <1>a, <1>b, <1>c DEF Settings, State
<1>6. ASSUME NEW route \in StopRoutes \ {"disable"}, StopBegins(route) PROVE PowerInv'
  BY <1>6, <1>b, <1>c DEF StopBegins
<1>7. ASSUME NEW on \in BOOLEAN, Maintenance(on) PROVE PowerInv'
  BY <1>7, <1>a, <1>b, <1>c DEF Maintenance, Handles, State
<1>8. ASSUME NEW kind \in {"kiosk", "system"}, SystemAction(kind) PROVE PowerInv'
  BY <1>8, <1>b, <1>c DEF SystemAction
<1> QED BY <1>1, <1>2, <1>3, <1>4, <1>5, <1>6, <1>7, <1>8 DEF OperatorRoutes

\* The later steps of a handler.
LEMMA HandlerGoesOnPower ==
  ASSUME "transport" \notin Faults, TypeOK, PowerInv, HandlerGoesOn
  PROVE  PowerInv'
<1>a. state \in State
  BY DEF TypeOK
<1>b. UNCHANGED boundaryVars => UNCHANGED << claw_power, emergency_stopped >>
  BY DEF boundaryVars
<1>1. ASSUME Answer PROVE PowerInv'
  BY <1>1, <1>a, <1>b, PowerIsKept DEF Answer, Refreshed, State
<1>2. ASSUME NEW p \in Percents, SettingsPower(p) PROVE PowerInv'
  <2> DEFINE new == [state EXCEPT !.manual_grabber_power_percent = RoundedPercent(p)]
  <2>1. RoundedPercent(p) \in MinClawPower .. MaxClawPower
    BY PowerAssumption, RoundedPercentIsLegal
  <2>2. new \in State
    BY <1>a, <2>1 DEF State
  <2> QED BY <1>2, <2>2, PowerIsSelected DEF SettingsPower, Applies
<1>3. ASSUME NEW mode \in PowerModes, SettingsMode(mode) PROVE PowerInv'
  <2> DEFINE new == [state EXCEPT !.grabber_power_mode = mode]
  <2>1. new \in State
    BY <1>a DEF State
  <2> QED BY <1>3, <2>1, PowerIsSelected DEF SettingsMode, Applies
<1>4. ASSUME NEW key \in SettingsKeys \ {"machine_enabled"}, SettingsBadValue(key)
      PROVE  PowerInv'
  BY <1>4, <1>b, PowerIsKept DEF SettingsBadValue
<1>5. ASSUME NEW n \in AiCounts, SettingsAiCount(n) PROVE PowerInv'
  <2> DEFINE new == [state EXCEPT !.ai_people_count = n]
  <2>1. new \in State
    BY <1>a DEF State
  <2> QED BY <1>5, <2>1, PowerIsSelected DEF SettingsAiCount, Applies
<1>6. ASSUME NEW on \in BOOLEAN, SettingsEnabled(on) PROVE PowerInv'
  BY <1>6, <1>a, <1>b, PowerIsKept DEF SettingsEnabled, State
<1>7. ASSUME NEW route \in StopRoutes, StopEnds(route) PROVE PowerInv'
  <2>1. UNCHANGED << claw_power, emergency_stopped >>
    BY <1>7, PlayCallsKeepPower DEF StopEnds
  <2>2. state'.grabber_power_mode = state.grabber_power_mode
        /\ state'.manual_grabber_power_percent = state.manual_grabber_power_percent
    BY <1>7, <1>a DEF StopEnds, AfterStop, State
  <2> QED BY <2>1, <2>2, PowerIsKept
<1>8. ASSUME NEW route \in StopRoutes, StopGivesUp(route) PROVE PowerInv'
  BY <1>8, PlayCallsKeepPower, PowerIsKept DEF StopGivesUp
<1>9. ASSUME SystemActionEnds PROVE PowerInv'
  BY <1>9, <1>b, PowerIsKept DEF SystemActionEnds
<1> QED BY <1>1, <1>2, <1>3, <1>4, <1>5, <1>6, <1>7, <1>8, <1>9 DEF HandlerGoesOn

\* All steps, with the poll, the thread and the restart.
LEMMA PowerStep ==
  ASSUME "transport" \notin Faults, TypeOK, PowerInv, [Next]_vars
  PROVE  PowerInv'
<1>a. state \in State
  BY DEF TypeOK
<1>1. CASE PollStatus
  BY <1>1, <1>a, PowerIsKept DEF PollStatus, Refreshed, State, boundaryVars
<1>2. CASE AutoStopThread
  BY <1>2, PlayCallsKeepPower, PowerIsKept
     DEF AutoStopThread, AutoStops, AutoStopFails, dashboardVars
<1>3. CASE ServerRestarts
  BY <1>3 DEF ServerRestarts, InitialState, PowerInv
<1>4. CASE UNCHANGED vars
  BY <1>4, PowerIsKept DEF vars, boundaryVars, dashboardVars
<1> QED
  BY <1>1, <1>2, <1>3, <1>4, ControllerRoutesPower, OperatorRoutesPower, HandlerGoesOnPower
     DEF Next

\* While the transport answers, Manual mode holds with the power the operator
\* selected, whichever of the routes, in whatever order, selected it: none of
\* them changes one of the two copies without the other.
THEOREM ManualPowerApplied ==
  ASSUME "transport" \notin Faults
  PROVE  Spec => []ManualPowerIsApplied
<1>1. Init => PowerInv
  BY DEF Init, InitialState, PowerInv
<1>2. TypeOK /\ PowerInv /\ [Next]_vars => PowerInv'
  BY PowerStep
<1>3. PowerInv => ManualPowerIsApplied
  BY DEF PowerInv, ManualPowerIsApplied
<1> QED BY <1>1, <1>2, <1>3, TypeCorrect, PTL DEF Spec

-----------------------------------------------------------------------------
(***************************************************************************)
(* The dashboard over the boundary.  Whatever a handler does to the         *)
(* controller is one command of SafetyBoundary or none: the specification   *)
(* RuntimeController implements is the one the dashboard rests on.          *)
(***************************************************************************)
BoundaryStep == [BoundaryNext]_boundaryVars

\* Starts and stops, accepted, refused or failing.
LEMMA PlayCallsAreCommands ==
  ASSUME \/ \E mode \in PlayModes : PlayStarts(mode)
         \/ PlayStops \/ StartRaises \/ StopRaises
         \/ UNCHANGED boundaryVars
  PROVE  BoundaryStep
BY DEF BoundaryStep, BoundaryNext, StartRaises, StopRaises, Raises

\* A power that a caller may ask for.
LEMMA PowerCallsAreCommands ==
  ASSUME NEW p \in Percents, PowerIsSet(p) \/ PowerRaises(p)
  PROVE  BoundaryStep
BY DEF BoundaryStep, BoundaryNext, PowerRaises, Raises

\* The power that follows from the dashboard's own settings.
LEMMA SelectionsAreCommands ==
  ASSUME MinClawPower .. MaxClawPower \subseteq Percents, NEW s \in State,
         PowerIsSet(EffectivePower(s)) \/ PowerRaises(EffectivePower(s))
  PROVE  BoundaryStep
<1>1. EffectivePower(s) \in Percents
  BY EffectivePowerIsLegal
<1> QED BY <1>1, PowerCallsAreCommands

LEMMA OperatorRoutesAreCommands ==
  ASSUME MinClawPower .. MaxClawPower \subseteq Percents, TypeOK, OperatorRoutes
  PROVE  BoundaryStep
<1>a. state \in State
  BY DEF TypeOK
<1>1. ASSUME NEW n \in AiCounts, AiCount(n) PROVE BoundaryStep
  <2> DEFINE counted == [state EXCEPT !.ai_people_count = n]
  <2>1. counted \in State
    BY <1>a DEF State
  <2>2. PowerIsSet(EffectivePower(counted)) \/ PowerRaises(EffectivePower(counted))
    BY <1>1 DEF AiCount
  <2> QED BY <2>1, <2>2, SelectionsAreCommands
<1>2. ASSUME NEW mode \in PlayModes, Play(mode) PROVE BoundaryStep
  BY <1>2, PlayCallsAreCommands DEF Play
<1>3. ASSUME NEW name \in Names, NEW counted \in AiCounts \cup {NotCounted},
             RegisterPlayer(name, counted)
      PROVE  BoundaryStep
  <2> DEFINE ready == [state EXCEPT !.player_photo_ready = TRUE,
                                    !.current_player_name = name]
             crowd == [ready EXCEPT !.ai_people_count = counted]
  <2>1. CASE UNCHANGED boundaryVars
    BY <2>1, PlayCallsAreCommands
  <2>2. CASE /\ counted # NotCounted
             /\ PowerIsSet(EffectivePower(crowd)) \/ PowerRaises(EffectivePower(crowd))
    <3>1. ready \in State
      BY <1>a DEF State
    <3>2. crowd \in State
      BY <2>2, <3>1 DEF State
    <3> HIDE DEF crowd
    <3> QED BY <2>2, <3>2, SelectionsAreCommands
  <2> QED BY <1>3, <2>1, <2>2 DEF RegisterPlayer
<1>4. CASE UNCHANGED boundaryVars
  BY <1>4, PlayCallsAreCommands
<1> QED
  BY <1>1, <1>2, <1>3, <1>4
     DEF OperatorRoutes, UpdateCount, Settings, StopBegins, Maintenance, SystemAction

LEMMA HandlerGoesOnIsACommand ==
  ASSUME MinClawPower .. MaxClawPower \subseteq Percents, TypeOK, HandlerGoesOn
  PROVE  BoundaryStep
<1>a. state \in State
  BY DEF TypeOK
<1>1. ASSUME NEW p \in Percents, SettingsPower(p) PROVE BoundaryStep
  <2> DEFINE new == [state EXCEPT !.manual_grabber_power_percent = RoundedPercent(p)]
  <2>1. RoundedPercent(p) \in MinClawPower .. MaxClawPower
    BY PowerAssumption, RoundedPercentIsLegal
  <2>2. new \in State
    BY <1>a, <2>1 DEF State
  <2> QED BY <1>1, <2>2, SelectionsAreCommands DEF SettingsPower, Applies
<1>2. ASSUME NEW mode \in PowerModes, SettingsMode(mode) PROVE BoundaryStep
  <2> DEFINE new == [state EXCEPT !.grabber_power_mode = mode]
  <2>1. new \in State
    BY <1>a DEF State
  <2> QED BY <1>2, <2>1, SelectionsAreCommands DEF SettingsMode, Applies
<1>3. ASSUME NEW n \in AiCounts, SettingsAiCount(n) PROVE BoundaryStep
  <2> DEFINE new == [state EXCEPT !.ai_people_count = n]
  <2>1. new \in State
    BY <1>a DEF State
  <2> QED BY <1>3, <2>1, SelectionsAreCommands DEF SettingsAiCount, Applies
<1>4. ASSUME NEW route \in StopRoutes, StopEnds(route) \/ StopGivesUp(route)
      PROVE  BoundaryStep
  BY <1>4, PlayCallsAreCommands DEF StopEnds, StopGivesUp
<1>5. CASE UNCHANGED boundaryVars
  BY <1>5, PlayCallsAreCommands
<1> QED
  BY <1>1, <1>2, <1>3, <1>4, <1>5
     DEF HandlerGoesOn, Answer, SettingsBadValue, SettingsEnabled, SystemActionEnds

LEMMA StepsAreCommands ==
  ASSUME MinClawPower .. MaxClawPower \subseteq Percents, TypeOK, [Next]_vars
  PROVE  BoundaryStep
<1>1. CASE ControllerRoutes
  <2>1. ASSUME NEW mode \in PlayModes, ApiPlayStart(mode) PROVE BoundaryStep
    BY <2>1, PlayCallsAreCommands DEF ApiPlayStart
  <2>2. CASE ApiPlayStop
    BY <2>2, PlayCallsAreCommands DEF ApiPlayStop
  <2>3. ASSUME NEW p \in Percents, ApiClawPower(p) PROVE BoundaryStep
    BY <2>3, PowerCallsAreCommands DEF ApiClawPower
  <2>4. CASE ApiEmergencyStop
    BY <2>4 DEF ApiEmergencyStop, BoundaryStep, BoundaryNext
  <2> QED BY <1>1, <2>1, <2>2, <2>3, <2>4 DEF ControllerRoutes
<1>2. CASE AutoStopThread \/ ServerRestarts
  BY <1>2 DEF AutoStopThread, ServerRestarts, BoundaryStep, BoundaryNext
<1>3. CASE PollStatus \/ UNCHANGED vars
  BY <1>3, PlayCallsAreCommands DEF PollStatus, vars
<1> QED
  BY <1>1, <1>2, <1>3, OperatorRoutesAreCommands, HandlerGoesOnIsACommand DEF Next

\* No handler, in whatever order the requests come and fail, does more to the
\* controller than the commands RuntimeController implements (its theorem
\* RefinesBoundary); every power within the limits may be asked for, as in
\* set_claw_power.
THEOREM UsesTheBoundary ==
  ASSUME MinClawPower .. MaxClawPower \subseteq Percents
  PROVE  Spec => BoundarySpec
<1>1. Init => BoundaryInit
  BY DEF Init
<1>2. TypeOK /\ [Next]_vars => [BoundaryNext]_boundaryVars
  BY StepsAreCommands DEF BoundaryStep
<1> QED BY <1>1, <1>2, TypeCorrect, PTL DEF Spec, BoundarySpec
=============================================================================
