-------------------------- MODULE ClawMachineProofs --------------------------
(***************************************************************************)
(* What holds of the controller (RuntimeController) and of the machine      *)
(* (ClawMachine) for every set of percentages, durations and faults and     *)
(* every number of plays.                                                   *)
(*                                                                          *)
(* First the controller alone: the invariant IInv of its module is shown to *)
(* be inductive, one part at a time, and its safety properties and the      *)
(* refinement of SafetyBoundary follow.  Then the machine: it implements    *)
(* both of its parts, so both invariants hold of it, and what is added      *)
(* relates the wires as the controller leaves them to the wires as the      *)
(* sketch has seen them.                                                    *)
(***************************************************************************)
EXTENDS ClawMachine, TLAPS

-----------------------------------------------------------------------------
(***************************************************************************)
(* The controller.  Lemmas about the helpers.                               *)
(***************************************************************************)

\* Reconnecting never raises the gate, and outputs that are there afterwards
\* either were there before or have just been created low.
LEMMA ConnectLemma ==
  ASSUME PinTypeOK, Connect
  PROVE  /\ PinTypeOK'
         /\ gate' => gate /\ outputs = Pins
         /\ outputs = Pins => UNCHANGED << outputs, gate, power >>
         /\ outputs # Pins /\ outputs' = Pins => power' = {}
         /\ outputs' \in {{}, Pins}
<1>1. outputs' \in SUBSET Pins
  BY DEF PinTypeOK, Connect
<1>2. gate' \in BOOLEAN
  BY DEF PinTypeOK, Connect
<1>3. power' \in SUBSET PowerPins
  BY DEF PinTypeOK, Connect
<1>4. gate' => gate /\ outputs = Pins
  BY DEF PinTypeOK, Connect
<1>5. /\ outputs = Pins => UNCHANGED << outputs, gate, power >>
      /\ outputs # Pins /\ outputs' = Pins => power' = {}
      /\ outputs' \in {{}, Pins}
  BY DEF PinTypeOK, Connect
<1> QED BY <1>1, <1>2, <1>3, <1>4, <1>5 DEF PinTypeOK

\* Lost pins let go; the others keep their level, and the gate never rises.
LEMMA LoseLemma ==
  ASSUME PinTypeOK, LoseOutputs
  PROVE  /\ PinTypeOK'
         /\ gate' => gate
         /\ outputs' \subseteq outputs /\ outputs' # outputs
         /\ power' \cap outputs' = power \cap outputs'
<1>1. outputs' \subseteq outputs /\ outputs' # outputs
  BY DEF LoseOutputs
<1>2. gate' \in BOOLEAN /\ (gate' => gate)
  BY DEF PinTypeOK, LoseOutputs
<1>3. power' \subseteq PowerPins /\ power' \cap outputs' = power \cap outputs'
  BY DEF LoseOutputs
<1> QED BY <1>1, <1>2, <1>3 DEF PinTypeOK

\* A percentage never becomes level 7.
LEMMA PowerLevelBounds ==
  ASSUME NEW percent \in Int
  PROVE  PowerLevel(percent) \in 0 .. 6
<1> DEFINE level == RoundTenth(Clamp(percent, MinClawPower, MaxClawPower) - MinClawPower)
<1>1. Clamp(percent, MinClawPower, MaxClawPower) \in MinClawPower .. MaxClawPower
  BY DEF Clamp, MinClawPower, MaxClawPower
<1>2. level \in Int
  BY <1>1 DEF RoundTenth, MinClawPower, MaxClawPower
<1> QED BY <1>2 DEF PowerLevel, Clamp

\* A level that is not 7 leaves some pin low.
LEMMA SomePinIsLow ==
  ASSUME NEW level \in 0 .. 6
  PROVE  LevelPins(level) # EndPulseCode
<1>1. \E pin \in PowerPins : pin \notin LevelPins(level)
  <2>1. level \in {0, 1, 2, 3, 4, 5, 6}
    OBVIOUS
  <2> QED BY <2>1 DEF LevelPins, PowerPins, PinWeight
<1>2. \A pin \in PowerPins : pin \in EndPulseCode
  BY DEF EndPulseCode, LevelPins, PowerPins, PinWeight
<1> QED BY <1>1, <1>2

\* Level 0 switches every power pin off.
LEMMA LevelZero == LevelPins(0) = {}
BY DEF LevelPins, PowerPins, PinWeight

\* A power pin is followed by the next one, by the gate or by the reply.
LEMMA WriteOrder ==
  /\ step = "A1" => WriteAfter(step) = "A2"
  /\ step = "A2" => WriteAfter(step) = "A3"
  /\ step = "A3" => WriteAfter(step) = IF command = "CLAW POWER" THEN "reply" ELSE "A0"
BY DEF WriteAfter

\* The end-pulse code can be told from the code of an emergency stop.
LEMMA EndPulseIsNotEmpty == EndPulseCode # {}
BY DEF EndPulseCode, LevelPins, PowerPins, PinWeight

-----------------------------------------------------------------------------
(***************************************************************************)
(* Type correctness.                                                        *)
(***************************************************************************)
\* A free lock holds a well-formed request.
LEMMA NoRequestType == NoRequest \in Request
BY DEF NoRequest, Request, PlayModes

\* Taking the lock keeps its variables well typed.
LEMMA AcquireType ==
  ASSUME NEW who \in Owners, NEW req \in Request, NEW cmd \in Commands,
         Acquire(who, req, cmd)
  PROVE  LockTypeOK'
BY DEF Acquire, LockTypeOK, Steps

\* So does giving it back.
LEMMA ReleaseType == ASSUME Release PROVE LockTypeOK'
BY NoRequestType DEF Release, LockTypeOK, Owners, Commands, Steps

\* The generation counter stays within its bound.
LEMMA NextGenerationType ==
  ASSUME StateTypeOK, NextGeneration
  PROVE  generation' \in 0 .. MaxGeneration
<1>1. generation \in 0 .. MaxGeneration
  BY DEF StateTypeOK
<1> QED BY <1>1, GenerationAssumption DEF NextGeneration

\* _mark_stopped leaves a status, no play and no time.
LEMMA MarkStoppedType ==
  ASSUME NEW newStatus \in Statuses, MarkStopped(newStatus)
  PROVE  /\ status' \in Statuses
         /\ play_mode' \in PlayModes \cup {"none"}
         /\ play_ends_in' \in Nat
BY DEF MarkStopped

\* A new controller is well typed.
LEMMA TypeInit == ControllerInit => TypeOK
<1> SUFFICES ASSUME ControllerInit PROVE TypeOK
  OBVIOUS
<1>1. StateTypeOK
  <2>1. emergency_stopped \in BOOLEAN /\ last_error \in BOOLEAN
    BY DEF ControllerInit
  <2>2. claw_power \in Int /\ generation \in 0 .. MaxGeneration
    BY PercentsAssumption, GenerationAssumption DEF ControllerInit
  <2> QED BY <2>1, <2>2 DEF ControllerInit, StateTypeOK, Statuses, NoThread
<1>2. LockTypeOK
  BY NoRequestType DEF ControllerInit, LockTypeOK, Owners, Commands, Steps
<1>3. PinTypeOK
  BY DEF ControllerInit, PinTypeOK
<1> QED BY <1>1, <1>2, <1>3 DEF TypeOK

\* The parts of the step lemma: the record of the machine, the lock, the pins.
LEMMA StateTypeStep ==
  ASSUME TypeOK, [ControllerNext]_controllerVars
  PROVE  StateTypeOK'
<1> USE PercentsAssumption, TimeAssumption, GenerationAssumption
<1>1. ASSUME NEW mode \in PlayModes, NEW duration \in Durations, NEW startup \in Startups,
             StartPlay(mode, duration, startup)
      PROVE  StateTypeOK'
  BY <1>1 DEF TypeOK, StateTypeOK, StartPlay, machineState
<1>2. CASE StopPlay
  <2>1. generation' \in 0 .. MaxGeneration
    BY <1>2, NextGenerationType DEF TypeOK, StopPlay
  <2> QED BY <1>2, <2>1 DEF TypeOK, StateTypeOK, StopPlay, machineState
<1>3. ASSUME NEW percent \in Percents, SetClawPower(percent)
      PROVE  StateTypeOK'
  BY <1>3 DEF TypeOK, StateTypeOK, SetClawPower, machineState
<1>4. CASE EmergencyStop
  <2>1. generation' \in 0 .. MaxGeneration
    BY <1>4, NextGenerationType DEF TypeOK, EmergencyStop
  <2> QED BY <1>4, <2>1 DEF TypeOK, StateTypeOK, EmergencyStop
<1>5. CASE PollStatus
  BY <1>5 DEF TypeOK, StateTypeOK, PollStatus, machineState
<1>6. ASSUME NEW g \in Generations, AutoStop(g)
      PROVE  StateTypeOK'
  BY <1>6 DEF TypeOK, StateTypeOK, AutoStop, Outdated, NoThread, machineState
<1>7. CASE ConnectForCommand \/ WritePowerPin \/ WriteGate \/ WriteRaises \/ LoseOutputs
  BY <1>7 DEF TypeOK, StateTypeOK, ConnectForCommand, WritePowerPin, WriteGate, WriteRaises,
              LoseOutputs, machineState
<1>8. CASE PowerSentForStart
  BY <1>8 DEF TypeOK, StateTypeOK, PowerSentForStart
<1>9. CASE PlayStarted
  <2>1. request.mode \in PlayModes /\ request.window \in Nat
    BY DEF TypeOK, LockTypeOK, Request
  <2>2. timers' \in [Generations -> Nat \cup {NoThread}]
    BY <1>9, <2>1 DEF TypeOK, StateTypeOK, PlayStarted
  <2>3. generation' \in 0 .. MaxGeneration
    BY <1>9, NextGenerationType DEF TypeOK, PlayStarted
  <2> QED BY <1>9, <2>1, <2>2, <2>3 DEF TypeOK, StateTypeOK, PlayStarted, Statuses
<1>10. CASE PlayStopped \/ EmergencyStopped
  <2>1. emergency_stopped' \in BOOLEAN /\ last_error' \in BOOLEAN
    BY <1>10 DEF PlayStopped, EmergencyStopped, TypeOK, StateTypeOK
  <2>2. /\ status' \in Statuses
        /\ play_mode' \in PlayModes \cup {"none"}
        /\ play_ends_in' \in Nat
    <3>1. "ready" \in Statuses /\ "emergency_stopped" \in Statuses
      BY DEF Statuses
    <3> QED BY <1>10, <3>1, MarkStoppedType DEF PlayStopped, EmergencyStopped
  <2> QED BY <1>10, <2>1, <2>2
             DEF TypeOK, StateTypeOK, PlayStopped, EmergencyStopped
<1>11. CASE ClawPowerSet
  BY <1>11 DEF TypeOK, StateTypeOK, LockTypeOK, Request, ClawPowerSet
<1>12. CASE CommandFailed
  BY <1>12 DEF TypeOK, StateTypeOK, CommandFailed, Statuses
<1>13. CASE Restart
  <2>1. emergency_stopped' \in BOOLEAN /\ last_error' \in BOOLEAN
    BY <1>13 DEF Restart
  <2>2. claw_power' \in Int /\ generation' \in 0 .. MaxGeneration
    BY <1>13 DEF Restart
  <2> QED BY <1>13, <2>1, <2>2 DEF StateTypeOK, Restart, MarkStopped, Statuses, NoThread
<1>14. CASE Tick
  BY <1>14 DEF TypeOK, StateTypeOK, Tick, CountDown, NoThread
<1>15. CASE UNCHANGED controllerVars
  BY <1>15 DEF TypeOK, StateTypeOK, controllerVars, machineState
<1> QED
  BY <1>1, <1>2, <1>3, <1>4, <1>5, <1>6, <1>7, <1>8, <1>9, <1>10, <1>11, <1>12, <1>13,
     <1>14, <1>15
     DEF ControllerNext, ControllerStep, BeginCommand, CommandSteps

\* Every step keeps the types of the lock and its request ...
LEMMA LockTypeStep ==
  ASSUME TypeOK, [ControllerNext]_controllerVars
  PROVE  LockTypeOK'
<1> USE PercentsAssumption, TimeAssumption DEF Owners, Commands
<1>1. ASSUME NEW mode \in PlayModes, NEW duration \in Durations, NEW startup \in Startups,
             StartPlay(mode, duration, startup)
      PROVE  LockTypeOK'
  <2>1. [NoRequest EXCEPT !.mode = mode, !.window = startup + duration] \in Request
    <3>1. startup + duration \in Nat
      BY startup \in Nat, duration \in Nat
    <3> QED BY <3>1, NoRequestType DEF Request, NoRequest
  <2> QED BY <1>1, <2>1, AcquireType DEF StartPlay
<1>2. CASE StopPlay \/ EmergencyStop
  BY <1>2, NoRequestType, AcquireType DEF StopPlay, EmergencyStop
<1>3. ASSUME NEW percent \in Percents, SetClawPower(percent)
      PROVE  LockTypeOK'
  <2>1. [NoRequest EXCEPT !.percent = percent] \in Request
    BY NoRequestType DEF Request, NoRequest
  <2> QED BY <1>3, <2>1, AcquireType DEF SetClawPower
<1>4. CASE PollStatus \/ LoseOutputs \/ Tick \/ UNCHANGED controllerVars
  BY <1>4 DEF TypeOK, LockTypeOK, PollStatus, LoseOutputs, Tick, lockState, controllerVars
<1>5. ASSUME NEW g \in Generations, AutoStop(g)
      PROVE  LockTypeOK'
  <2>1. CASE UNCHANGED lockState
    BY <2>1 DEF TypeOK, LockTypeOK, lockState
  <2>2. CASE Acquire("auto_stop", NoRequest, "PLAY STOP")
    BY <2>2, NoRequestType, AcquireType
  <2> QED BY <1>5, <2>1, <2>2 DEF AutoStop, Outdated
<1>6. CASE ConnectForCommand
  BY <1>6 DEF TypeOK, LockTypeOK, ConnectForCommand, FirstWrite, Steps, PowerPins
<1>7. CASE WritePowerPin \/ WriteGate \/ WriteRaises
  BY <1>7 DEF TypeOK, LockTypeOK, WritePowerPin, WriteGate, WriteRaises, WriteAfter, Steps,
              PowerPins
<1>8. CASE PowerSentForStart
  BY <1>8 DEF TypeOK, LockTypeOK, PowerSentForStart, Steps
<1>9. CASE PlayStarted \/ PlayStopped \/ ClawPowerSet \/ CommandFailed \/ EmergencyStopped
           \/ Restart
  BY <1>9, ReleaseType
     DEF PlayStarted, PlayStopped, ClawPowerSet, CommandFailed, EmergencyStopped, Restart
<1> QED
  BY <1>1, <1>2, <1>3, <1>4, <1>5, <1>6, <1>7, <1>8, <1>9
     DEF ControllerNext, ControllerStep, BeginCommand, CommandSteps

\* ... and those of the outputs and the wires.
LEMMA PinTypeStep ==
  ASSUME TypeOK, [ControllerNext]_controllerVars
  PROVE  PinTypeOK'
<1>1. CASE UNCHANGED << outputs, gate, power >>
  BY <1>1 DEF TypeOK, PinTypeOK
<1>2. CASE Connect
  BY <1>2, ConnectLemma DEF TypeOK
<1>3. CASE WritePowerPin
  BY <1>3 DEF TypeOK, PinTypeOK, WritePowerPin
<1>4. CASE WriteGate
  BY <1>4 DEF TypeOK, PinTypeOK, WriteGate
<1>5. CASE LoseOutputs
  BY <1>5, LoseLemma DEF TypeOK
<1>6. CASE Restart
  BY <1>6 DEF TypeOK, PinTypeOK, Restart
<1> QED
  BY <1>1, <1>2, <1>3, <1>4, <1>5, <1>6
     DEF ControllerNext, ControllerStep, BeginCommand, CommandSteps, StartPlay, StopPlay,
         SetClawPower, EmergencyStop, PollStatus, AutoStop, Outdated, ConnectForCommand, WriteRaises,
         PowerSentForStart, PlayStarted, PlayStopped, ClawPowerSet, CommandFailed,
         EmergencyStopped, ReplyIs, Tick, controllerVars, wires

\* The three parts together.
LEMMA TypeStep == TypeOK /\ [ControllerNext]_controllerVars => TypeOK'
BY StateTypeStep, LockTypeStep, PinTypeStep DEF TypeOK

\* Every variable of the controller, its threads, its lock and its pins keeps
\* its type.
THEOREM TypeCorrect == ControllerSpec => []TypeOK
<1>1. ControllerInit => TypeOK
  BY TypeInit
<1>2. TypeOK /\ [ControllerNext]_controllerVars => TypeOK'
  BY TypeStep
<1> QED BY <1>1, <1>2, PTL DEF ControllerSpec

-----------------------------------------------------------------------------
(***************************************************************************)
(* The inductive invariant.                                                 *)
(***************************************************************************)
\* What the validator granted a command stays granted until it releases the lock.
LEMMA LockStep ==
  ASSUME IInv, [ControllerNext]_controllerVars
  PROVE  LockInv'
<1> USE DEF IInv, LockInv
<1>1. ASSUME NEW mode \in PlayModes, NEW duration \in Durations, NEW startup \in Startups,
             StartPlay(mode, duration, startup)
      PROVE  LockInv'
  BY <1>1 DEF StartPlay, Acquire, machineState
<1>2. CASE StopPlay
  BY <1>2 DEF StopPlay, Acquire, machineState
<1>3. ASSUME NEW percent \in Percents, SetClawPower(percent)
      PROVE  LockInv'
  <2>1. request'.percent = percent
    BY <1>3 DEF SetClawPower, Acquire, NoRequest
  <2> QED BY <1>3, <2>1 DEF SetClawPower, Acquire, machineState
<1>4. CASE EmergencyStop
  BY <1>4 DEF EmergencyStop, Acquire
<1>5. CASE PollStatus \/ LoseOutputs \/ Tick \/ UNCHANGED controllerVars
  <2>1. UNCHANGED << owner, request, command, step, reply_ok, emergency_stopped,
                    play_mode >>
    BY <1>5 DEF PollStatus, LoseOutputs, Tick, controllerVars, machineState, lockState
  <2> QED BY <2>1
<1>6. ASSUME NEW g \in Generations, AutoStop(g)
      PROVE  LockInv'
  <2>1. CASE UNCHANGED lockState
    BY <1>6, <2>1 DEF AutoStop, Outdated, machineState, lockState
  <2>2. CASE g = generation /\ play_mode # "none"
             /\ Acquire("auto_stop", NoRequest, "PLAY STOP")
    BY <1>6, <2>2 DEF AutoStop, Outdated, Acquire, machineState
  <2> QED BY <1>6, <2>1, <2>2 DEF AutoStop, Outdated
<1>7. CASE ConnectForCommand
  BY <1>7 DEF ConnectForCommand, FirstWrite, machineState
<1>8. CASE WritePowerPin \/ WriteGate \/ WriteRaises
  <2>1. UNCHANGED << owner, request, command, emergency_stopped, play_mode >>
    BY <1>8 DEF WritePowerPin, WriteGate, WriteRaises, machineState
  <2>2. step # "idle" /\ step' # "idle"
    BY <1>8, WriteOrder DEF WritePowerPin, WriteGate, WriteRaises, PowerPins, Pins
  <2>3. step' # "reply" => reply_ok'
    BY <1>8 DEF WritePowerPin, WriteGate, WriteRaises, PowerPins, Pins
  <2> QED BY <2>1, <2>2, <2>3
<1>9. CASE PowerSentForStart
  BY <1>9 DEF PowerSentForStart, ReplyIs
<1>10. CASE PlayStarted \/ ClawPowerSet
  <2>1. owner' = "nobody" /\ step' = "idle" /\ command' = "none" /\ reply_ok'
    BY <1>10 DEF PlayStarted, ClawPowerSet, Release
  <2>2. ~emergency_stopped /\ emergency_stopped' = emergency_stopped
    BY <1>10 DEF PlayStarted, ClawPowerSet, ReplyIs
  <2> QED BY <2>1, <2>2
<1>11. CASE PlayStopped \/ EmergencyStopped
  BY <1>11 DEF PlayStopped, EmergencyStopped, ReplyIs, Release, MarkStopped
<1>12. CASE CommandFailed
  BY <1>12 DEF CommandFailed, ReplyIs, Release
<1>13. CASE Restart
  BY <1>13 DEF Restart, Release, MarkStopped
<1> QED
  BY <1>1, <1>2, <1>3, <1>4, <1>5, <1>6, <1>7, <1>8, <1>9, <1>10, <1>11, <1>12, <1>13
     DEF ControllerNext, ControllerStep, BeginCommand, CommandSteps

\* Every step leaves somebody to answer for a low gate, and a stop that reached its
\* reply without an error has released it.
LEMMA GateStep ==
  ASSUME IInv, [ControllerNext]_controllerVars
  PROVE  GateInv'
<1> USE DEF IInv, TypeOK, LockInv, GateInv
<1>1. ASSUME NEW mode \in PlayModes, NEW duration \in Durations, NEW startup \in Startups,
             StartPlay(mode, duration, startup)
      PROVE  GateInv'
  BY <1>1 DEF StartPlay, Acquire, machineState, wires
<1>2. CASE StopPlay
  BY <1>2 DEF StopPlay, Acquire, machineState, wires
<1>3. ASSUME NEW percent \in Percents, SetClawPower(percent)
      PROVE  GateInv'
  BY <1>3 DEF SetClawPower, Acquire, machineState, wires
<1>4. CASE EmergencyStop
  BY <1>4 DEF EmergencyStop, Acquire
<1>5. CASE PollStatus
  <2>1. gate' => gate /\ outputs # {}
    BY <1>5, ConnectLemma DEF PollStatus, Pins
  <2> QED BY <1>5, <2>1 DEF PollStatus, machineState, lockState
<1>6. ASSUME NEW g \in Generations, AutoStop(g)
      PROVE  GateInv'
  <2>1. CASE UNCHANGED lockState
    BY <1>6, <2>1 DEF AutoStop, Outdated, machineState, lockState, wires
  <2>2. CASE Acquire("auto_stop", NoRequest, "PLAY STOP") /\ play_mode # "none"
    BY <1>6, <2>2 DEF AutoStop, Outdated, Acquire, machineState, wires
  <2> QED BY <1>6, <2>1, <2>2 DEF AutoStop, Outdated
<1>7. CASE ConnectForCommand
  <2>1. gate' => gate /\ outputs = Pins /\ outputs' = Pins
    BY <1>7, ConnectLemma DEF ConnectForCommand
  <2>2. ~(step' = "reply" /\ reply_ok' /\ outputs' = Pins)
    BY <1>7 DEF ConnectForCommand, FirstWrite
  <2>3. outputs' # Pins => ~gate'
    BY <2>1
  <2>4. outputs = Pins => outputs # {}
    BY DEF Pins
  <2> QED BY <1>7, <2>1, <2>2, <2>3, <2>4 DEF ConnectForCommand, machineState
<1>8. CASE WritePowerPin
  <2>1. UNCHANGED << play_mode, owner, emergency_stopped, last_error, command, outputs,
                    gate, reply_ok >>
    BY <1>8 DEF WritePowerPin, machineState
  <2>2. step # "reply" /\ (step' = "reply" => command = "CLAW POWER")
    BY <1>8, WriteOrder DEF WritePowerPin, PowerPins
  <2> QED BY <2>1, <2>2
<1>9. CASE WriteGate
  <2>1. UNCHANGED << command, reply_ok >> /\ step' = "reply"
    BY <1>9 DEF WriteGate
  <2>2. gate' <=> command = "PLAY START"
    BY <1>9 DEF WriteGate
  <2>3. command = "PLAY START" => reply_ok
    BY <1>9 DEF WriteGate
  <2> QED BY <2>1, <2>2, <2>3
<1>10. CASE WriteRaises
  BY <1>10 DEF WriteRaises, machineState, wires, Pins, PowerPins
<1>11. CASE PowerSentForStart
  <2>1. ~gate'
    BY <1>11, ConnectLemma DEF PowerSentForStart, ReplyIs, Pins
  <2> QED BY <1>11, <2>1 DEF PowerSentForStart
<1>12. CASE PlayStarted
  <2>1. play_mode' # "none" /\ command' = "none"
    BY <1>12 DEF PlayStarted, Release, LockTypeOK, Request, PlayModes
  <2> QED BY <2>1
<1>13. CASE PlayStopped
  <2>1. ~gate'
    BY <1>13, ConnectLemma DEF PlayStopped, ReplyIs
  <2> QED BY <1>13, <2>1 DEF PlayStopped
<1>14. CASE ClawPowerSet
  <2>1. gate' => gate /\ outputs # {}
    BY <1>14, ConnectLemma DEF ClawPowerSet, ReplyIs, Pins
  <2> QED BY <1>14, <2>1 DEF ClawPowerSet, ReplyIs, Release
<1>15. CASE CommandFailed
  <2>1. gate' => gate /\ outputs # {}
    BY <1>15, ConnectLemma DEF CommandFailed, ReplyIs, Pins
  <2> QED BY <1>15, <2>1 DEF CommandFailed, ReplyIs, Release
<1>16. CASE EmergencyStopped
  <2>1. gate' => gate /\ outputs # {}
    BY <1>16, ConnectLemma DEF EmergencyStopped, ReplyIs, Pins
  <2>2. reply_ok => ~gate
    BY <1>16 DEF EmergencyStopped, ReplyIs
  <2> QED BY <1>16, <2>1, <2>2 DEF EmergencyStopped, ReplyIs, Release
<1>17. CASE LoseOutputs
  <2>1. (gate' => gate) /\ (outputs' # {} => outputs # {})
    BY <1>17, LoseLemma
  <2> QED BY <1>17, <2>1 DEF LoseOutputs, machineState, lockState
<1>18. CASE Restart
  BY <1>18 DEF Restart, Release
<1>19. CASE Tick \/ UNCHANGED controllerVars
  <2>1. UNCHANGED << play_mode, owner, emergency_stopped, last_error, command, step,
                    outputs, gate, reply_ok >>
    BY <1>19 DEF Tick, controllerVars, machineState, lockState, wires
  <2> QED BY <2>1
<1> QED
  BY <1>1, <1>2, <1>3, <1>4, <1>5, <1>6, <1>7, <1>8, <1>9, <1>10, <1>11, <1>12, <1>13,
     <1>14, <1>15, <1>16, <1>17, <1>18, <1>19
     DEF ControllerNext, ControllerStep, BeginCommand, CommandSteps

\* A counter that moves on leaves every thread behind.
LEMMA NewGenerationHasNoThread ==
  ASSUME generation \in 0 .. MaxGeneration, NextGeneration, UNCHANGED timers,
         \A g \in Generations : g > generation => timers[g] = NoThread
  PROVE  /\ ~ThreadLives(generation)'
         /\ (\A g \in Generations : g > generation => timers[g] = NoThread)'
<1>1. generation' = generation + 1 /\ generation \in Int
  BY DEF NextGeneration
<1>2. \A g \in Generations : g \in Int /\ (g >= generation + 1 => g > generation)
  BY <1>1 DEF Generations
<1> QED BY <1>1, <1>2 DEF ThreadLives

\* Threads are never ahead of the counter, and the current one agrees with
\* play_ends_in.
LEMMA ThreadStep ==
  ASSUME IInv, [ControllerNext]_controllerVars
  PROVE  ThreadInv'
<1>a. /\ generation \in 0 .. MaxGeneration /\ play_ends_in \in Nat
      /\ timers \in [Generations -> Nat \cup {NoThread}]
  BY DEF IInv, TypeOK, StateTypeOK
<1>b. \A g \in Generations : g > generation => timers[g] = NoThread
  BY DEF IInv, ThreadInv
<1>c. status = "running" =>
        play_mode # "none" /\ (owner \in {"nobody", "power"} => ThreadLives(generation))
  BY DEF IInv, ThreadInv
<1>d. play_mode # "none" /\ ThreadLives(generation) => play_ends_in = timers[generation]
  BY DEF IInv, ThreadInv
<1>e. owner = "auto_stop" => play_ends_in = 0
  BY DEF IInv, ThreadInv
<1>f. owner \in {"stop", "auto_stop"} => ~ThreadLives(generation)
  BY DEF IInv, ThreadInv
<1>g. owner = "start" => play_mode = "none"
  BY DEF IInv, LockInv
<1>1. ASSUME UNCHANGED << status, play_mode, play_ends_in, generation, timers, owner >>
      PROVE  ThreadInv'
  BY <1>1, <1>b, <1>c, <1>d, <1>e, <1>f DEF ThreadInv, ThreadLives
<1>2. ASSUME NEW mode \in PlayModes, NEW duration \in Durations, NEW startup \in Startups,
             StartPlay(mode, duration, startup)
      PROVE  ThreadInv'
  <2>1. owner' = "start" /\ play_mode' = "none"
        /\ UNCHANGED << status, play_mode, generation, timers >>
    BY <1>2 DEF StartPlay, Acquire, machineState
  <2> QED BY <2>1, <1>b, <1>c DEF ThreadInv, ThreadLives
<1>3. CASE StopPlay \/ EmergencyStop
  <2>1. NextGeneration /\ UNCHANGED << status, play_mode, play_ends_in, timers >>
    BY <1>3 DEF StopPlay, EmergencyStop, machineState
  <2>2. owner' \in {"stop", "emergency"}
    BY <1>3 DEF StopPlay, EmergencyStop, Acquire
  <2>3. /\ ~ThreadLives(generation)'
        /\ (\A g \in Generations : g > generation => timers[g] = NoThread)'
    BY <2>1, <1>a, <1>b, NewGenerationHasNoThread
  <2> QED BY <2>1, <2>2, <2>3, <1>c DEF ThreadInv
<1>4. ASSUME NEW percent \in Percents, SetClawPower(percent)
      PROVE  ThreadInv'
  <2>1. owner = "nobody" /\ owner' = "power"
        /\ UNCHANGED << status, play_mode, play_ends_in, generation, timers >>
    BY <1>4 DEF SetClawPower, Acquire, machineState
  <2> QED BY <2>1, <1>b, <1>c, <1>d DEF ThreadInv, ThreadLives
<1>5. ASSUME NEW g \in Generations, AutoStop(g)
      PROVE  ThreadInv'
  <2>1. /\ timers[g] = 0 /\ timers' = [timers EXCEPT ![g] = NoThread]
        /\ owner = "nobody" /\ UNCHANGED << status, play_mode, play_ends_in, generation >>
    BY <1>5 DEF AutoStop, Outdated, machineState
  <2>2. (\A h \in Generations : h > generation => timers[h] = NoThread)'
    BY <2>1, <1>a, <1>b
  <2>3. CASE g # generation \/ play_mode = "none"
    <3>1. owner' = "nobody"
      BY <1>5, <2>1, <2>3 DEF AutoStop, Outdated, lockState
    <3>2. g # generation =>
            /\ ThreadLives(generation)' <=> ThreadLives(generation)
            /\ generation \in Generations => timers'[generation'] = timers[generation]
      BY <2>1, <1>a DEF ThreadLives
    <3>3. CASE play_mode = "none"
      BY <3>1, <3>3, <2>1, <2>2, <1>c DEF ThreadInv
    <3>4. CASE g # generation
      <4>1. ThreadLives(generation)' => generation \in Generations
        BY <2>1 DEF ThreadLives
      <4> QED BY <3>1, <3>2, <3>4, <4>1, <2>1, <2>2, <1>c, <1>d DEF ThreadInv
    <3> QED BY <2>3, <3>3, <3>4
  <2>4. CASE g = generation /\ play_mode # "none"
    <3>1. owner' = "auto_stop"
      BY <1>5, <2>4 DEF AutoStop, Outdated, Acquire
    <3>2. play_ends_in = 0
      BY <2>1, <2>4, <1>d DEF ThreadLives, NoThread
    <3>3. ~ThreadLives(generation)'
      BY <2>1, <2>4, <1>a DEF ThreadLives
    <3> QED BY <2>1, <2>2, <2>4, <3>1, <3>2, <3>3 DEF ThreadInv
  <2> QED BY <2>3, <2>4
<1>6. CASE PlayStarted
  <2>1. /\ generation < MaxGeneration /\ generation' = generation + 1
        /\ timers' = [timers EXCEPT ![generation + 1] = request.window]
        /\ play_ends_in' = request.window /\ play_mode' = request.mode /\ owner' = "nobody"
    BY <1>6 DEF PlayStarted, NextGeneration, Release
  <2>2. generation + 1 \in Generations
    BY <2>1, <1>a, GenerationAssumption DEF Generations
  <2>3. request.window \in Nat /\ request.mode \in PlayModes
    BY DEF IInv, TypeOK, LockTypeOK, Request
  <2>4. play_mode' # "none"
    BY <2>1, <2>3 DEF PlayModes
  <2>5. timers'[generation'] = request.window
    BY <2>1, <2>2, <1>a
  <2>6. ThreadLives(generation)'
    BY <2>1, <2>2, <2>3, <2>5 DEF ThreadLives, NoThread
  <2>7. (\A g \in Generations : g > generation => timers[g] = NoThread)'
    <3> SUFFICES ASSUME NEW g \in Generations, g > generation + 1
                 PROVE  timers'[g] = NoThread
      BY <2>1
    <3>1. g # generation + 1 /\ g > generation
      BY <1>a DEF Generations
    <3> QED BY <3>1, <2>1, <1>a, <1>b
  <2> QED BY <2>1, <2>4, <2>5, <2>6, <2>7 DEF ThreadInv
<1>7. CASE PlayStopped \/ EmergencyStopped \/ Restart
  <2>1. status' # "running" /\ play_mode' = "none"
    BY <1>7 DEF PlayStopped, EmergencyStopped, Restart, MarkStopped
  <2>2. owner' = "nobody"
    BY <1>7 DEF PlayStopped, EmergencyStopped, Restart, Release
  <2>3. (\A g \in Generations : g > generation => timers[g] = NoThread)'
    BY <1>7, <1>b DEF PlayStopped, EmergencyStopped, Restart
  <2> QED BY <2>1, <2>2, <2>3 DEF ThreadInv
<1>8. CASE ClawPowerSet
  <2>1. owner = "power" /\ owner' = "nobody"
        /\ UNCHANGED << status, play_mode, play_ends_in, generation, timers >>
    BY <1>8 DEF ClawPowerSet, ReplyIs, Release
  <2> QED BY <2>1, <1>b, <1>c, <1>d DEF ThreadInv, ThreadLives
<1>9. CASE CommandFailed
  <2>1. status' # "running" /\ owner' = "nobody"
        /\ UNCHANGED << play_mode, play_ends_in, generation, timers >>
    BY <1>9 DEF CommandFailed, Release
  <2> QED BY <2>1, <1>b, <1>d DEF ThreadInv, ThreadLives
<1>10. CASE Tick
  <2>1. /\ \A g \in Generations : timers'[g] = CountDown(timers[g])
        /\ play_ends_in' = CountDown(play_ends_in)
        /\ UNCHANGED << status, play_mode, generation, owner >>
    BY <1>10 DEF Tick, lockState
  <2>2. \A g \in Generations : timers'[g] = NoThread <=> timers[g] = NoThread
    BY <2>1, <1>a DEF CountDown, NoThread
  <2>3. ThreadLives(generation)' <=> ThreadLives(generation)
    BY <2>1, <2>2 DEF ThreadLives
  <2>4. play_mode' # "none" /\ ThreadLives(generation)' => play_ends_in' = timers'[generation']
    BY <2>1, <2>3, <1>d DEF ThreadLives
  <2>5. owner' = "auto_stop" => play_ends_in' = 0
    BY <2>1, <1>e DEF CountDown
  <2>6. (\A g \in Generations : g > generation => timers[g] = NoThread)'
    BY <2>1, <2>2, <1>b
  <2> QED BY <2>1, <2>3, <2>4, <2>5, <2>6, <1>c, <1>f DEF ThreadInv
<1> QED
  BY <1>1, <1>2, <1>3, <1>4, <1>5, <1>6, <1>7, <1>8, <1>9, <1>10
     DEF ControllerNext, ControllerStep, BeginCommand, CommandSteps, PollStatus,
         ConnectForCommand, WritePowerPin, WriteGate, WriteRaises, PowerSentForStart,
         LoseOutputs, controllerVars, machineState, lockState, ReplyIs

\* The pins written so far and not lost since keep their target levels.
LEMMA PinsStep ==
  ASSUME IInv, [ControllerNext]_controllerVars
  PROVE  PinsInv'
<1>a. PinTypeOK /\ LockInv /\ PinsInv
  BY DEF IInv, TypeOK
<1>1. ASSUME UNCHANGED << outputs, power, step, command, reply_ok, owner, request, claw_power >>
      PROVE  PinsInv'
  <2>1. UNCHANGED TargetPins
    BY <1>1 DEF TargetPins
  <2> QED BY <1>1, <2>1, <1>a DEF PinsInv
\* Commands that have not begun to write, or have ended.
<1>2. ASSUME step' \in {"connect", "idle"}, command' # "PLAY START"
      PROVE  PinsInv'
  BY <1>2 DEF PinsInv, PowerPins
<1>3. ASSUME NEW mode \in PlayModes, NEW duration \in Durations, NEW startup \in Startups,
             StartPlay(mode, duration, startup)
      PROVE  PinsInv'
  BY <1>3, <1>2 DEF StartPlay, Acquire
<1>4. CASE StopPlay \/ EmergencyStop
  BY <1>4, <1>2 DEF StopPlay, EmergencyStop, Acquire
<1>5. ASSUME NEW percent \in Percents, SetClawPower(percent)
      PROVE  PinsInv'
  BY <1>5, <1>2 DEF SetClawPower, Acquire
<1>6. CASE PollStatus
  BY <1>6, <1>2, <1>a DEF PollStatus, LockInv, lockState
<1>7. ASSUME NEW g \in Generations, AutoStop(g)
      PROVE  PinsInv'
  <2>1. CASE UNCHANGED lockState
    BY <1>7, <2>1, <1>2, <1>a DEF AutoStop, Outdated, LockInv, lockState
  <2>2. CASE Acquire("auto_stop", NoRequest, "PLAY STOP")
    BY <2>2, <1>2 DEF Acquire
  <2> QED BY <1>7, <2>1, <2>2 DEF AutoStop, Outdated
<1>8. CASE ConnectForCommand
  <2>1. /\ step = "connect" /\ Connect
        /\ UNCHANGED << command, owner, request, claw_power >>
    BY <1>8 DEF ConnectForCommand, machineState
  <2>2. UNCHANGED TargetPins
    BY <2>1 DEF TargetPins
  <2>3. CASE outputs' = Pins
    <3>1. step' = IF command = "PLAY START" THEN "A0" ELSE "A1"
      BY <1>8, <2>3 DEF ConnectForCommand, FirstWrite
    <3>2. command = "PLAY START" =>
            power' \cap outputs' \in {TargetPins \cap outputs', {}}
      BY <2>1, <2>3, <1>a, ConnectLemma DEF PinsInv
    <3> QED BY <2>1, <2>2, <2>3, <3>1, <3>2 DEF PinsInv, PowerPins
  <2>4. CASE outputs' # Pins
    <3>1. step' = "reply" /\ outputs' = {}
      BY <1>8, <2>1, <2>4, <1>a, ConnectLemma DEF ConnectForCommand
    <3> QED BY <3>1 DEF PinsInv, PowerPins
  <2> QED BY <2>3, <2>4
<1>9. CASE WritePowerPin
  <2>1. /\ step \in PowerPins /\ step' = WriteAfter(step)
        /\ power' = IF step \in TargetPins THEN power \cup {step} ELSE power \ {step}
        /\ UNCHANGED << command, owner, request, claw_power, outputs, reply_ok >>
    BY <1>9 DEF WritePowerPin, machineState
  <2>2. UNCHANGED TargetPins
    BY <2>1 DEF TargetPins
  <2>3. /\ step \in power' <=> step \in TargetPins
        /\ \A pin \in PowerPins \ {step} : pin \in power' <=> pin \in power
    BY <2>1
  <2>4. command # "PLAY START"
    BY <2>1, <1>a DEF PinsInv
  <2>5. step \in {"A2", "A3"} =>
          \A pin \in WrittenBefore(step) \cap outputs : pin \in power <=> pin \in TargetPins
    BY <2>1, <2>4, <1>a DEF PinsInv
  <2>6. CASE step = "A1"
    <3>1. step' = "A2"
      BY <2>1, <2>6, WriteOrder
    <3> QED BY <2>1, <2>2, <2>3, <2>4, <2>6, <3>1 DEF PinsInv, WrittenBefore, PowerPins
  <2>7. CASE step = "A2"
    <3>1. step' = "A3"
      BY <2>1, <2>7, WriteOrder
    <3>2. "A1" \in outputs => ("A1" \in power' <=> "A1" \in TargetPins)
      BY <2>3, <2>5, <2>7 DEF WrittenBefore, PowerPins
    <3> QED BY <2>1, <2>2, <2>3, <2>4, <2>7, <3>1, <3>2
               DEF PinsInv, WrittenBefore, PowerPins
  <2>8. CASE step = "A3"
    <3>1. step' = IF command = "CLAW POWER" THEN "reply" ELSE "A0"
      BY <2>1, <2>8, WriteOrder
    <3>2. \A pin \in PowerPins \cap outputs : pin \in power' <=> pin \in TargetPins
      BY <2>3, <2>5, <2>8 DEF WrittenBefore, PowerPins
    <3>3. power' \subseteq PowerPins /\ TargetPins \subseteq PowerPins
      BY <2>1, <1>a DEF PinTypeOK, TargetPins, EndPulseCode, LevelPins
    <3>4. power' \cap outputs = TargetPins \cap outputs
      BY <3>2, <3>3
    <3> QED BY <2>1, <2>2, <2>4, <3>1, <3>2, <3>4 DEF PinsInv, WrittenBefore, PowerPins
  <2> QED BY <2>1, <2>6, <2>7, <2>8 DEF PowerPins
<1>10. CASE WriteGate \/ WriteRaises
  <2>1. /\ step \in Pins /\ step' = "reply"
        /\ UNCHANGED << command, owner, request, claw_power, outputs, power >>
    BY <1>10 DEF WriteGate, WriteRaises, machineState, wires, Pins
  <2>2. UNCHANGED TargetPins
    BY <2>1 DEF TargetPins
  <2>3. command = "CLAW POWER" => ~reply_ok'
    BY <1>10, <1>a DEF WriteGate, WriteRaises, PinsInv
  <2> QED BY <2>1, <2>2, <2>3, <1>a DEF PinsInv, PowerPins
<1>11. CASE PowerSentForStart
  <2>1. /\ step = "reply" /\ reply_ok /\ owner = "start" /\ command = "CLAW POWER" /\ Connect
        /\ command' = "PLAY START" /\ step' = "connect"
        /\ UNCHANGED << owner, request, claw_power >>
    BY <1>11 DEF PowerSentForStart, ReplyIs
  <2>2. UNCHANGED TargetPins
    BY <2>1 DEF TargetPins
  <2>3. power \cap outputs = TargetPins \cap outputs
    BY <2>1, <1>a DEF PinsInv
  <2>4. power' \cap outputs' \in {TargetPins \cap outputs', {}}
    BY <2>1, <2>3, <1>a, ConnectLemma
  <2> QED BY <2>1, <2>2, <2>4 DEF PinsInv, PowerPins
<1>12. CASE PlayStarted \/ PlayStopped \/ ClawPowerSet \/ CommandFailed \/ EmergencyStopped
            \/ Restart
  BY <1>12, <1>2
     DEF PlayStarted, PlayStopped, ClawPowerSet, CommandFailed, EmergencyStopped, Restart,
         Release
<1>13. CASE LoseOutputs
  <2>1. UNCHANGED << step, command, reply_ok, owner, request, claw_power >>
    BY <1>13 DEF LoseOutputs, machineState, lockState
  <2>2. UNCHANGED TargetPins
    BY <2>1 DEF TargetPins
  <2>3. outputs' \subseteq outputs /\ power' \cap outputs' = power \cap outputs'
    BY <1>13, <1>a, LoseLemma
  <2>4. \A pin \in outputs' : pin \in power' <=> pin \in power
    BY <2>3
  <2>5. ASSUME step \in {"A2", "A3", "A0"}, command # "PLAY START"
        PROVE  \A pin \in WrittenBefore(step) \cap outputs' :
                 pin \in power' <=> pin \in TargetPins
    BY <2>3, <2>4, <2>5, <1>a DEF PinsInv
  <2>6. ASSUME step = "reply", reply_ok, command = "CLAW POWER"
        PROVE  power' \cap outputs' = TargetPins \cap outputs'
    BY <2>3, <2>6, <1>a DEF PinsInv
  <2>7. ASSUME command = "PLAY START"
        PROVE  power' \cap outputs' \in {TargetPins \cap outputs', {}}
    BY <2>3, <2>7, <1>a DEF PinsInv
  <2> QED BY <2>1, <2>2, <2>5, <2>6, <2>7, <1>a DEF PinsInv, WrittenBefore
<1>14. CASE Tick \/ UNCHANGED controllerVars
  BY <1>14, <1>1 DEF Tick, controllerVars, machineState, lockState, wires
<1> QED
  BY <1>3, <1>4, <1>5, <1>6, <1>7, <1>8, <1>9, <1>10, <1>11, <1>12, <1>13, <1>14
     DEF ControllerNext, ControllerStep, BeginCommand, CommandSteps

\* A new controller satisfies the invariant.
LEMMA InductiveInit == ControllerInit => IInv
<1> SUFFICES ASSUME ControllerInit PROVE IInv
  OBVIOUS
<1>1. LockInv
  BY DEF ControllerInit, LockInv
<1>2. GateInv
  BY DEF ControllerInit, GateInv
<1>3. ThreadInv
  BY DEF ControllerInit, ThreadInv
<1>4. PinsInv
  BY DEF ControllerInit, PinsInv, PowerPins
<1> QED BY <1>1, <1>2, <1>3, <1>4, TypeInit DEF IInv

\* The parts of IInv hold initially and every step preserves them together.
THEOREM Inductive == ControllerSpec => []IInv
<1>1. ControllerInit => IInv
  BY InductiveInit
<1>2. IInv /\ [ControllerNext]_controllerVars => IInv'
  BY TypeStep, LockStep, GateStep, ThreadStep, PinsStep DEF IInv
<1> QED BY <1>1, <1>2, PTL DEF ControllerSpec

-----------------------------------------------------------------------------
(***************************************************************************)
(* The safety properties.                                                   *)
(***************************************************************************)

\* A controller that reports no play has released the gate: no interleaving of
\* commands, threads and faults leaves A0 low behind a stopped machine, except
\* an emergency stop that failed and shows its error.
THEOREM StoppedIsReleased == ControllerSpec => []StoppedMeansReleased
<1>1. IInv => StoppedMeansReleased
  BY DEF IInv, LockInv, GateInv, StoppedMeansReleased
<1> QED BY <1>1, Inductive, PTL

\* Every play reported as running has an auto-stop thread of its own.
THEOREM RunningHasAThread == ControllerSpec => []RunningIsSupervised
<1>1. IInv => RunningIsSupervised
  BY DEF IInv, ThreadInv, RunningIsSupervised
<1> QED BY <1>1, Inductive, PTL

\* Only WriteGate, LoseOutputs, Restart and a reconnect touch the gate, and only
\* WriteGate for PLAY START pulls it low.
LEMMA GateRises ==
  ASSUME IInv, [ControllerNext]_controllerVars, ~gate, gate'
  PROVE  WriteGate /\ command = "PLAY START"
<1>1. PinTypeOK
  BY DEF IInv, TypeOK
<1>2. ~Connect
  BY <1>1, ConnectLemma
<1>3. ~LoseOutputs /\ ~Restart
  BY <1>1, LoseLemma DEF Restart, PinTypeOK
<1>4. gate' # gate
  OBVIOUS
<1>5. WriteGate
  BY <1>2, <1>3, <1>4
     DEF ControllerNext, ControllerStep, BeginCommand, CommandSteps, StartPlay, StopPlay,
         SetClawPower, EmergencyStop, PollStatus, AutoStop, Outdated, ConnectForCommand, WritePowerPin,
         WriteRaises, PowerSentForStart, PlayStarted, PlayStopped, ClawPowerSet,
         CommandFailed, EmergencyStopped, ReplyIs, Tick, controllerVars, wires
<1> QED BY <1>5 DEF WriteGate

\* The step of GateOpensSafely, from the invariant.
LEMMA OpensSafely ==
  ASSUME IInv, [ControllerNext]_controllerVars, ~gate, gate'
  PROVE  /\ owner = "start" /\ ~emergency_stopped /\ play_mode = "none"
         /\ power \cap outputs \in {LevelPins(PowerLevel(claw_power)) \cap outputs, {}}
         /\ outputs = Pins => power # EndPulseCode
<1>1. step = "A0" /\ command = "PLAY START"
  BY GateRises DEF WriteGate
<1>2. owner = "start" /\ ~emergency_stopped /\ play_mode = "none"
  <2>1. owner \in Owners
    BY DEF IInv, TypeOK, LockTypeOK
  <2> QED BY <1>1, <2>1 DEF IInv, LockInv, Owners
<1>3. TargetPins = LevelPins(PowerLevel(claw_power))
  BY <1>1, <1>2 DEF TargetPins
<1>4. power \cap outputs \in {LevelPins(PowerLevel(claw_power)) \cap outputs, {}}
  BY <1>1, <1>3 DEF IInv, PinsInv
<1>5. claw_power \in Int
  BY DEF IInv, TypeOK, StateTypeOK
<1>6. LevelPins(PowerLevel(claw_power)) # EndPulseCode
  BY <1>5, PowerLevelBounds, SomePinIsLow
<1>7. ASSUME outputs = Pins PROVE power # EndPulseCode
  <2>1. power \subseteq outputs
    BY <1>7 DEF IInv, TypeOK, PinTypeOK, Pins
  <2>2. LevelPins(PowerLevel(claw_power)) \subseteq outputs
    BY <1>7 DEF LevelPins, Pins
  <2>3. power \in {LevelPins(PowerLevel(claw_power)), {}}
    BY <1>4, <2>1, <2>2
  <2> QED BY <1>6, <2>3, EndPulseIsNotEmpty
<1> QED BY <1>2, <1>4, <1>7

\* The gate is pulled low for accepted starts only, with every one of A1-A3 that
\* the adapter still drives as the start set it, although send_command looks at the
\* pins only once and writes each on its own.
THEOREM GateSafety == ControllerSpec => GateOpensSafely
<1>1. IInv /\ [ControllerNext]_controllerVars =>
        [~gate /\ gate' =>
           /\ owner = "start" /\ ~emergency_stopped /\ play_mode = "none"
           /\ power \cap outputs \in {LevelPins(PowerLevel(claw_power)) \cap outputs, {}}
           /\ outputs = Pins => power # EndPulseCode]_controllerVars
  BY OpensSafely
<1> QED BY <1>1, Inductive, PTL DEF ControllerSpec, GateOpensSafely

\* However late its thread wakes, a play is ended by the thread only when its own
\* window is over: the generation counter keeps older threads away from it.
THEOREM NeverCutShort == ControllerSpec => NotCutShort
<1>1. IInv /\ [ControllerNext]_controllerVars =>
        [owner = "auto_stop" /\ gate /\ ~gate' => play_ends_in = 0]_controllerVars
  BY DEF IInv, ThreadInv
<1> QED BY <1>1, Inductive, PTL DEF ControllerSpec, NotCutShort

\* The step of ReleaseCarriesItsCode, from the invariant.
LEMMA ReleaseCode ==
  ASSUME IInv, [ControllerNext]_controllerVars, step = "A0", gate, ~gate', "A0" \in outputs'
  PROVE  power \cap outputs =
           (IF owner = "emergency" THEN {} ELSE EndPulseCode) \cap outputs
<1>1. PinTypeOK /\ LockTypeOK /\ LockInv /\ PinsInv
  BY DEF IInv, TypeOK
<1>2. WriteGate
  <2>1. owner # "nobody"
    BY <1>1 DEF LockInv
  <2>2. gate' # gate
    OBVIOUS
  <2> QED BY <2>1, <2>2
     DEF ControllerNext, ControllerStep, BeginCommand, CommandSteps, StartPlay, StopPlay,
         SetClawPower, EmergencyStop, PollStatus, AutoStop, Outdated, ConnectForCommand, WritePowerPin,
         WriteRaises, PowerSentForStart, PlayStarted, PlayStopped, ClawPowerSet,
         CommandFailed, EmergencyStopped, ReplyIs, Tick, LoseOutputs, Restart, Acquire,
         PowerPins, controllerVars, machineState, wires
<1>3. command \notin {"PLAY START", "CLAW POWER"}
  BY <1>1, <1>2 DEF WriteGate, PinsInv
<1>4. \A pin \in PowerPins \cap outputs : pin \in power <=> pin \in TargetPins
  BY <1>1, <1>3 DEF PinsInv, WrittenBefore
<1>5. power \subseteq PowerPins /\ TargetPins \subseteq PowerPins
  BY <1>1 DEF PinTypeOK, TargetPins, EndPulseCode, LevelPins
<1>6. power \cap outputs = TargetPins \cap outputs
  BY <1>4, <1>5
<1>7. CASE owner = "emergency"
  BY <1>1, <1>6, <1>7, LevelZero DEF LockInv, TargetPins
<1>8. CASE owner # "emergency"
  <2>1. command = "PLAY STOP"
    BY <1>1, <1>3, <1>8 DEF LockInv, LockTypeOK, Owners
  <2> QED BY <1>6, <1>8, <2>1 DEF TargetPins
<1> QED BY <1>7, <1>8

\* A stop that lowers the gate has put 111 on A1-A3, an emergency stop 000.
THEOREM ReleaseIsCoded == ControllerSpec => ReleaseCarriesItsCode
<1>1. IInv /\ [ControllerNext]_controllerVars =>
        [step = "A0" /\ gate /\ ~gate' /\ "A0" \in outputs' =>
           power \cap outputs =
             (IF owner = "emergency" THEN {} ELSE EndPulseCode) \cap outputs]_controllerVars
  BY ReleaseCode
<1> QED BY <1>1, Inductive, PTL DEF ControllerSpec, ReleaseCarriesItsCode

-----------------------------------------------------------------------------
(***************************************************************************)
(* What keeps a reported play on the wire.  Reopened outputs are the one    *)
(* way to lose it (RuntimeControllerReopened.cfg); where the pins stay      *)
(* outputs, failing writes and restarts cannot.                             *)
(***************************************************************************)
HeldInv ==
  /\ outputs \in {{}, Pins}
  /\ step \in Pins \cup {"reply"} => outputs = Pins
  /\ play_mode # "none" => outputs = Pins
  /\ command = "PLAY START" /\ step = "reply" /\ reply_ok => gate
  /\ play_mode # "none" /\ owner # "emergency" =>
       gate \/ (owner \in {"stop", "auto_stop"} /\ step = "reply" /\ reply_ok)

\* Without faults of the outputs, connect() leaves open outputs as they are and
\* opens absent ones.
LEMMA SafeConnect ==
  ASSUME "outputs" \notin Faults, outputs \in {{}, Pins}, Connect
  PROVE  outputs' = Pins /\ (outputs = Pins => gate' = gate)
BY DEF Connect

LEMMA HeldStep ==
  ASSUME "outputs" \notin Faults, IInv, HeldInv, [ControllerNext]_controllerVars
  PROVE  HeldInv'
<1> USE DEF HeldInv, Pins, PowerPins
<1>a. LockInv /\ PinsInv /\ LockTypeOK
  BY DEF IInv, TypeOK
<1>1. ASSUME NEW mode \in PlayModes, NEW duration \in Durations, NEW startup \in Startups,
             StartPlay(mode, duration, startup)
      PROVE  HeldInv'
  BY <1>1 DEF StartPlay, Acquire, machineState, wires, PowerPins
<1>2. CASE StopPlay
  BY <1>2, <1>a DEF StopPlay, Acquire, machineState, wires, PowerPins, LockInv
<1>3. ASSUME NEW percent \in Percents, SetClawPower(percent)
      PROVE  HeldInv'
  BY <1>3, <1>a DEF SetClawPower, Acquire, machineState, wires, PowerPins, LockInv
<1>4. CASE EmergencyStop
  BY <1>4 DEF EmergencyStop, Acquire, wires, PowerPins
<1>5. CASE PollStatus
  <2>1. outputs' = Pins /\ (outputs = Pins => gate' = gate)
    BY <1>5, SafeConnect DEF PollStatus
  <2> QED BY <1>5, <2>1, <1>a DEF PollStatus, machineState, lockState, LockInv
<1>6. ASSUME NEW g \in Generations, AutoStop(g)
      PROVE  HeldInv'
  <2>1. CASE UNCHANGED lockState
    BY <1>6, <2>1 DEF AutoStop, machineState, lockState, wires
  <2>2. CASE Acquire("auto_stop", NoRequest, "PLAY STOP")
    BY <1>6, <2>2, <1>a DEF AutoStop, Acquire, machineState, wires, PowerPins, LockInv
  <2> QED BY <1>6, <2>1, <2>2 DEF AutoStop
<1>7. CASE ConnectForCommand
  <2>1. outputs' = Pins /\ (outputs = Pins => gate' = gate)
    BY <1>7, SafeConnect DEF ConnectForCommand
  <2>2. step = "connect" /\ step' # "reply"
        /\ UNCHANGED << play_mode, owner, command, reply_ok >>
    BY <1>7, <2>1 DEF ConnectForCommand, FirstWrite, machineState
  <2> QED BY <2>1, <2>2
<1>8. CASE WritePowerPin
  <2>1. /\ UNCHANGED << play_mode, owner, command, reply_ok, outputs, gate >>
        /\ step \in PowerPins /\ outputs = Pins
    BY <1>8 DEF WritePowerPin, machineState
  <2>2. step # "reply" /\ command # "PLAY START"
    BY <2>1, <1>a DEF PinsInv, PowerPins
  <2> QED BY <2>1, <2>2
<1>9. CASE WriteGate
  <2>1. /\ UNCHANGED << play_mode, owner, command, reply_ok, outputs >>
        /\ step = "A0" /\ step' = "reply" /\ outputs = Pins
        /\ gate' <=> command = "PLAY START"
    BY <1>9 DEF WriteGate, machineState
  <2>2. play_mode # "none" /\ owner # "emergency" => owner \in {"stop", "auto_stop"}
    <3>1. owner # "nobody" /\ owner # "power"
      BY <2>1, <1>a DEF LockInv, PinsInv
    <3>2. owner = "start" => play_mode = "none"
      BY <1>a DEF LockInv
    <3> QED BY <3>1, <3>2, <1>a DEF LockTypeOK, Owners
  <2>3. reply_ok
    BY <2>1, <1>a DEF LockInv
  <2> QED BY <2>1, <2>2, <2>3
<1>10. CASE WriteRaises
  <2>1. /\ UNCHANGED << play_mode, owner, command, outputs, gate >>
        /\ step \in Pins /\ step' = "reply" /\ ~reply_ok'
    BY <1>10 DEF WriteRaises, machineState, wires
  <2>2. step # "reply"
    BY <2>1 DEF PowerPins
  <2> QED BY <2>1, <2>2
<1>11. CASE PowerSentForStart
  <2>1. outputs' = Pins
    BY <1>11, SafeConnect DEF PowerSentForStart, ReplyIs
  <2>2. play_mode' = "none" /\ step' = "connect"
    BY <1>11, <1>a DEF PowerSentForStart, ReplyIs, LockInv
  <2> QED BY <2>1, <2>2 DEF PowerPins
<1>12. CASE PlayStarted
  <2>1. gate' /\ outputs' = Pins
    BY <1>12, SafeConnect DEF PlayStarted, ReplyIs
  <2>2. step' = "idle"
    BY <1>12 DEF PlayStarted, Release
  <2> QED BY <2>1, <2>2 DEF PowerPins
<1>13. CASE PlayStopped \/ EmergencyStopped
  <2>1. outputs' = Pins
    BY <1>13, SafeConnect DEF PlayStopped, EmergencyStopped, ReplyIs
  <2>2. play_mode' = "none" /\ step' = "idle"
    BY <1>13 DEF PlayStopped, EmergencyStopped, MarkStopped, Release
  <2> QED BY <2>1, <2>2 DEF PowerPins
<1>14. CASE ClawPowerSet \/ CommandFailed
  <2>1. Connect /\ step = "reply" /\ (owner = "power" \/ ~reply_ok) /\ owner # "emergency"
    BY <1>14 DEF ClawPowerSet, CommandFailed, ReplyIs
  <2>2. outputs = Pins /\ outputs' = Pins /\ gate' = gate
    BY <2>1, SafeConnect
  <2>3. play_mode' = play_mode /\ step' = "idle" /\ owner' = "nobody"
    BY <1>14 DEF ClawPowerSet, CommandFailed, Release
  <2> QED BY <2>1, <2>2, <2>3 DEF PowerPins
<1>15. CASE Restart
  BY <1>15 DEF Restart, MarkStopped, Release, PowerPins
<1>16. CASE Tick \/ UNCHANGED controllerVars
  <2>1. UNCHANGED << play_mode, owner, command, step, reply_ok, outputs, gate >>
    BY <1>16 DEF Tick, controllerVars, machineState, lockState, wires
  <2> QED BY <2>1
<1>17. ~LoseOutputs
  BY DEF LoseOutputs
<1> QED
  BY <1>1, <1>2, <1>3, <1>4, <1>5, <1>6, <1>7, <1>8, <1>9, <1>10, <1>11, <1>12, <1>13,
     <1>14, <1>15, <1>16, <1>17
     DEF ControllerNext, ControllerStep, BeginCommand, CommandSteps

LEMMA AlwaysHeld ==
  ASSUME "outputs" \notin Faults
  PROVE  ControllerSpec => []HeldInv
<1>1. ControllerInit => HeldInv
  BY DEF ControllerInit, HeldInv, Pins, PowerPins
<1>2. IInv /\ HeldInv /\ [ControllerNext]_controllerVars => HeldInv'
  BY HeldStep
<1> QED BY <1>1, <1>2, Inductive, PTL DEF ControllerSpec

\* While the Raspberry Pi's pins stay outputs, a play the controller reports is
\* one the Arduino may play, however commands, threads, failing writes and
\* restarts are interleaved: no refused or failed command releases the gate.
THEOREM HeldWithoutLoss ==
  ASSUME "outputs" \notin Faults
  PROVE  ControllerSpec => []RunningMeansHeld
<1>1. IInv /\ HeldInv => RunningMeansHeld
  BY DEF HeldInv, RunningMeansHeld
<1> QED BY <1>1, Inductive, AlwaysHeld, PTL

\* As long as the pins stay outputs, A0 is never pulled low with the code that the
\* sketch takes for a home request, whatever fails to be written and however often
\* the process dies: send_command sees A1-A3 written, or reopened at 000, first.
THEOREM NoHomeRequestedByStart ==
  ASSUME "outputs" \notin Faults
  PROVE  ControllerSpec => GateNeverHomes
<1>1. IInv /\ HeldInv /\ [ControllerNext]_controllerVars =>
        [~gate /\ gate' => power # EndPulseCode]_controllerVars
  <2> SUFFICES ASSUME IInv, HeldInv, [ControllerNext]_controllerVars, ~gate, gate'
               PROVE  power # EndPulseCode
    OBVIOUS
  <2>1. outputs = Pins
    BY GateRises DEF WriteGate, HeldInv, Pins
  <2> QED BY <2>1, OpensSafely
<1> QED BY <1>1, Inductive, AlwaysHeld, PTL DEF ControllerSpec, GateNeverHomes

-----------------------------------------------------------------------------
(***************************************************************************)
(* Refinement: one step of SafetyBoundary per command, at its last step     *)
(* (an emergency stop: at its first), and a stutter for every other step.   *)
(***************************************************************************)
\* A controller that does not move is a stutter of SafetyBoundary.
LEMMA BoundaryStutters ==
  ASSUME UNCHANGED << SeenStatus, SeenPlayMode, emergency_stopped, claw_power >>,
         SeenArmed' <=> SeenArmed
  PROVE  UNCHANGED Boundary!boundaryVars
<1>1. SeenArmed' = SeenArmed
  BY DEF SeenArmed
<1> QED BY <1>1 DEF Boundary!boundaryVars

\* A new controller is an initial state of SafetyBoundary.
LEMMA BoundaryInits == ControllerInit => Boundary!BoundaryInit
<1> SUFFICES ASSUME ControllerInit PROVE Boundary!BoundaryInit
  OBVIOUS
<1>1. SeenStatus = "ready" /\ SeenPlayMode = "none"
  BY DEF ControllerInit, SeenStatus, SeenPlayMode
<1>2. SeenArmed = FALSE
  BY DEF ControllerInit, SeenArmed
<1> QED BY <1>1, <1>2 DEF ControllerInit, Boundary!BoundaryInit

\* Every step of the controller is a step or a stutter of SafetyBoundary.
LEMMA BoundarySteps ==
  ASSUME IInv, [ControllerNext]_controllerVars
  PROVE  [Boundary!BoundaryNext]_(Boundary!boundaryVars)
<1> USE DEF Boundary!BoundaryNext
<1>a. LockInv /\ ThreadInv
  BY DEF IInv
<1>b. /\ generation \in 0 .. MaxGeneration
      /\ timers \in [Generations -> Nat \cup {NoThread}]
  BY DEF IInv, TypeOK, StateTypeOK
<1>1. ASSUME UNCHANGED << status, play_mode, emergency_stopped, claw_power, generation, timers,
                          owner >>
      PROVE  UNCHANGED Boundary!boundaryVars
  BY <1>1, BoundaryStutters DEF SeenStatus, SeenPlayMode, SeenArmed, ThreadLives
<1>2. ASSUME owner = "nobody", owner' \in {"start", "power"},
             UNCHANGED << machineState, generation, timers >>
      PROVE  UNCHANGED Boundary!boundaryVars
  BY <1>2, BoundaryStutters
     DEF SeenStatus, SeenPlayMode, SeenArmed, ThreadLives, machineState
<1>3. CASE StopPlay
  <2>1. /\ owner = "nobody" /\ owner' = "stop" /\ generation' = generation + 1
        /\ UNCHANGED << status, play_mode, emergency_stopped, claw_power, timers >>
    BY <1>3 DEF StopPlay, Acquire, NextGeneration, machineState
  <2>2. generation' - 1 = generation
    BY <2>1, <1>b
  <2>3. SeenArmed' <=> SeenArmed
    BY <2>1, <2>2 DEF SeenArmed, ThreadLives
  <2> QED BY <2>1, <2>3, BoundaryStutters DEF SeenStatus, SeenPlayMode
<1>4. CASE EmergencyStop
  <2>1. owner' = "emergency" /\ emergency_stopped' = TRUE /\ UNCHANGED claw_power
    BY <1>4 DEF EmergencyStop, Acquire
  <2>2. SeenStatus' = "emergency_stopped" /\ SeenPlayMode' = "none"
    BY <2>1 DEF SeenStatus, SeenPlayMode
  <2>3. SeenArmed' = FALSE
    BY <2>1 DEF SeenArmed
  <2>4. Boundary!EmergencyStops
    BY <2>1, <2>2, <2>3 DEF Boundary!EmergencyStops
  <2> QED BY <2>4
<1>5. ASSUME NEW g \in Generations, AutoStop(g)
      PROVE  UNCHANGED Boundary!boundaryVars
  <2>1. /\ owner = "nobody" /\ timers[g] = 0 /\ timers' = [timers EXCEPT ![g] = NoThread]
        /\ UNCHANGED << status, play_mode, emergency_stopped, claw_power, generation >>
    BY <1>5 DEF AutoStop, Outdated, machineState
  <2>2. CASE g # generation \/ play_mode = "none"
    <3>1. owner' = "nobody"
      BY <1>5, <2>1, <2>2 DEF AutoStop, Outdated, lockState
    <3>2. play_mode = "none" \/ (ThreadLives(generation)' <=> ThreadLives(generation))
      BY <2>1, <2>2, <1>b DEF ThreadLives
    <3>3. SeenArmed' <=> SeenArmed
      BY <2>1, <3>1, <3>2 DEF SeenArmed, ThreadLives
    <3> QED BY <2>1, <3>1, <3>3, BoundaryStutters DEF SeenStatus, SeenPlayMode
  <2>3. CASE g = generation /\ play_mode # "none"
    <3>1. owner' = "auto_stop"
      BY <1>5, <2>3 DEF AutoStop, Outdated, Acquire
    <3>2. ThreadLives(generation)
      BY <2>1, <2>3 DEF ThreadLives, NoThread
    <3>3. SeenArmed' <=> SeenArmed
      BY <2>1, <2>3, <3>1, <3>2 DEF SeenArmed
    <3> QED BY <2>1, <3>1, <3>3, BoundaryStutters DEF SeenStatus, SeenPlayMode
  <2> QED BY <2>2, <2>3
<1>6. CASE PlayStarted
  <2>1. /\ owner = "start" /\ owner' = "nobody"
        /\ generation < MaxGeneration /\ generation' = generation + 1
        /\ timers' = [timers EXCEPT ![generation + 1] = request.window]
        /\ status' = "running" /\ play_mode' = request.mode
        /\ UNCHANGED << emergency_stopped, claw_power >>
    BY <1>6 DEF PlayStarted, ReplyIs, NextGeneration, Release
  <2>2. request.window \in Nat /\ request.mode \in PlayModes
    BY DEF IInv, TypeOK, LockTypeOK, Request
  <2>3. generation + 1 \in Generations
    BY <2>1, <1>b, GenerationAssumption DEF Generations
  <2>4. timers'[generation'] = request.window
    BY <2>1, <2>3, <1>b
  <2>5. ThreadLives(generation)'
    BY <2>1, <2>2, <2>3, <2>4 DEF ThreadLives, NoThread
  <2>6. SeenArmed' = TRUE
    BY <2>1, <2>2, <2>5 DEF SeenArmed, PlayModes
  <2>7. SeenStatus' = "running" /\ SeenPlayMode' = request.mode
    BY <2>1 DEF SeenStatus, SeenPlayMode
  <2>8. ~emergency_stopped /\ SeenPlayMode = "none"
    BY <2>1, <1>a DEF LockInv, SeenPlayMode
  <2>9. Boundary!PlayStarts(request.mode)
    BY <2>1, <2>6, <2>7, <2>8 DEF Boundary!PlayStarts, Boundary!MayStart
  <2> QED BY <2>2, <2>9 DEF PlayModes, Boundary!PlayModes
<1>7. CASE PlayStopped
  <2>1. /\ owner \in {"stop", "auto_stop"} /\ owner' = "nobody"
        /\ status' = "ready" /\ play_mode' = "none"
        /\ UNCHANGED << emergency_stopped, claw_power >>
    BY <1>7 DEF PlayStopped, ReplyIs, MarkStopped, Release
  <2>2. SeenStatus' = "ready" /\ SeenPlayMode' = "none" /\ SeenPlayMode # "none"
    BY <2>1, <1>a DEF SeenStatus, SeenPlayMode, LockInv
  <2>3. SeenArmed' = FALSE
    BY <2>1 DEF SeenArmed
  <2>4. Boundary!PlayStops
    BY <2>1, <2>2, <2>3 DEF Boundary!PlayStops, Boundary!MayStop
  <2> QED BY <2>4
<1>8. CASE ClawPowerSet
  <2>1. /\ owner = "power" /\ owner' = "nobody" /\ claw_power' = request.percent
        /\ UNCHANGED << status, play_mode, generation, timers, emergency_stopped >>
    BY <1>8 DEF ClawPowerSet, ReplyIs, Release
  <2>2. request.percent \in Percents \cap (MinClawPower .. MaxClawPower) /\ ~emergency_stopped
    BY <2>1, <1>a DEF LockInv
  <2>3. UNCHANGED << SeenStatus, SeenPlayMode >>
    BY <2>1 DEF SeenStatus, SeenPlayMode
  <2>4. SeenArmed' = SeenArmed
    BY <2>1 DEF SeenArmed, ThreadLives
  <2>5. Boundary!PowerIsSet(request.percent)
    BY <2>1, <2>2, <2>3, <2>4
       DEF Boundary!PowerIsSet, Boundary!MaySetPower, Boundary!MinClawPower,
           Boundary!MaxClawPower, MinClawPower, MaxClawPower
  <2> QED BY <2>2, <2>5
<1>9. CASE CommandFailed
  <2>1. /\ owner \in {"start", "stop", "power", "auto_stop"} /\ owner' = "nobody"
        /\ status' = "fault"
        /\ UNCHANGED << play_mode, emergency_stopped, claw_power, generation, timers >>
    BY <1>9 DEF CommandFailed, ReplyIs, Release
  <2>2. SeenStatus' = "fault" /\ UNCHANGED SeenPlayMode
    BY <2>1 DEF SeenStatus, SeenPlayMode
  <2>3. CASE owner \in {"stop", "auto_stop"}
    <3>1. SeenPlayMode # "none"
      BY <2>3, <1>a DEF LockInv, SeenPlayMode
    <3>2. SeenArmed' = FALSE
      BY <2>1, <2>3, <1>a DEF SeenArmed, ThreadInv, ThreadLives
    <3>3. Boundary!StopFails
      BY <2>1, <2>2, <3>1, <3>2 DEF Boundary!StopFails, Boundary!MayStop
    <3> QED BY <3>3
  <2>4. CASE owner \in {"start", "power"}
    <3>1. ~emergency_stopped
      BY <2>4, <1>a DEF LockInv
    <3>2. SeenArmed' = SeenArmed
      BY <2>1, <2>4 DEF SeenArmed, ThreadLives
    <3>3. Boundary!CommandFails
      BY <2>1, <2>2, <3>1, <3>2 DEF Boundary!CommandFails
    <3> QED BY <3>3
  <2> QED BY <2>1, <2>3, <2>4
<1>10. CASE EmergencyStopped
  <2>1. /\ owner = "emergency" /\ owner' = "nobody"
        /\ status' = "emergency_stopped" /\ play_mode' = "none"
        /\ UNCHANGED << emergency_stopped, claw_power >>
    BY <1>10 DEF EmergencyStopped, ReplyIs, MarkStopped, Release
  <2>2. UNCHANGED << SeenStatus, SeenPlayMode >>
    BY <2>1 DEF SeenStatus, SeenPlayMode
  <2>3. SeenArmed' <=> SeenArmed
    BY <2>1 DEF SeenArmed
  <2> QED BY <2>1, <2>2, <2>3, BoundaryStutters
<1>11. CASE Restart
  <2>1. /\ owner' = "nobody" /\ status' = "ready" /\ play_mode' = "none"
        /\ emergency_stopped' = FALSE /\ claw_power' \in InitialPercents
    BY <1>11 DEF Restart, MarkStopped, Release
  <2>2. SeenStatus' = "ready" /\ SeenPlayMode' = "none"
    BY <2>1 DEF SeenStatus, SeenPlayMode
  <2>3. SeenArmed' = FALSE
    BY <2>1 DEF SeenArmed
  <2>4. Boundary!ProcessRestarts
    BY <2>1, <2>2, <2>3 DEF Boundary!ProcessRestarts
  <2> QED BY <2>4
<1>12. CASE Tick
  <2>1. /\ \A g \in Generations : timers'[g] = CountDown(timers[g])
        /\ UNCHANGED << status, play_mode, emergency_stopped, claw_power, generation, owner >>
    BY <1>12 DEF Tick, lockState
  <2>2. \A g \in Generations : timers'[g] = NoThread <=> timers[g] = NoThread
    BY <2>1, <1>b DEF CountDown, NoThread
  <2>3. SeenArmed' <=> SeenArmed
    BY <2>1, <2>2 DEF SeenArmed, ThreadLives
  <2> QED BY <2>1, <2>3, BoundaryStutters DEF SeenStatus, SeenPlayMode
<1>13. CASE \/ PollStatus \/ ConnectForCommand \/ WritePowerPin \/ WriteGate \/ WriteRaises
            \/ PowerSentForStart \/ LoseOutputs \/ UNCHANGED controllerVars
  BY <1>13, <1>1
     DEF PollStatus, ConnectForCommand, WritePowerPin, WriteGate, WriteRaises,
         PowerSentForStart, LoseOutputs, controllerVars, machineState, lockState
<1>14. ASSUME NEW mode \in PlayModes, NEW duration \in Durations, NEW startup \in Startups,
              StartPlay(mode, duration, startup)
       PROVE  UNCHANGED Boundary!boundaryVars
  BY <1>14, <1>2 DEF StartPlay, Acquire
<1>15. ASSUME NEW percent \in Percents, SetClawPower(percent)
       PROVE  UNCHANGED Boundary!boundaryVars
  BY <1>15, <1>2 DEF SetClawPower, Acquire
<1> QED
  BY <1>3, <1>4, <1>5, <1>6, <1>7, <1>8, <1>9, <1>10, <1>11, <1>12, <1>13, <1>14, <1>15
     DEF ControllerNext, ControllerStep, BeginCommand, CommandSteps

\* The controller, with its threads, its pins and its failures in the middle of a
\* command, implements the atomic contract the dashboard is built on.
THEOREM RefinesBoundary == ControllerSpec => ImplementsBoundary
<1>1. ControllerInit => Boundary!BoundaryInit
  BY BoundaryInits
<1>2. IInv /\ [ControllerNext]_controllerVars =>
        [Boundary!BoundaryNext]_(Boundary!boundaryVars)
  BY BoundarySteps
<1> QED BY <1>1, <1>2, Inductive, PTL
           DEF ControllerSpec, ImplementsBoundary, Boundary!BoundarySpec

-----------------------------------------------------------------------------
(***************************************************************************)
(* The machine.  Each step of it is a step of the controller, which to the  *)
(* sketch is a host that writes the wires, or a step of the sketch, or a    *)
(* tick of both.                                                            *)
(***************************************************************************)
Sketch == INSTANCE ClawFirmwareProofs

\* What the proofs of the sketch assume of its parameters holds here.
LEMMA SketchAssumptions == Sketch!FirmwareAssumption /\ Sketch!InputsAssumption
BY MachineAssumption
   DEF Sketch!FirmwareAssumption, Sketch!InputsAssumption, Arduino!Input, Sketch!Input,
       Arduino!Lifts, Sketch!Lifts, Arduino!Axes, Sketch!Axes

\* A pass of loop() is what ClawFirmwareProofs takes it for ...
LEMMA SameLoop ==
  ASSUME NEW f, NEW in
  PROVE  Arduino!Loop(f, in) = Sketch!Loop(f, in)
BY DEF Arduino!Loop, Sketch!Loop, Arduino!Sampled, Sketch!Sampled,
       Arduino!Playing, Sketch!Playing, Arduino!Stopped, Sketch!Stopped,
       Arduino!PlayEnd, Sketch!PlayEnd, Arduino!StartEdge, Sketch!StartEdge,
       Arduino!FallingEdge, Sketch!FallingEdge, Arduino!PlayIsOver, Sketch!PlayIsOver,
       Arduino!StartHoming, Sketch!StartHoming, Arduino!StartPulse, Sketch!StartPulse,
       Arduino!UpdatePulse, Sketch!UpdatePulse, Arduino!Controls, Sketch!Controls,
       Arduino!LinearStop, Sketch!LinearStop, Arduino!LinearControl, Sketch!LinearControl,
       Arduino!LinearMove, Sketch!LinearMove, Arduino!UpdateHoming, Sketch!UpdateHoming,
       Arduino!HomeX, Sketch!HomeX, Arduino!HomeY, Sketch!HomeY,
       Arduino!HomingFault, Sketch!HomingFault, Arduino!HomingDone, Sketch!HomingDone,
       Arduino!GrabberPowerLevel, Sketch!GrabberPowerLevel, Arduino!PinBit, Sketch!PinBit,
       Arduino!PinWeight, Sketch!PinWeight, Arduino!HoldPercent, Sketch!HoldPercent,
       Arduino!TimeUpPulseCode, Sketch!TimeUpPulseCode,
       Arduino!PulseToggleCount, Sketch!PulseToggleCount

\* ... and so are its ticks and restarts.
LEMMA SameSteps ==
  /\ Arduino!LoopPass => Sketch!LoopPass
  /\ Arduino!FirmwareTick => Sketch!FirmwareTick
  /\ Arduino!PowerCycle => Sketch!PowerCycle
  /\ Arduino!FirmwareInit => Sketch!FirmwareInit
<1>1. Arduino!LoopPass => Sketch!LoopPass
  BY SameLoop DEF Arduino!LoopPass, Sketch!LoopPass, Arduino!CountPulses, Sketch!CountPulses
<1>2. Arduino!FirmwareTick => Sketch!FirmwareTick
  BY DEF Arduino!FirmwareTick, Sketch!FirmwareTick, Arduino!Age, Sketch!Age,
         Arduino!HomingLimit, Sketch!HomingLimit
<1>3. Arduino!Boot = Sketch!Boot
  BY DEF Arduino!Boot, Sketch!Boot
<1> QED BY <1>1, <1>2, <1>3
           DEF Arduino!PowerCycle, Sketch!PowerCycle, Arduino!FirmwareInit, Sketch!FirmwareInit

\* Every step of the machine is one of the controller, or leaves it alone ...
LEMMA ControllerSteps ==
  ASSUME [MachineNext]_machineVars
  PROVE  [ControllerNext]_controllerVars
BY DEF MachineNext, HostBegins, HostAutoStops, HostProceeds, HostFails, Host, SketchPasses,
       SketchRestarts, TimePasses, ControllerNext, ControllerStep, machineVars

\* ... and one of the sketch, to which every step of the controller is a write.
LEMMA SketchSteps ==
  ASSUME TypeOK', [MachineNext]_machineVars
  PROVE  [Sketch!Next]_(Sketch!vars)
<1> USE DEF Sketch!Next
<1>1. gate' \in BOOLEAN /\ power' \in SUBSET Sketch!PowerPins
  BY DEF TypeOK, PinTypeOK, PowerPins, Sketch!PowerPins
<1>2. ASSUME UNCHANGED arduinoVars
      PROVE  Sketch!HostWrites
  BY <1>1, <1>2 DEF Sketch!HostWrites, Sketch!firmwareVars, arduinoVars
<1>3. ASSUME UNCHANGED controllerVars \/ UNCHANGED wires
      PROVE  UNCHANGED << gate, power >>
  BY <1>3 DEF controllerVars, wires
<1>4. CASE HostBegins \/ (\E g \in Generations : HostAutoStops(g)) \/ HostProceeds \/ HostFails
           \/ UNCHANGED machineVars
  BY <1>2, <1>4 DEF HostBegins, HostAutoStops, HostProceeds, HostFails, Host, machineVars
<1>5. CASE SketchPasses
  BY <1>3, <1>5, SameSteps DEF SketchPasses
<1>6. CASE SketchRestarts
  BY <1>3, <1>6, SameSteps DEF SketchRestarts
<1>7. CASE TimePasses
  BY <1>3, <1>7, SameSteps DEF TimePasses, Tick
<1> QED BY <1>4, <1>5, <1>6, <1>7 DEF MachineNext

\* The controller in the machine is the controller of RuntimeController: what
\* holds of it whatever the sketch does holds here.
THEOREM ControllerInMachine == MachineSpec => ControllerSpec
<1>1. MachineInit => ControllerInit
  BY DEF MachineInit
<1>2. [MachineNext]_machineVars => [ControllerNext]_controllerVars
  BY ControllerSteps
<1> QED BY <1>1, <1>2, PTL DEF MachineSpec, ControllerSpec

\* The Arduino in the machine is the Arduino of ClawFirmware, whose host was
\* allowed to write anything at any time: what holds of it there holds here.
THEOREM SketchInMachine == MachineSpec => Sketch!Spec
<1>1. MachineInit => Sketch!Init
  BY SameSteps DEF MachineInit, ControllerInit, Sketch!Init
<1>2. TypeOK' /\ [MachineNext]_machineVars => [Sketch!Next]_(Sketch!vars)
  BY SketchSteps
<1>3. MachineSpec => []TypeOK
  BY ControllerInMachine, TypeCorrect, PTL
<1> QED BY <1>1, <1>2, <1>3, PTL DEF MachineSpec, Sketch!Spec

(***************************************************************************)
(* The invariants of the two parts, and what the steps of the sketch do to  *)
(* the globals that the properties of the machine read.                     *)
(***************************************************************************)
MachineInv == IInv /\ Sketch!IInv /\ seen \in BOOLEAN

\* Both invariants hold of the machine, whatever its faults and however late
\* either side is.
THEOREM MachineInductive == MachineSpec => []MachineInv
<1>1. MachineInit => seen \in BOOLEAN
  BY DEF MachineInit
<1>2. seen \in BOOLEAN /\ [MachineNext]_machineVars => (seen \in BOOLEAN)'
  BY DEF MachineNext, HostBegins, HostAutoStops, HostProceeds, HostFails, Host,
         SketchPasses, SketchRestarts, TimePasses, machineVars
<1>3. MachineSpec => [](seen \in BOOLEAN)
  BY <1>1, <1>2, PTL DEF MachineSpec
<1>4. MachineSpec => []IInv
  BY ControllerInMachine, Inductive, PTL
<1>5. Sketch!Spec => []Sketch!IInv
  BY SketchAssumptions, Sketch!Inductive
<1>6. MachineSpec => []Sketch!IInv
  BY SketchInMachine, <1>5, PTL
<1> QED BY <1>3, <1>4, <1>6, PTL DEF MachineInv

\* Level 7 sets all three pins.
LEMMA EndPulseIsAll == EndPulseCode = PowerPins
BY DEF EndPulseCode, LevelPins, PowerPins, PinWeight

\* A low level on A0 that the sketch has not seen, outside its homing fault.
NewEdge == ~fw.previousStart /\ gate /\ fw.homing # "fault"

\* What a pass of loop() makes of the wires.
LEMMA PassSees ==
  ASSUME MachineInv, SketchPasses
  PROVE  /\ UNCHANGED controllerVars /\ seen' = TRUE
         /\ fw'.previousStart = gate
         /\ fw'.playActive => gate
         /\ fw'.playAge = IF fw'.playActive /\ ~fw.playActive THEN 0 ELSE fw.playAge
         /\ fw'.playActive /\ ~fw.playActive => NewEdge /\ power # EndPulseCode
         /\ NewEdge /\ power # EndPulseCode => fw'.playActive
         /\ fw.playActive => (fw'.playActive <=> gate /\ fw.playAge < PlayLimit)
         /\ fw.playActive /\ ~fw'.playActive =>
              (fw'.timeUpPulse <=> ~gate /\ power = EndPulseCode)
         /\ ~fw.playActive /\ fw'.timeUpPulse => fw.timeUpPulse
         /\ Homing' => Homing \/ fw.playActive \/ (NewEdge /\ power = EndPulseCode)
         /\ fw.homing = "fault" => fw'.homing = "fault"
<1>1. PICK in \in Inputs : fw' = Sketch!Loop(fw, in)
  BY SameLoop DEF SketchPasses, Arduino!LoopPass
<1>2. in \in Sketch!Input
  BY <1>1, SketchAssumptions DEF Sketch!InputsAssumption
<1>3. /\ fw \in Sketch!Firmware /\ Sketch!Sound(fw) /\ Sketch!PassOver(fw)
      /\ Sketch!WiresOK
  BY DEF MachineInv, Sketch!IInv, Sketch!TypeOK, Sketch!WiresOK
<1>4. EndPulseCode = Sketch!PowerPins
  BY EndPulseIsAll DEF PowerPins, Sketch!PowerPins
<1>5. LET g == Sketch!Loop(fw, in)
          falling == ~fw.previousStart /\ gate /\ fw.homing # "fault"
          pins == Sketch!PowerPins IN
      /\ g.previousStart = gate
      /\ g.playActive => gate
      /\ g.playAge = IF g.playActive /\ ~fw.playActive THEN 0 ELSE fw.playAge
      /\ g.playActive /\ ~fw.playActive => falling /\ power # pins
      /\ falling /\ power # pins => g.playActive
      /\ fw.playActive => (g.playActive <=> gate /\ fw.playAge < PlayLimit)
      /\ fw.playActive /\ ~g.playActive => (g.timeUpPulse <=> ~gate /\ power = pins)
      /\ ~fw.playActive /\ g.timeUpPulse => fw.timeUpPulse
      /\ g.homing \in {"yAxis", "xAxis"} =>
           fw.homing \in {"yAxis", "xAxis"} \/ fw.playActive \/ (falling /\ power = pins)
  BY <1>2, <1>3, SketchAssumptions, Sketch!PassEffect
<1>6. UNCHANGED controllerVars /\ seen' = TRUE
  BY DEF SketchPasses
<1>7. fw.homing = "fault" => fw'.homing = "fault"
  BY <1>1, <1>2, <1>3, SketchAssumptions, Sketch!LoopSound
<1> QED BY <1>1, <1>4, <1>5, <1>6, <1>7 DEF NewEdge, Homing

\* A tick lets the play age and changes nothing else that the wires depend on.
LEMMA TickSees ==
  ASSUME MachineInv, TimePasses
  PROVE  /\ fw'.previousStart = fw.previousStart /\ fw'.playActive = fw.playActive
         /\ fw'.timeUpPulse = fw.timeUpPulse /\ fw'.homing = fw.homing
         /\ fw'.playAge = IF fw.playActive /\ fw.playAge < PlayLimit
                            THEN fw.playAge + 1 ELSE fw.playAge
         /\ fw'.playAge \in 0 .. PlayLimit
<1>1. fw \in Sketch!Firmware
  BY DEF MachineInv, Sketch!IInv, Sketch!TypeOK
<1>2. /\ fw'.previousStart = fw.previousStart /\ fw'.playActive = fw.playActive
      /\ fw'.timeUpPulse = fw.timeUpPulse /\ fw'.homing = fw.homing
      /\ fw'.playAge = IF fw.playActive THEN Arduino!Age(fw.playAge, PlayLimit) ELSE fw.playAge
  BY <1>1 DEF TimePasses, Arduino!FirmwareTick, Sketch!Firmware
<1>3. fw.playAge \in 0 .. PlayLimit
  BY <1>1 DEF Sketch!Firmware
<1> QED BY <1>2, <1>3, MachineAssumption DEF Arduino!Age

\* A step of the controller, seen from the sketch.
HostSteps ==
  HostBegins \/ (\E g \in Generations : HostAutoStops(g)) \/ HostProceeds \/ HostFails

LEMMA HostSees ==
  ASSUME MachineInv, HostSteps
  PROVE  /\ [ControllerNext]_controllerVars
         /\ fw' = fw /\ (seen' <=> seen /\ wires' = wires)
         /\ "firmware" \in KeepsUp /\ ~seen => CommandSteps \/ LoseOutputs \/ Restart
BY DEF MachineInv, HostSteps, HostBegins, HostAutoStops, HostProceeds, HostFails, Host,
       SketchHasCaughtUp, arduinoVars, ControllerNext, ControllerStep

\* After its pass the sketch knows the gate, and plays only while it is low.
WiresSeen ==
  seen => (fw.previousStart <=> gate) /\ (fw.playActive => gate)

LEMMA WiresSeenStep ==
  ASSUME MachineInv, WiresSeen, [MachineNext]_machineVars
  PROVE  WiresSeen'
<1> USE DEF WiresSeen
<1>1. CASE HostSteps
  BY <1>1, HostSees DEF wires
<1>2. CASE SketchPasses
  <2>1. gate' = gate
    BY <1>2, PassSees DEF controllerVars, wires
  <2> QED BY <1>2, <2>1, PassSees
<1>3. CASE SketchRestarts
  BY <1>3 DEF SketchRestarts
<1>4. CASE TimePasses
  <2>1. gate' = gate /\ seen' = seen
    BY <1>4 DEF TimePasses, Tick, wires
  <2> QED BY <1>4, <2>1, TickSees
<1>5. CASE UNCHANGED machineVars
  BY <1>5 DEF machineVars, controllerVars, arduinoVars, wires
<1> QED BY <1>1, <1>2, <1>3, <1>4, <1>5 DEF MachineNext, HostSteps

LEMMA AlwaysWiresSeen == MachineSpec => []WiresSeen
<1>1. MachineInit => WiresSeen
  BY DEF MachineInit, WiresSeen
<1>2. MachineInv /\ WiresSeen /\ [MachineNext]_machineVars => WiresSeen'
  BY WiresSeenStep
<1> QED BY <1>1, <1>2, MachineInductive, PTL DEF MachineSpec

\* The sketch plays nothing that the controller does not report, once it has seen
\* the wires of a controller that has its pins: not after a crash in the middle of
\* a play, and not after a reset of the Arduino either.
THEOREM NothingUnreported == MachineSpec => []NothingPlaysUnreported
<1>1. MachineInv /\ WiresSeen /\ StoppedMeansReleased => NothingPlaysUnreported
  BY DEF WiresSeen, StoppedMeansReleased, NothingPlaysUnreported, Pins
<1>2. MachineSpec => []StoppedMeansReleased
  BY ControllerInMachine, StoppedIsReleased, PTL
<1> QED BY <1>1, <1>2, MachineInductive, AlwaysWiresSeen, PTL

(***************************************************************************)
(* An emergency stop.  Its code is on A1-A3 from the write of the gate on,  *)
(* as long as no pin is lost, and a controller that had no pins to stop     *)
(* with has let the gate go in creating them.                               *)
(***************************************************************************)
EmergencyInv ==
  /\ emergency_stopped /\ outputs = {} /\ gate => owner = "emergency" \/ last_error
  /\ outputs = Pins /\ command = "EMERGENCY STOP" /\ step = "reply" /\ reply_ok =>
       power = {}
  /\ emergency_stopped /\ ~last_error /\ owner = "nobody" /\ outputs = Pins =>
       power = {}

LEMMA EmergencyStep ==
  ASSUME IInv, EmergencyInv, [ControllerNext]_controllerVars
  PROVE  EmergencyInv'
<1> USE DEF EmergencyInv
<1>a. PinTypeOK /\ LockInv /\ PinsInv /\ GateInv
  BY DEF IInv, TypeOK
<1>b. Pins # {}
  BY DEF Pins
<1>c. emergency_stopped => owner \in {"nobody", "emergency"} /\ (owner = "nobody" <=> step = "idle")
  BY DEF IInv, TypeOK, LockTypeOK, Owners, LockInv
<1>1. CASE UNCHANGED << outputs, wires, emergency_stopped, last_error, lockState >>
  BY <1>1 DEF wires, lockState
<1>2. ASSUME NEW mode \in PlayModes, NEW duration \in Durations, NEW startup \in Startups,
             StartPlay(mode, duration, startup)
      PROVE  EmergencyInv'
  BY <1>2 DEF StartPlay, Acquire, machineState, wires
<1>3. ASSUME NEW percent \in Percents, SetClawPower(percent)
      PROVE  EmergencyInv'
  BY <1>3 DEF SetClawPower, Acquire, machineState, wires
<1>4. CASE StopPlay
  BY <1>4, <1>a DEF StopPlay, Acquire, machineState, wires, LockInv
<1>5. CASE EmergencyStop
  BY <1>5 DEF EmergencyStop, Acquire
<1>6. CASE PollStatus
  <2>1. /\ gate' => gate /\ outputs' = Pins
        /\ outputs' = Pins => power' = power \/ power' = {}
        /\ outputs = Pins => outputs' = Pins /\ power' = power
        /\ outputs' = Pins /\ outputs # Pins => power' = {}
    BY <1>6, <1>a, ConnectLemma DEF PollStatus
  <2>2. UNCHANGED << emergency_stopped, last_error, owner, command, step, reply_ok >>
    BY <1>6 DEF PollStatus, machineState, lockState
  <2> QED BY <1>b, <2>1, <2>2
<1>7. ASSUME NEW g \in Generations, AutoStop(g)
      PROVE  EmergencyInv'
  <2>1. CASE UNCHANGED lockState
    BY <1>7, <2>1 DEF AutoStop, machineState, lockState, wires
  <2>2. CASE ~Outdated(g) /\ Acquire("auto_stop", NoRequest, "PLAY STOP")
    BY <1>7, <2>2, <1>a DEF AutoStop, Outdated, Acquire, machineState, wires, LockInv
  <2> QED BY <1>7, <2>1, <2>2 DEF AutoStop
<1>8. CASE ConnectForCommand
  <2>1. gate' => outputs' = Pins
    BY <1>8, <1>a, ConnectLemma DEF ConnectForCommand
  <2>2. outputs' = Pins => step' # "reply"
    BY <1>8 DEF ConnectForCommand, FirstWrite
  <2>3. owner' # "nobody"
    BY <1>8, <1>a DEF ConnectForCommand, LockInv
  <2> QED BY <1>b, <2>1, <2>2, <2>3
<1>9. CASE WritePowerPin
  <2>1. step' = "reply" => command' = "CLAW POWER"
    BY <1>9, WriteOrder DEF WritePowerPin, PowerPins
  <2>2. owner' # "nobody" /\ (emergency_stopped' => owner' = "emergency")
    BY <1>9, <1>c, <1>a DEF WritePowerPin, LockInv, PowerPins, machineState
  <2> QED BY <2>1, <2>2
<1>10. CASE WriteGate
  <2>1. step = "A0" /\ outputs' = outputs /\ power' = power /\ command' = command
        /\ owner' # "nobody" /\ (emergency_stopped' => owner' = "emergency")
    BY <1>10, <1>a, <1>c DEF WriteGate, LockInv, machineState
  <2>2. command = "EMERGENCY STOP" /\ outputs = Pins => power = {}
    <3> SUFFICES ASSUME command = "EMERGENCY STOP", outputs = Pins PROVE power = {}
      OBVIOUS
    <3>1. TargetPins = {}
      BY LevelZero DEF TargetPins
    <3>2. \A pin \in PowerPins : pin \notin power
      BY <2>1, <3>1, <1>a DEF PinsInv, WrittenBefore, Pins
    <3> QED BY <3>2, <1>a DEF PinTypeOK
  <2> QED BY <2>1, <2>2
<1>11. CASE WriteRaises
  <2>1. ~reply_ok' /\ owner' # "nobody" /\ (emergency_stopped' => owner' = "emergency")
    BY <1>11, <1>a, <1>c DEF WriteRaises, LockInv, Pins, PowerPins, machineState
  <2> QED BY <2>1
<1>12. CASE PowerSentForStart
  BY <1>12, <1>a DEF PowerSentForStart, ReplyIs, LockInv
<1>13. CASE PlayStarted \/ ClawPowerSet
  <2>1. ~emergency_stopped /\ emergency_stopped' = emergency_stopped
    BY <1>13, <1>a DEF PlayStarted, ClawPowerSet, ReplyIs, LockInv
  <2>2. command' = "none"
    BY <1>13 DEF PlayStarted, ClawPowerSet, Release
  <2> QED BY <2>1, <2>2
<1>14. CASE PlayStopped \/ CommandFailed
  <2>1. command' = "none" /\ emergency_stopped' = emergency_stopped
        /\ (last_error' \/ ~emergency_stopped)
    BY <1>14, <1>a DEF PlayStopped, CommandFailed, ReplyIs, Release, LockInv
  <2>2. gate' => gate /\ outputs' = Pins
    BY <1>14, <1>a, ConnectLemma DEF PlayStopped, CommandFailed, ReplyIs
  <2> QED BY <1>b, <2>1, <2>2
<1>15. CASE EmergencyStopped
  <2>1. /\ owner = "emergency" /\ step = "reply" /\ Connect /\ last_error' = ~reply_ok
        /\ command' = "none"
    BY <1>15 DEF EmergencyStopped, ReplyIs, Release
  <2>2. command = "EMERGENCY STOP"
    BY <2>1, <1>a DEF LockInv
  <2>3. gate' => gate /\ outputs' = Pins
    BY <2>1, <1>a, ConnectLemma
  <2>4. ~last_error' /\ outputs' = Pins => power' = {}
    BY <2>1, <2>2, <1>a, ConnectLemma
  <2> QED BY <1>b, <2>1, <2>3, <2>4
<1>16. CASE LoseOutputs
  <2>1. outputs # {} /\ outputs' # Pins /\ (gate' => gate)
    BY <1>16, <1>a, LoseLemma DEF PinTypeOK
  <2>2. UNCHANGED << play_mode, emergency_stopped, last_error, owner, command >>
    BY <1>16 DEF LoseOutputs, machineState, lockState
  <2>3. emergency_stopped /\ gate => owner = "emergency" \/ last_error
    BY <1>a, <1>c, <2>1 DEF GateInv, LockInv
  <2> QED BY <2>1, <2>2, <2>3
<1>17. CASE Restart
  BY <1>17 DEF Restart, Release
<1>18. CASE Tick
  BY <1>1, <1>18 DEF Tick
<1>19. CASE UNCHANGED controllerVars
  BY <1>1, <1>19 DEF controllerVars, machineState
<1> QED
  BY <1>2, <1>3, <1>4, <1>5, <1>6, <1>7, <1>8, <1>9, <1>10, <1>11, <1>12, <1>13, <1>14,
     <1>15, <1>16, <1>17, <1>18, <1>19
     DEF ControllerNext, ControllerStep, BeginCommand, CommandSteps

LEMMA AlwaysEmergencyInv == MachineSpec => []EmergencyInv
<1>1. ControllerInit => EmergencyInv
  BY DEF ControllerInit, EmergencyInv
<1>2. IInv /\ EmergencyInv /\ [ControllerNext]_controllerVars => EmergencyInv'
  BY EmergencyStep
<1> QED BY <1>1, <1>2, ControllerInMachine, Inductive, PTL DEF ControllerSpec

\* An emergency stop that reports no error has released the gate.
LEMMA EmergencyReleases ==
  ASSUME IInv, EmergencyInv, emergency_stopped, owner = "nobody", ~last_error
  PROVE  ~gate
<1>1. play_mode = "none" /\ command = "none"
  BY DEF IInv, LockInv
<1>2. outputs = {} => ~gate
  BY DEF EmergencyInv
<1> QED BY <1>1, <1>2 DEF IInv, GateInv

\* Once the sketch has seen an emergency stop that was carried out, no play goes
\* on, for all faults of the pins, the processes and the Arduino.
THEOREM EmergencyEndsPlay == MachineSpec => []EmergencyIsFinal
<1>1. MachineInv /\ EmergencyInv /\ WiresSeen => EmergencyIsFinal
  BY EmergencyReleases DEF MachineInv, WiresSeen, EmergencyIsFinal
<1> QED BY <1>1, MachineInductive, AlwaysEmergencyInv, AlwaysWiresSeen, PTL

\* ... and the sketch starts neither a play nor, while the pins are held, an end
\* pulse after it.
THEOREM QuietAfterEmergency == MachineSpec => NothingAfterEmergency
<1>1. MachineInv /\ MachineInv' /\ EmergencyInv /\ [MachineNext]_machineVars =>
        [emergency_stopped /\ owner = "nobody" /\ ~last_error =>
           /\ fw'.playActive => fw.playActive
           /\ outputs = Pins /\ fw'.timeUpPulse => fw.timeUpPulse]_machineVars
  <2> SUFFICES ASSUME MachineInv, MachineInv', EmergencyInv, [MachineNext]_machineVars,
                      emergency_stopped, owner = "nobody", ~last_error
               PROVE  /\ fw'.playActive => fw.playActive
                      /\ outputs = Pins /\ fw'.timeUpPulse => fw.timeUpPulse
    OBVIOUS
  <2>1. ~gate
    BY EmergencyReleases DEF MachineInv
  <2>2. outputs = Pins => power # EndPulseCode
    BY EndPulseIsNotEmpty DEF EmergencyInv
  <2>3. CASE HostSteps
    BY <2>3, HostSees
  <2>4. CASE SketchPasses
    <3>1. fw.playActive \in BOOLEAN
      BY DEF MachineInv, Sketch!IInv, Sketch!TypeOK, Sketch!Firmware
    <3>2. fw'.playActive => fw.playActive
      BY <2>1, <2>4, <3>1, PassSees DEF NewEdge
    <3>3. fw'.timeUpPulse => ~fw'.playActive
      BY DEF MachineInv, Sketch!IInv, Sketch!Sound
    <3> QED BY <2>2, <2>4, <3>1, <3>2, <3>3, PassSees
  <2>5. CASE SketchRestarts
    BY <2>5 DEF SketchRestarts, Arduino!PowerCycle, Arduino!Boot
  <2>6. CASE TimePasses
    BY <2>6, TickSees
  <2>7. CASE UNCHANGED machineVars
    BY <2>7 DEF machineVars, arduinoVars
  <2> QED BY <2>3, <2>4, <2>5, <2>6, <2>7 DEF MachineNext, HostSteps
<1> QED BY <1>1, MachineInductive, AlwaysEmergencyInv, PTL DEF MachineSpec, NothingAfterEmergency

-----------------------------------------------------------------------------
(***************************************************************************)
(* A start is not taken for a home request.  Here the sketch has to keep up *)
(* with the commands: were its first pass since a start to come after the   *)
(* stop has written 111 and before it releases the gate, the gate would     *)
(* seem to fall with the code of a home request.  The pins, the processes   *)
(* and the Arduino must not fail, although single writes may.               *)
(***************************************************************************)
EdgeInv ==
  gate /\ ~fw.previousStart =>
    /\ power # EndPulseCode
    /\ ~seen
    /\ owner = "nobody" \/ (command = "PLAY START" /\ step = "reply")

LEMMA AlwaysHeldInv ==
  ASSUME "outputs" \notin Faults
  PROVE  MachineSpec => []HeldInv
BY AlwaysHeld, ControllerInMachine, PTL

\* A start that waits for its reply does nothing but take it.
LEMMA StartReplies ==
  ASSUME IInv, CommandSteps, command = "PLAY START", step = "reply"
  PROVE  PlayStarted \/ CommandFailed
<1>1. owner = "start"
  BY DEF IInv, TypeOK, LockTypeOK, LockInv, Owners
<1> QED BY <1>1
        DEF CommandSteps, ConnectForCommand, WritePowerPin, WriteGate, WriteRaises,
            PowerSentForStart, PlayStopped, ClawPowerSet, EmergencyStopped, ReplyIs, PowerPins,
            Pins

LEMMA EdgeStep ==
  ASSUME Faults \subseteq {"write"}, "firmware" \in KeepsUp,
         MachineInv, HeldInv, EdgeInv, [MachineNext]_machineVars
  PROVE  EdgeInv'
<1>1. CASE HostSteps
  <2>1. [ControllerNext]_controllerVars /\ fw' = fw /\ (seen' <=> seen /\ wires' = wires)
    BY <1>1, HostSees
  <2>2. IInv /\ PinTypeOK /\ LockInv
    BY DEF MachineInv, IInv, TypeOK
  <2>3. ASSUME ~gate, gate'
        PROVE  EdgeInv'
    <3>1. WriteGate /\ command = "PLAY START"
      BY <2>1, <2>2, <2>3, GateRises
    <3>a. power # EndPulseCode
      <4>1. outputs = Pins
        BY <3>1 DEF WriteGate, HeldInv, Pins
      <4> QED BY <2>1, <2>2, <2>3, <4>1, OpensSafely
    <3>2. power' = power /\ step' = "reply" /\ command' = command
      BY <3>1 DEF WriteGate
    <3>3. wires' # wires
      BY <2>3 DEF wires
    <3> QED BY <2>1, <3>1, <3>a, <3>2, <3>3 DEF EdgeInv
  <2>4. ASSUME gate, ~fw.previousStart
        PROVE  EdgeInv'
    <3>1. ~seen /\ power # EndPulseCode
          /\ (owner = "nobody" \/ (command = "PLAY START" /\ step = "reply"))
      BY <2>4 DEF EdgeInv
    <3>2. CommandSteps
      <4>1. CommandSteps \/ LoseOutputs \/ Restart
        BY <1>1, <3>1, HostSees
      <4> QED BY <4>1 DEF LoseOutputs, Restart
    <3>3. step # "idle"
      BY <3>2 DEF CommandSteps, ConnectForCommand, WritePowerPin, WriteGate, WriteRaises,
                  PowerSentForStart, PlayStarted, PlayStopped, ClawPowerSet, CommandFailed,
                  EmergencyStopped, ReplyIs, PowerPins, Pins
    <3>4. command = "PLAY START" /\ step = "reply"
      BY <2>2, <3>1, <3>3 DEF LockInv
    <3>5. owner' = "nobody" /\ Connect
      BY <2>2, <3>2, <3>4, StartReplies DEF PlayStarted, CommandFailed, ReplyIs, Release
    <3>6. outputs = Pins
      BY <3>4 DEF HeldInv
    <3>7. power' = power
      BY <2>2, <3>5, <3>6, ConnectLemma
    <3> QED BY <2>1, <3>1, <3>5, <3>7 DEF EdgeInv
  <2> QED BY <2>1, <2>2, <2>3, <2>4 DEF EdgeInv, PinTypeOK
<1>2. CASE SketchPasses
  <2>1. gate' = gate
    BY <1>2, PassSees DEF controllerVars, wires
  <2> QED BY <1>2, <2>1, PassSees DEF EdgeInv
<1>3. CASE SketchRestarts
  BY <1>3 DEF SketchRestarts
<1>4. CASE TimePasses
  <2>1. UNCHANGED << gate, power, owner, command, step, seen >>
    BY <1>4 DEF TimePasses, Tick, wires, lockState
  <2> QED BY <1>4, <2>1, TickSees DEF EdgeInv
<1>5. CASE UNCHANGED machineVars
  BY <1>5 DEF machineVars, controllerVars, arduinoVars, wires, lockState, EdgeInv
<1> QED BY <1>1, <1>2, <1>3, <1>4, <1>5 DEF MachineNext, HostSteps

LEMMA AlwaysEdgeInv ==
  ASSUME Faults \subseteq {"write"}, "firmware" \in KeepsUp
  PROVE  MachineSpec => []EdgeInv
<1>1. MachineInit => EdgeInv
  BY DEF MachineInit, ControllerInit, EdgeInv
<1>2. MachineInv /\ HeldInv /\ EdgeInv /\ [MachineNext]_machineVars => EdgeInv'
  BY EdgeStep
<1>3. "outputs" \notin Faults
  OBVIOUS
<1> QED BY <1>1, <1>2, <1>3, MachineInductive, AlwaysHeldInv, PTL DEF MachineSpec

\* Every start that the sketch notices begins a play, for every number of commands,
\* threads and failing writes: none is mistaken for a home request.
THEOREM StartsArePlays ==
  ASSUME Faults \subseteq {"write"}, "firmware" \in KeepsUp
  PROVE  MachineSpec => StartIsNoHomeRequest
<1>1. MachineInv /\ EdgeInv /\ [MachineNext]_machineVars =>
        [/\ ~fw.previousStart /\ fw'.previousStart /\ fw.homing # "fault"
         /\ owner = "start" \/ play_mode # "none"
         => fw'.playActive]_machineVars
  <2> SUFFICES ASSUME MachineInv, EdgeInv, [MachineNext]_machineVars,
                      ~fw.previousStart, fw'.previousStart, fw.homing # "fault"
               PROVE  fw'.playActive
    OBVIOUS
  <2>1. CASE HostSteps
    BY <2>1, HostSees
  <2>2. CASE SketchPasses
    BY <2>2, PassSees DEF EdgeInv, NewEdge
  <2>3. CASE SketchRestarts
    BY <2>3 DEF SketchRestarts
  <2>4. CASE TimePasses
    BY <2>4, TickSees
  <2>5. CASE UNCHANGED machineVars
    BY <2>5 DEF machineVars, arduinoVars
  <2> QED BY <2>1, <2>2, <2>3, <2>4, <2>5 DEF MachineNext, HostSteps
<1> QED BY <1>1, MachineInductive, AlwaysEdgeInv, PTL DEF MachineSpec, StartIsNoHomeRequest

-----------------------------------------------------------------------------
(***************************************************************************)
(* The two sides agree.  Without faults every command succeeds (CalmInv);   *)
(* when the sketch keeps up, the play it counts is the play the controller  *)
(* counts (PlayInv), until the firmware's own limit ends it.  Where every   *)
(* accepted play is shorter than the limit and the host keeps up too, the   *)
(* controller is first (LimitInv).                                          *)
(***************************************************************************)
CalmInv ==
  /\ reply_ok /\ ~last_error /\ status # "fault"
  /\ play_mode # "none" => status = "running"
  /\ gate => play_mode # "none" \/ (command = "PLAY START" /\ step = "reply")

LEMMA CalmStep ==
  ASSUME Faults = {}, IInv, HeldInv, CalmInv, [ControllerNext]_controllerVars
  PROVE  CalmInv'
<1> USE DEF CalmInv
<1>a. PinTypeOK /\ LockInv /\ LockTypeOK /\ GateInv
  BY DEF IInv, TypeOK
<1>1. CASE UNCHANGED << machineState, lockState, wires >>
  BY <1>1 DEF machineState, lockState, wires
<1>2. ASSUME owner = "nobody", reply_ok', UNCHANGED << machineState, wires >>
      PROVE  CalmInv'
  BY <1>2, <1>a DEF LockInv, machineState, wires
<1>3. ASSUME NEW mode \in PlayModes, NEW duration \in Durations, NEW startup \in Startups,
             StartPlay(mode, duration, startup)
      PROVE  CalmInv'
  BY <1>2, <1>3 DEF StartPlay, Acquire
<1>4. ASSUME NEW percent \in Percents, SetClawPower(percent)
      PROVE  CalmInv'
  BY <1>2, <1>4 DEF SetClawPower, Acquire
<1>5. CASE StopPlay
  BY <1>2, <1>5 DEF StopPlay, Acquire
<1>6. CASE EmergencyStop
  <2>1. owner = "nobody" /\ reply_ok'
        /\ UNCHANGED << status, play_mode, last_error, gate >>
    BY <1>6 DEF EmergencyStop, Acquire, wires
  <2> QED BY <2>1, <1>a DEF LockInv
<1>7. CASE PollStatus
  <2>1. (gate' => gate) /\ UNCHANGED << machineState, lockState >>
    BY <1>7, <1>a, ConnectLemma DEF PollStatus
  <2> QED BY <2>1 DEF machineState, lockState
<1>8. ASSUME NEW g \in Generations, AutoStop(g)
      PROVE  CalmInv'
  BY <1>1, <1>2, <1>8 DEF AutoStop, Acquire
<1>9. CASE ConnectForCommand
  <2>1. outputs' = Pins /\ (gate' => gate)
    BY <1>9, <1>a, SafeConnect, ConnectLemma DEF ConnectForCommand, HeldInv
  <2>2. reply_ok' = reply_ok /\ step # "reply" /\ UNCHANGED << machineState, command >>
    BY <1>9, <2>1 DEF ConnectForCommand
  <2> QED BY <2>1, <2>2 DEF machineState
<1>10. CASE WritePowerPin
  <2>1. step # "reply" /\ UNCHANGED << machineState, gate, reply_ok >>
    BY <1>10 DEF WritePowerPin, PowerPins
  <2> QED BY <2>1 DEF machineState
<1>11. CASE WriteGate
  <2>1. /\ gate' <=> command = "PLAY START"
        /\ step' = "reply" /\ UNCHANGED << machineState, command, reply_ok >>
    BY <1>11 DEF WriteGate
  <2> QED BY <2>1 DEF machineState
<1>12. CASE PowerSentForStart
  <2>1. (gate' => gate) /\ command # "PLAY START" /\ ~last_error'
        /\ UNCHANGED << status, play_mode, reply_ok >>
    BY <1>12, <1>a, ConnectLemma DEF PowerSentForStart, ReplyIs
  <2> QED BY <2>1
<1>13. CASE PlayStarted
  <2>1. status' = "running" /\ play_mode' \in PlayModes /\ ~last_error' /\ reply_ok'
    BY <1>13, <1>a DEF PlayStarted, Release, LockTypeOK, Request
  <2> QED BY <2>1 DEF PlayModes
<1>14. CASE PlayStopped \/ EmergencyStopped
  <2>1. command \in {"PLAY STOP", "EMERGENCY STOP"} /\ step = "reply" /\ Connect
    BY <1>14, <1>a DEF PlayStopped, EmergencyStopped, ReplyIs, LockInv
  <2>2. ~gate'
    BY <2>1, <1>a, ConnectLemma DEF GateInv
  <2>3. status' # "fault" /\ play_mode' = "none" /\ ~last_error' /\ reply_ok'
    BY <1>14 DEF PlayStopped, EmergencyStopped, ReplyIs, MarkStopped, Release
  <2> QED BY <2>2, <2>3
<1>15. CASE ClawPowerSet
  <2>1. (gate' => gate) /\ command # "PLAY START" /\ ~last_error' /\ reply_ok'
        /\ UNCHANGED << status, play_mode >>
    BY <1>15, <1>a, ConnectLemma DEF ClawPowerSet, ReplyIs, Release, LockInv
  <2> QED BY <2>1
<1>16. CASE CommandFailed
  BY <1>16 DEF CommandFailed, ReplyIs
<1>17. ~WriteRaises /\ ~LoseOutputs /\ ~Restart
  BY DEF WriteRaises, LoseOutputs, Restart, HeldInv
<1>18. CASE Tick
  <2>1. UNCHANGED << status, play_mode, last_error, reply_ok, command, step, gate >>
    BY <1>18 DEF Tick, lockState, wires
  <2> QED BY <2>1
<1>19. CASE UNCHANGED controllerVars
  BY <1>1, <1>19 DEF controllerVars
<1> QED
  BY <1>3, <1>4, <1>5, <1>6, <1>7, <1>8, <1>9, <1>10, <1>11, <1>12, <1>13, <1>14, <1>15,
     <1>16, <1>17, <1>18, <1>19
     DEF ControllerNext, ControllerStep, BeginCommand, CommandSteps

LEMMA AlwaysCalmInv ==
  ASSUME Faults = {}
  PROVE  MachineSpec => []CalmInv
<1>1. ControllerInit => CalmInv
  BY DEF ControllerInit, CalmInv
<1>2. IInv /\ HeldInv /\ CalmInv /\ [ControllerNext]_controllerVars => CalmInv'
  BY CalmStep
<1>3. "outputs" \notin Faults
  OBVIOUS
<1> QED BY <1>1, <1>2, <1>3, AlwaysHeldInv, ControllerInMachine, Inductive, PTL
           DEF ControllerSpec

PlayInv ==
  /\ owner = "start" /\ ~gate => ~fw.previousStart /\ ~fw.playActive
  /\ fw.previousStart /\ gate =>
       fw.playActive \/ fw.homing = "fault" \/ fw.playAge >= PlayLimit
  /\ fw.playActive /\ ~gate =>
       /\ power = IF emergency_stopped THEN {} ELSE EndPulseCode
       /\ ~seen
       /\ \/ owner = "nobody"
          \/ step = "reply" /\ command \in {"PLAY STOP", "EMERGENCY STOP"}

\* Without faults only the write of the gate changes the gate.
LEMMA GateIsWritten ==
  ASSUME Faults = {}, IInv, HeldInv, CalmInv, [ControllerNext]_controllerVars, ~WriteGate
  PROVE  gate' = gate
<1>1. PinTypeOK
  BY DEF IInv, TypeOK
<1>2. gate => outputs = Pins
  BY DEF HeldInv, CalmInv
<1>3. ASSUME Connect
      PROVE  gate' = gate
  BY <1>1, <1>2, <1>3, ConnectLemma DEF PinTypeOK
<1>4. ~LoseOutputs /\ ~Restart
  BY DEF LoseOutputs, Restart
<1> QED BY <1>3, <1>4
     DEF ControllerNext, ControllerStep, BeginCommand, CommandSteps, StartPlay, StopPlay,
         SetClawPower, EmergencyStop, PollStatus, AutoStop, Outdated, ConnectForCommand,
         WritePowerPin, WriteRaises, PowerSentForStart, PlayStarted, PlayStopped, ClawPowerSet,
         CommandFailed, EmergencyStopped, ReplyIs, Tick, controllerVars, wires

\* The first step of a command, which changes no wire and moves no play.
LEMMA FirstStep ==
  ASSUME Faults = {}, MachineInv, HeldInv, CalmInv,
         BeginCommand \/ (\E g \in Generations : AutoStop(g))
  PROVE  /\ owner = "nobody" /\ gate' = gate
         /\ UNCHANGED << play_mode, play_ends_in >>
<1>1. owner = "nobody"
  BY DEF BeginCommand, StartPlay, StopPlay, SetClawPower, EmergencyStop, PollStatus, AutoStop,
         Acquire
<1>2. gate' = gate
  <2>1. [ControllerNext]_controllerVars
    BY DEF ControllerNext, ControllerStep
  <2>2. ~WriteGate
    BY <1>1 DEF WriteGate, MachineInv, IInv, LockInv
  <2> QED BY <2>1, <2>2, GateIsWritten DEF MachineInv
<1>3. UNCHANGED << play_mode, play_ends_in >>
  BY DEF BeginCommand, StartPlay, StopPlay, SetClawPower, EmergencyStop, PollStatus, AutoStop,
         machineState
<1> QED BY <1>1, <1>2, <1>3

\* It finds the sketch aware of the wires.
LEMMA PlayBegins ==
  ASSUME Faults = {}, MachineInv, HeldInv, CalmInv, WiresSeen, PlayInv, seen,
         BeginCommand \/ (\E g \in Generations : AutoStop(g)), fw' = fw
  PROVE  PlayInv'
<1>1. gate' = gate
  BY FirstStep
<1>2. (fw.previousStart <=> gate) /\ (fw.playActive => gate)
  BY DEF WiresSeen
<1> QED BY <1>1, <1>2 DEF PlayInv

\* The rest of a command.
LEMMA PlayProceeds ==
  ASSUME Faults = {}, MachineInv, HeldInv, CalmInv, PlayInv, CommandSteps,
         fw' = fw, seen' <=> seen /\ wires' = wires
  PROVE  PlayInv'
<1>a. IInv /\ PinTypeOK /\ LockInv /\ LockTypeOK /\ GateInv
  BY DEF MachineInv, IInv, TypeOK
<1>b. [ControllerNext]_controllerVars
  BY DEF ControllerNext, ControllerStep
<1>1. CASE WriteGate
  <2>1. /\ step = "A0" /\ step' = "reply" /\ (gate' <=> command = "PLAY START")
        /\ UNCHANGED << owner, command, power, outputs, emergency_stopped >>
    BY <1>1 DEF WriteGate, machineState
  <2>2. CASE command = "PLAY START"
    <3>1. owner = "start" /\ play_mode = "none"
      BY <2>2, <1>a DEF LockInv, LockTypeOK, Owners
    <3>2. ~gate
      BY <2>1, <3>1 DEF CalmInv
    <3>3. ~fw.previousStart /\ ~fw.playActive
      BY <3>1, <3>2 DEF PlayInv
    <3> QED BY <2>1, <2>2, <3>3 DEF PlayInv
  <2>3. CASE command # "PLAY START"
    <3>1. command \in {"PLAY STOP", "EMERGENCY STOP"} /\ owner # "start"
      BY <2>1, <2>3, <1>a DEF LockInv, LockTypeOK, Owners, PinsInv, MachineInv, IInv
    <3>2. fw.playActive => gate
      BY <2>1, <1>a DEF PlayInv, LockInv
    <3>3. fw.playActive => power = IF emergency_stopped THEN {} ELSE EndPulseCode
      <4> SUFFICES ASSUME fw.playActive
                   PROVE  power = IF emergency_stopped THEN {} ELSE EndPulseCode
        OBVIOUS
      <4>1. gate /\ ~gate'
        BY <2>1, <2>3, <3>2
      <4>2. outputs = Pins
        BY <2>1 DEF HeldInv, Pins
      <4>3. power \cap outputs =
              (IF owner = "emergency" THEN {} ELSE EndPulseCode) \cap outputs
        BY <1>a, <1>b, <2>1, <4>1, <4>2, ReleaseCode DEF Pins
      <4>4. power \subseteq outputs /\ EndPulseCode \subseteq outputs
        BY <4>2, <1>a DEF PinTypeOK, Pins, EndPulseCode, LevelPins
      <4>5. owner = "emergency" <=> emergency_stopped
        BY <3>1, <1>a DEF LockInv, LockTypeOK, Owners
      <4> QED BY <4>3, <4>4, <4>5
    <3>4. ~gate' /\ (gate => ~seen')
      BY <2>1, <2>3, <1>a DEF wires, PinTypeOK
    <3> QED BY <2>1, <3>1, <3>2, <3>3, <3>4 DEF PlayInv
  <2> QED BY <2>2, <2>3
<1>2. CASE ~WriteGate
  <2>1. gate' = gate
    BY <1>2, <1>a, <1>b, GateIsWritten
  <2>2. CASE ConnectForCommand \/ WritePowerPin
    <3>1. step \in PowerPins \cup {"connect"} /\ owner # "nobody" /\ UNCHANGED owner
      BY <2>2, <1>a DEF ConnectForCommand, WritePowerPin, LockInv, PowerPins
    <3>2. ~(fw.playActive /\ ~gate)
      BY <3>1 DEF PlayInv, PowerPins
    <3> QED BY <2>1, <3>1, <3>2 DEF PlayInv
  <2>3. CASE PowerSentForStart
    <3>1. owner = "start" /\ UNCHANGED owner
      BY <2>3 DEF PowerSentForStart, ReplyIs
    <3> QED BY <2>1, <3>1 DEF PlayInv
  <2>4. CASE PlayStarted
    <3>1. owner' = "nobody" /\ command = "PLAY START" /\ step = "reply" /\ reply_ok
      BY <2>4, <1>a DEF PlayStarted, ReplyIs, Release
    <3>2. gate
      BY <3>1 DEF HeldInv
    <3> QED BY <2>1, <3>1, <3>2 DEF PlayInv
  <2>5. CASE PlayStopped \/ EmergencyStopped
    <3>1. /\ step = "reply" /\ Connect /\ command \in {"PLAY STOP", "EMERGENCY STOP"}
          /\ owner' = "nobody" /\ UNCHANGED emergency_stopped
      BY <2>5, <1>a DEF PlayStopped, EmergencyStopped, ReplyIs, MarkStopped, Release, LockInv
    <3>2. ~gate /\ outputs = Pins
      BY <3>1, <1>a DEF GateInv, CalmInv, HeldInv, Pins
    <3>3. power' = power
      BY <3>1, <3>2, <1>a, ConnectLemma
    <3> QED BY <2>1, <3>1, <3>2, <3>3 DEF PlayInv
  <2>6. CASE ClawPowerSet
    <3>1. command = "CLAW POWER" /\ owner # "nobody" /\ owner' = "nobody"
      BY <2>6, <1>a DEF ClawPowerSet, ReplyIs, Release, LockInv
    <3>2. ~(fw.playActive /\ ~gate)
      BY <3>1 DEF PlayInv
    <3> QED BY <2>1, <3>1, <3>2 DEF PlayInv
  <2>7. ~CommandFailed /\ ~WriteRaises
    BY DEF CommandFailed, ReplyIs, WriteRaises, CalmInv, HeldInv
  <2> QED BY <1>2, <2>2, <2>3, <2>4, <2>5, <2>6, <2>7 DEF CommandSteps
<1> QED BY <1>1, <1>2

\* A pass of loop(): a play it ends with the gate low has reached the limit.
LEMMA PlayIsSampled ==
  ASSUME MachineInv, EdgeInv, PlayInv, SketchPasses
  PROVE  PlayInv'
<1>1. UNCHANGED << gate, power, owner, step, command, emergency_stopped >>
  BY PassSees DEF controllerVars, machineState, lockState, wires
<1>2. fw'.previousStart = gate /\ (fw'.playActive => gate)
  BY PassSees
<1>3. fw.playAge \in Nat /\ PlayLimit \in Nat \ {0}
  BY MachineAssumption DEF MachineInv, Sketch!IInv, Sketch!TypeOK, Sketch!Firmware
<1>4. gate => fw'.playActive \/ fw'.homing = "fault" \/ fw'.playAge >= PlayLimit
  <2> SUFFICES ASSUME gate, ~fw'.playActive, fw.homing # "fault"
               PROVE  fw'.playAge >= PlayLimit
    BY PassSees
  <2>1. fw.previousStart
    BY PassSees DEF EdgeInv, NewEdge
  <2>2. fw.playAge >= PlayLimit
    BY <2>1, <1>3, PassSees DEF PlayInv
  <2> QED BY <2>2, PassSees
<1> QED BY <1>1, <1>2, <1>4 DEF PlayInv

\* A tick.
LEMMA PlayTicks ==
  ASSUME MachineInv, PlayInv, TimePasses
  PROVE  PlayInv'
<1>1. UNCHANGED << gate, power, owner, step, command, emergency_stopped, seen >>
  BY DEF TimePasses, Tick, lockState, wires
<1>2. /\ fw'.previousStart = fw.previousStart /\ fw'.playActive = fw.playActive
      /\ fw'.homing = fw.homing /\ (~fw.playActive => fw'.playAge = fw.playAge)
  BY TickSees
<1> QED BY <1>1, <1>2 DEF PlayInv

LEMMA PlayStep ==
  ASSUME Faults = {}, "firmware" \in KeepsUp,
         MachineInv, HeldInv, CalmInv, WiresSeen, EdgeInv, PlayInv, [MachineNext]_machineVars
  PROVE  PlayInv'
<1>1. CASE HostBegins \/ (\E g \in Generations : HostAutoStops(g))
  BY <1>1, PlayBegins DEF HostBegins, HostAutoStops, Host, SketchHasCaughtUp, arduinoVars
<1>2. CASE HostProceeds
  <2>1. CommandSteps /\ fw' = fw /\ (seen' <=> seen /\ wires' = wires)
    BY <1>2, HostSees DEF HostSteps, HostProceeds, Host
  <2> QED BY <2>1, PlayProceeds
<1>3. CASE SketchPasses
  BY <1>3, PlayIsSampled
<1>4. CASE TimePasses
  BY <1>4, PlayTicks
<1>5. CASE UNCHANGED machineVars
  <2>1. UNCHANGED << fw, seen, gate, power, owner, step, command, emergency_stopped >>
    BY <1>5 DEF machineVars, controllerVars, arduinoVars, machineState, lockState, wires
  <2> QED BY <2>1 DEF PlayInv
<1>6. ~HostFails /\ ~SketchRestarts
  BY DEF HostFails, Host, LoseOutputs, Restart, SketchRestarts
<1> QED BY <1>1, <1>2, <1>3, <1>4, <1>5, <1>6 DEF MachineNext

LEMMA AlwaysPlayInv ==
  ASSUME Faults = {}, "firmware" \in KeepsUp
  PROVE  MachineSpec => [](HeldInv /\ CalmInv /\ PlayInv)
<1>1. MachineInit => PlayInv
  BY SameSteps DEF MachineInit, ControllerInit, Arduino!FirmwareInit, Arduino!Boot, PlayInv
<1>2. /\ MachineInv /\ HeldInv /\ CalmInv /\ WiresSeen /\ EdgeInv /\ PlayInv
      /\ [MachineNext]_machineVars
      => PlayInv'
  BY PlayStep
<1>3. "outputs" \notin Faults /\ Faults \subseteq {"write"}
  OBVIOUS
<1> QED BY <1>1, <1>2, <1>3, MachineInductive, AlwaysHeldInv, AlwaysCalmInv, AlwaysWiresSeen,
           AlwaysEdgeInv, PTL DEF MachineSpec

\* Between commands, and once the sketch has seen the wires, the controller and
\* the sketch agree on whether a play is going on, but for a play that the homing
\* fault refuses or the sketch's limit has ended.
THEOREM BothSidesAgree ==
  ASSUME Faults = {}, "firmware" \in KeepsUp
  PROVE  MachineSpec => []SidesAgree
<1>1. MachineInv /\ WiresSeen /\ HeldInv /\ CalmInv /\ PlayInv => SidesAgree
  <2> SUFFICES ASSUME MachineInv, WiresSeen, HeldInv, CalmInv, PlayInv, owner = "nobody", seen
               PROVE  play_mode # "none" <=>
                        fw.playActive \/ (gate /\ (fw.homing = "fault" \/ EndedByTheLimit))
    BY DEF SidesAgree
  <2>1. gate <=> play_mode # "none"
    BY DEF HeldInv, CalmInv, MachineInv, IInv, LockInv
  <2>2. fw.playActive => gate
    BY DEF WiresSeen
  <2>3. gate => fw.playActive \/ fw.homing = "fault" \/ EndedByTheLimit
    BY DEF WiresSeen, PlayInv, EndedByTheLimit
  <2> QED BY <2>1, <2>2, <2>3
<1> QED BY <1>1, MachineInductive, AlwaysWiresSeen, AlwaysPlayInv, PTL

\* The pass that ends a play, with the gate released or at the limit.
LEMMA PlayEnds ==
  ASSUME Faults = {}, MachineInv, PlayInv, [MachineNext]_machineVars,
         fw.playActive, ~fw'.playActive
  PROVE  /\ ~(gate /\ fw.playAge < PlayLimit)
         /\ fw'.timeUpPulse <=> ~gate /\ ~emergency_stopped
<1>1. SketchPasses
  <2>1. ~HostSteps
    BY HostSees
  <2>2. ~SketchRestarts
    BY DEF SketchRestarts
  <2>3. ~TimePasses
    BY TickSees
  <2> QED BY <2>1, <2>2, <2>3 DEF MachineNext, HostSteps, machineVars, arduinoVars
<1>2. ~(gate /\ fw.playAge < PlayLimit) /\ (fw'.timeUpPulse <=> ~gate /\ power = EndPulseCode)
  BY <1>1, PassSees
<1>3. ~gate => power = IF emergency_stopped THEN {} ELSE EndPulseCode
  BY DEF PlayInv
<1> QED BY <1>2, <1>3, EndPulseIsNotEmpty

\* Every play whose gate is released ends with the pulses of the grabber, but for
\* an emergency stop, and none that the sketch's limit ends: the code the sketch
\* finds when it notices the released gate is the one its stop has written.
THEOREM PlaysEndPulsed ==
  ASSUME Faults = {}, "firmware" \in KeepsUp
  PROVE  MachineSpec => EndIsPulsed
<1>1. MachineInv /\ PlayInv /\ [MachineNext]_machineVars =>
        [fw.playActive /\ ~fw'.playActive =>
           (fw'.timeUpPulse <=> ~gate /\ ~emergency_stopped)]_machineVars
  BY PlayEnds
<1> QED BY <1>1, MachineInductive, AlwaysPlayInv, PTL DEF MachineSpec, EndIsPulsed

(***************************************************************************)
(* Plays that fit the firmware's limit.                                     *)
(***************************************************************************)
PlaysFitTheLimit ==
  \A duration \in Durations \cap (MinDuration .. MaxDuration),
     startup \in Startups \cap (0 .. MaxStartup) : startup + duration < PlayLimit

LimitInv ==
  /\ owner = "start" => request.window < PlayLimit
  /\ fw.playActive /\ gate =>
       IF play_mode # "none" THEN fw.playAge + play_ends_in < PlayLimit ELSE fw.playAge = 0
  /\ play_mode # "none" => play_ends_in < PlayLimit

\* A command that begins; the validator has looked at the window of a start.
LEMMA LimitBegins ==
  ASSUME Faults = {}, PlaysFitTheLimit, MachineInv, HeldInv, CalmInv, LimitInv,
         BeginCommand \/ (\E g \in Generations : AutoStop(g)), fw' = fw
  PROVE  LimitInv'
<1>1. owner' = "start" => request'.window < PlayLimit
  <2> SUFFICES ASSUME owner' = "start" PROVE request'.window < PlayLimit
    OBVIOUS
  <2>1. owner = "nobody"
    BY FirstStep
  <2>2. PICK mode \in PlayModes, duration \in Durations, startup \in Startups :
          StartPlay(mode, duration, startup)
    BY <2>1 DEF BeginCommand, StopPlay, SetClawPower, EmergencyStop, PollStatus, AutoStop,
                Acquire, lockState
  <2>3. request'.window = startup + duration
    BY <2>2 DEF StartPlay, Acquire, NoRequest
  <2>4. startup + duration < PlayLimit
    BY <2>2 DEF StartPlay, PlaysFitTheLimit
  <2> QED BY <2>3, <2>4
<1> QED BY <1>1, FirstStep DEF LimitInv

\* The rest of a command.
LEMMA LimitProceeds ==
  ASSUME Faults = {}, MachineInv, HeldInv, CalmInv, PlayInv, LimitInv, CommandSteps, fw' = fw
  PROVE  LimitInv'
<1>a. IInv /\ PinTypeOK /\ LockInv /\ LockTypeOK /\ GateInv
  BY DEF MachineInv, IInv, TypeOK
<1>b. [ControllerNext]_controllerVars
  BY DEF ControllerNext, ControllerStep
<1>1. CASE WriteGate
  <2>1. /\ step = "A0" /\ (gate' <=> command = "PLAY START")
        /\ UNCHANGED << owner, request, play_mode, play_ends_in >>
    BY <1>1 DEF WriteGate, machineState
  <2>2. command = "PLAY START" => ~fw.playActive
    <3> SUFFICES ASSUME command = "PLAY START" PROVE ~fw.playActive
      OBVIOUS
    <3>1. owner = "start" /\ play_mode = "none"
      BY <1>a DEF LockInv, LockTypeOK, Owners
    <3>2. ~gate
      BY <2>1, <3>1 DEF CalmInv
    <3> QED BY <3>1, <3>2 DEF PlayInv
  <2> QED BY <2>1, <2>2 DEF LimitInv
<1>2. CASE ~WriteGate
  <2>1. gate' = gate
    BY <1>2, <1>a, <1>b, GateIsWritten
  <2>2. CASE ConnectForCommand \/ WritePowerPin \/ PowerSentForStart
    <3>1. UNCHANGED << owner, request, play_mode, play_ends_in >>
      BY <2>2 DEF ConnectForCommand, WritePowerPin, PowerSentForStart, machineState
    <3> QED BY <2>1, <3>1 DEF LimitInv
  <2>3. CASE PlayStarted
    <3>1. /\ owner = "start" /\ owner' = "nobody" /\ play_ends_in' = request.window
          /\ play_mode' = request.mode
      BY <2>3 DEF PlayStarted, ReplyIs, Release
    <3>2. play_mode = "none" /\ play_mode' # "none" /\ request.window \in Nat
      BY <3>1, <1>a DEF LockInv, LockTypeOK, Request, PlayModes
    <3>3. request.window < PlayLimit /\ (fw.playActive /\ gate => fw.playAge = 0)
      BY <3>1, <3>2 DEF LimitInv
    <3>4. fw.playActive /\ gate => fw.playAge + request.window < PlayLimit
      BY <3>2, <3>3
    <3> QED BY <2>1, <3>1, <3>2, <3>3, <3>4 DEF LimitInv
  <2>4. CASE PlayStopped \/ EmergencyStopped
    <3>1. /\ step = "reply" /\ command \in {"PLAY STOP", "EMERGENCY STOP"}
          /\ owner' = "nobody" /\ play_mode' = "none"
      BY <2>4, <1>a DEF PlayStopped, EmergencyStopped, ReplyIs, MarkStopped, Release, LockInv
    <3>2. ~gate
      BY <3>1, <1>a DEF GateInv, CalmInv
    <3> QED BY <2>1, <3>1, <3>2 DEF LimitInv
  <2>5. CASE ClawPowerSet
    <3>1. owner' = "nobody" /\ UNCHANGED << play_mode, play_ends_in >>
      BY <2>5 DEF ClawPowerSet, Release
    <3> QED BY <2>1, <3>1 DEF LimitInv
  <2>6. ~CommandFailed /\ ~WriteRaises
    BY DEF CommandFailed, ReplyIs, WriteRaises, CalmInv, HeldInv
  <2> QED BY <1>2, <2>2, <2>3, <2>4, <2>5, <2>6 DEF CommandSteps
<1> QED BY <1>1, <1>2

\* A pass of loop().
LEMMA LimitIsSampled ==
  ASSUME MachineInv, LimitInv, SketchPasses
  PROVE  LimitInv'
<1>1. UNCHANGED << gate, owner, request, play_mode, play_ends_in >>
  BY PassSees DEF controllerVars, machineState, lockState, wires
<1>2. play_ends_in \in Nat /\ fw.playAge \in Nat
  BY DEF MachineInv, IInv, TypeOK, StateTypeOK, Sketch!IInv, Sketch!TypeOK, Sketch!Firmware
<1>3. fw'.playActive =>
        IF play_mode # "none" THEN fw'.playAge + play_ends_in < PlayLimit ELSE fw'.playAge = 0
  <2> SUFFICES ASSUME fw'.playActive
               PROVE  IF play_mode # "none" THEN fw'.playAge + play_ends_in < PlayLimit
                                            ELSE fw'.playAge = 0
    OBVIOUS
  <2>1. gate /\ fw'.playAge = IF fw.playActive THEN fw.playAge ELSE 0
    BY PassSees
  <2> QED BY <2>1, <1>2 DEF LimitInv
<1> QED BY <1>1, <1>3 DEF LimitInv

\* A tick, which finds no command under way and no thread due.
LEMMA LimitTicks ==
  ASSUME "host" \in KeepsUp, MachineInv, CalmInv, LimitInv, TimePasses
  PROVE  LimitInv'
<1>1. /\ owner = "nobody" /\ \A g \in Generations : timers[g] # 0
      /\ play_ends_in' = CountDown(play_ends_in)
      /\ UNCHANGED << gate, owner, play_mode >>
  BY DEF TimePasses, HostHasCaughtUp, Tick, lockState, wires
<1>2. play_ends_in \in Nat /\ fw.playAge \in Nat /\ PlayLimit \in Nat
  BY MachineAssumption
     DEF MachineInv, IInv, TypeOK, StateTypeOK, Sketch!IInv, Sketch!TypeOK, Sketch!Firmware
<1>3. play_mode # "none" => play_ends_in # 0
  <2>1. play_mode # "none" => ThreadLives(generation) /\ play_ends_in = timers[generation]
    BY <1>1 DEF CalmInv, MachineInv, IInv, ThreadInv
  <2> QED BY <1>1, <2>1 DEF ThreadLives
<1>4. gate => play_mode # "none"
  BY <1>1 DEF CalmInv, MachineInv, IInv, LockInv
<1>5. play_mode # "none" => play_ends_in' = play_ends_in - 1
  BY <1>1, <1>2, <1>3 DEF CountDown
<1>6. fw'.playActive = fw.playActive /\ fw'.playAge \in Int /\ fw'.playAge =< fw.playAge + 1
  BY <1>2, TickSees
<1>7. fw.playActive /\ gate => fw'.playAge + play_ends_in' < PlayLimit
  <2> SUFFICES ASSUME fw.playActive, gate PROVE fw'.playAge + play_ends_in' < PlayLimit
    OBVIOUS
  <2>1. fw.playAge + play_ends_in < PlayLimit
    BY <1>4 DEF LimitInv
  <2> QED BY <1>2, <1>4, <1>5, <1>6, <2>1
<1>8. play_mode # "none" => play_ends_in' < PlayLimit
  <2>1. play_mode # "none" => play_ends_in < PlayLimit
    BY DEF LimitInv
  <2> QED BY <1>2, <1>5, <2>1
<1> QED BY <1>1, <1>4, <1>6, <1>7, <1>8 DEF LimitInv

LEMMA LimitStep ==
  ASSUME Faults = {}, "host" \in KeepsUp, PlaysFitTheLimit,
         MachineInv, HeldInv, CalmInv, PlayInv, LimitInv, [MachineNext]_machineVars
  PROVE  LimitInv'
<1>1. CASE HostBegins \/ (\E g \in Generations : HostAutoStops(g))
  BY <1>1, LimitBegins DEF HostBegins, HostAutoStops, Host, arduinoVars
<1>2. CASE HostProceeds
  BY <1>2, LimitProceeds DEF HostProceeds, Host, arduinoVars
<1>3. CASE SketchPasses
  BY <1>3, LimitIsSampled
<1>4. CASE TimePasses
  BY <1>4, LimitTicks
<1>5. CASE UNCHANGED machineVars
  <2>1. UNCHANGED << fw, gate, owner, request, play_mode, play_ends_in >>
    BY <1>5 DEF machineVars, controllerVars, arduinoVars, machineState, lockState, wires
  <2> QED BY <2>1 DEF LimitInv
<1>6. ~HostFails /\ ~SketchRestarts
  BY DEF HostFails, Host, LoseOutputs, Restart, SketchRestarts
<1> QED BY <1>1, <1>2, <1>3, <1>4, <1>5, <1>6 DEF MachineNext

LEMMA AlwaysLimitInv ==
  ASSUME Faults = {}, {"firmware", "host"} \subseteq KeepsUp, PlaysFitTheLimit
  PROVE  MachineSpec => []LimitInv
<1>1. MachineInit => LimitInv
  BY SameSteps DEF MachineInit, ControllerInit, Arduino!FirmwareInit, Arduino!Boot, LimitInv
<1>2. /\ MachineInv /\ HeldInv /\ CalmInv /\ PlayInv /\ LimitInv /\ [MachineNext]_machineVars
      => LimitInv'
  BY LimitStep
<1>3. "firmware" \in KeepsUp
  OBVIOUS
<1> QED BY <1>1, <1>2, <1>3, MachineInductive, AlwaysPlayInv, PTL DEF MachineSpec

\* Where every accepted play is shorter than the sketch's limit, every play that is
\* not ended by an emergency stop ends with its pulses.
THEOREM TimeUpIsPulsed ==
  ASSUME Faults = {}, {"firmware", "host"} \subseteq KeepsUp, PlaysFitTheLimit
  PROVE  MachineSpec => EveryEndIsPulsed
<1>1. MachineInv /\ PlayInv /\ LimitInv /\ [MachineNext]_machineVars =>
        [fw.playActive /\ ~fw'.playActive =>
           (fw'.timeUpPulse <=> ~emergency_stopped)]_machineVars
  <2> SUFFICES ASSUME MachineInv, PlayInv, LimitInv, [MachineNext]_machineVars,
                      fw.playActive, ~fw'.playActive
               PROVE  fw'.timeUpPulse <=> ~emergency_stopped
    OBVIOUS
  <2>1. play_ends_in \in Nat /\ fw.playAge \in Nat /\ PlayLimit \in Nat \ {0}
    BY MachineAssumption
       DEF MachineInv, IInv, TypeOK, StateTypeOK, Sketch!IInv, Sketch!TypeOK, Sketch!Firmware
  <2>2. gate => fw.playAge < PlayLimit
    BY <2>1 DEF LimitInv
  <2> QED BY <2>2, PlayEnds
<1>2. "firmware" \in KeepsUp
  OBVIOUS
<1> QED BY <1>1, <1>2, MachineInductive, AlwaysPlayInv, AlwaysLimitInv, PTL
           DEF MachineSpec, EveryEndIsPulsed

-----------------------------------------------------------------------------
(***************************************************************************)
(* The power of the grabber on its way from a percentage to a level on      *)
(* A1-A3 and back.  Where no write fails, what the pins say during a play   *)
(* is what the controller was last told; processes may die and commands,    *)
(* threads and the sketch may be as late as they like.                      *)
(***************************************************************************)
\* The sketch reads the level that was written.
LEMMA LevelIsRead ==
  ASSUME NEW level \in 0 .. 6, power = LevelPins(level)
  PROVE  Arduino!HoldPercent = MinClawPower + 10 * level
<1>1. level \in {0, 1, 2, 3, 4, 5, 6}
  OBVIOUS
<1>2. /\ "A1" \in power <=> level \in {1, 3, 5}
      /\ "A2" \in power <=> level \in {2, 3, 6}
      /\ "A3" \in power <=> level \in {4, 5, 6}
  BY <1>1 DEF LevelPins, PowerPins, PinWeight
<1>3. /\ Arduino!PinBit("A1") = IF level \in {1, 3, 5} THEN 1 ELSE 0
      /\ Arduino!PinBit("A2") = IF level \in {2, 3, 6} THEN 2 ELSE 0
      /\ Arduino!PinBit("A3") = IF level \in {4, 5, 6} THEN 4 ELSE 0
  BY <1>2 DEF Arduino!PinBit, Arduino!PinWeight
<1>4. Arduino!GrabberPowerLevel = level
  BY <1>1, <1>3 DEF Arduino!GrabberPowerLevel
<1> QED BY <1>1, <1>4 DEF Arduino!HoldPercent, MinClawPower

\* The steps of ten between the limits are exactly what a level can say.
StepsOfTen == {40, 50, 60, 70, 80, 90, 100}

LEMMA StepsAreLevels ==
  ASSUME NEW percent \in StepsOfTen
  PROVE  RoundedPercent(percent) = percent
<1>1. Clamp(percent, MinClawPower, MaxClawPower) = percent
  BY DEF StepsOfTen, Clamp, MinClawPower, MaxClawPower
<1>2. RoundTenth(percent - 40) = (percent - 40) \div 10
  BY DEF StepsOfTen, RoundTenth
<1>3. PowerLevel(percent) = (percent - 40) \div 10
  BY <1>1, <1>2 DEF StepsOfTen, PowerLevel, Clamp, MinClawPower
<1> QED BY <1>3 DEF StepsOfTen, RoundedPercent, MinClawPower

StrengthInv ==
  /\ reply_ok
  /\ command = "PLAY START" => outputs = Pins /\ power = TargetPins
  /\ play_mode # "none" /\ owner = "nobody" => power = LevelPins(PowerLevel(claw_power))

\* While every pin is driven, what a command has written is what the pins are.
LEMMA AllPinsWritten ==
  ASSUME PinTypeOK, outputs = Pins, power \cap outputs = TargetPins \cap outputs,
         command = "CLAW POWER"
  PROVE  power = TargetPins
<1>1. TargetPins \subseteq Pins
  BY DEF TargetPins, LevelPins, Pins
<1>2. power \subseteq Pins
  BY DEF PinTypeOK, Pins
<1> QED BY <1>1, <1>2

LEMMA StrengthStep ==
  ASSUME "write" \notin Faults, "outputs" \notin Faults,
         IInv, HeldInv, StrengthInv, [ControllerNext]_controllerVars
  PROVE  StrengthInv'
<1>a. PinTypeOK /\ LockInv /\ LockTypeOK /\ PinsInv /\ reply_ok
  BY DEF IInv, TypeOK, StrengthInv
<1>1. ASSUME owner' # "nobody", command' # "PLAY START", reply_ok'
      PROVE  StrengthInv'
  BY <1>1 DEF StrengthInv
<1>2. ASSUME play_mode' = "none", command' # "PLAY START", reply_ok'
      PROVE  StrengthInv'
  BY <1>2 DEF StrengthInv
<1>3. ASSUME UNCHANGED << reply_ok, command, owner, request, claw_power, play_mode >>,
             UNCHANGED << outputs, power >> \/ (command # "PLAY START" /\ play_mode = "none")
      PROVE  StrengthInv'
  BY <1>3 DEF StrengthInv, TargetPins
<1>4. ASSUME NEW mode \in PlayModes, NEW duration \in Durations, NEW startup \in Startups,
             StartPlay(mode, duration, startup)
      PROVE  StrengthInv'
  BY <1>1, <1>4 DEF StartPlay, Acquire
<1>5. ASSUME NEW percent \in Percents, SetClawPower(percent)
      PROVE  StrengthInv'
  BY <1>1, <1>5 DEF SetClawPower, Acquire
<1>6. CASE StopPlay \/ EmergencyStop
  BY <1>1, <1>6 DEF StopPlay, EmergencyStop, Acquire
<1>7. CASE PollStatus
  <2>1. UNCHANGED << reply_ok, command, owner, request, claw_power, play_mode >>
        /\ Connect /\ command # "PLAY START"
    BY <1>7, <1>a DEF PollStatus, machineState, lockState, LockInv
  <2>2. play_mode # "none" => UNCHANGED << outputs, power >>
    BY <2>1, <1>a, ConnectLemma DEF HeldInv
  <2> QED BY <1>3, <2>1, <2>2
<1>8. ASSUME NEW g \in Generations, AutoStop(g)
      PROVE  StrengthInv'
  BY <1>1, <1>3, <1>8 DEF AutoStop, Acquire, machineState, lockState, wires
<1>9. CASE ConnectForCommand
  <2>1. /\ Connect /\ owner # "nobody"
        /\ UNCHANGED << command, owner, request, claw_power, play_mode >>
    BY <1>9, <1>a DEF ConnectForCommand, machineState, LockInv
  <2>2. reply_ok' = reply_ok
    BY <1>9, SafeConnect DEF ConnectForCommand, HeldInv
  <2>3. CASE command # "PLAY START"
    BY <1>1, <1>a, <2>1, <2>2, <2>3
  <2>4. CASE command = "PLAY START"
    <3>1. UNCHANGED << outputs, power >>
      BY <2>1, <2>4, <1>a, ConnectLemma DEF StrengthInv
    <3> QED BY <1>3, <2>1, <2>2, <3>1
  <2> QED BY <2>3, <2>4
<1>10. CASE WritePowerPin
  <2>1. command # "PLAY START" /\ owner # "nobody" /\ UNCHANGED << command, owner, reply_ok >>
    BY <1>10, <1>a DEF WritePowerPin, LockInv, PinsInv, PowerPins
  <2> QED BY <1>1, <1>a, <2>1
<1>11. CASE WriteGate
  BY <1>3, <1>11 DEF WriteGate, machineState
<1>12. CASE PowerSentForStart
  <2>1. /\ owner = "start" /\ command = "CLAW POWER" /\ command' = "PLAY START"
        /\ step = "reply" /\ Connect /\ UNCHANGED << owner, request, claw_power, reply_ok >>
    BY <1>12 DEF PowerSentForStart, ReplyIs
  <2>2. outputs = Pins /\ power = TargetPins
    <3>1. outputs = Pins
      BY <2>1 DEF HeldInv
    <3>2. power \cap outputs = TargetPins \cap outputs
      BY <2>1, <1>a DEF PinsInv
    <3> QED BY <2>1, <3>1, <3>2, <1>a, AllPinsWritten
  <2>3. UNCHANGED << outputs, power >> /\ TargetPins' = TargetPins
    BY <2>1, <2>2, <1>a, ConnectLemma DEF TargetPins
  <2> QED BY <2>1, <2>2, <2>3, <1>a DEF StrengthInv
<1>13. CASE PlayStarted \/ ClawPowerSet
  <2>1. step = "reply" /\ Connect /\ owner' = "nobody" /\ command' = "none" /\ reply_ok'
    BY <1>13 DEF PlayStarted, ClawPowerSet, ReplyIs, Release
  <2>2. outputs = Pins /\ power' = power
    BY <2>1, <1>a, ConnectLemma DEF HeldInv
  <2>3. power = TargetPins
    <3>1. CASE PlayStarted
      BY <3>1 DEF PlayStarted, StrengthInv
    <3>2. CASE ClawPowerSet
      <4>1. command = "CLAW POWER"
        BY <3>2, <1>a DEF ClawPowerSet, ReplyIs, LockInv
      <4>2. power \cap outputs = TargetPins \cap outputs
        BY <2>1, <4>1, <1>a DEF PinsInv
      <4> QED BY <2>2, <4>1, <4>2, <1>a, AllPinsWritten
    <3> QED BY <1>13, <3>1, <3>2
  <2>4. TargetPins = LevelPins(PowerLevel(claw_power'))
    BY <1>13, <1>a DEF PlayStarted, ClawPowerSet, ReplyIs, LockInv, TargetPins
  <2> QED BY <2>1, <2>2, <2>3, <2>4 DEF StrengthInv
<1>14. CASE PlayStopped \/ EmergencyStopped \/ Restart
  BY <1>2, <1>14 DEF PlayStopped, EmergencyStopped, Restart, MarkStopped, Release
<1>15. ~CommandFailed /\ ~WriteRaises /\ ~LoseOutputs
  BY <1>a DEF CommandFailed, ReplyIs, WriteRaises, LoseOutputs, HeldInv
<1>16. CASE Tick \/ UNCHANGED controllerVars
  BY <1>3, <1>16 DEF Tick, controllerVars, machineState, lockState, wires
<1> QED
  BY <1>4, <1>5, <1>6, <1>7, <1>8, <1>9, <1>10, <1>11, <1>12, <1>13, <1>14, <1>15, <1>16
     DEF ControllerNext, ControllerStep, BeginCommand, CommandSteps

\* Between commands the sketch holds with the configured percentage rounded to a
\* level, whatever the percentage: the two conversions, the validator and the
\* firmware's upper limit never lead to another strength.
THEOREM PlaysHoldRounded ==
  ASSUME "write" \notin Faults, "outputs" \notin Faults
  PROVE  MachineSpec =>
           [](owner = "nobody" /\ play_mode # "none" =>
                Arduino!HoldPercent = RoundedPercent(claw_power))
<1>1. ControllerInit => StrengthInv
  BY DEF ControllerInit, StrengthInv
<1>2. IInv /\ HeldInv /\ StrengthInv /\ [ControllerNext]_controllerVars => StrengthInv'
  BY StrengthStep
<1>3. IInv /\ StrengthInv =>
        (owner = "nobody" /\ play_mode # "none" =>
           Arduino!HoldPercent = RoundedPercent(claw_power))
  <2> SUFFICES ASSUME IInv, StrengthInv, owner = "nobody", play_mode # "none"
               PROVE  Arduino!HoldPercent = RoundedPercent(claw_power)
    OBVIOUS
  <2>1. PowerLevel(claw_power) \in 0 .. 6
    BY PowerLevelBounds DEF IInv, TypeOK, StateTypeOK
  <2>2. power = LevelPins(PowerLevel(claw_power))
    BY DEF StrengthInv
  <2> QED BY <2>1, <2>2, LevelIsRead DEF RoundedPercent
<1> QED BY <1>1, <1>2, <1>3, AlwaysHeldInv, ControllerInMachine, Inductive, PTL DEF ControllerSpec

\* Only a set_claw_power that succeeds and a new process change the percentage.
LEMMA OnlyTheyChangePower ==
  ASSUME [ControllerNext]_controllerVars, claw_power' # claw_power
  PROVE  ClawPowerSet \/ Restart
BY DEF ControllerNext, ControllerStep, BeginCommand, CommandSteps, StartPlay, StopPlay,
       SetClawPower, EmergencyStop, PollStatus, AutoStop, ConnectForCommand, WritePowerPin,
       WriteGate, WriteRaises, PowerSentForStart, PlayStarted, PlayStopped, CommandFailed,
       EmergencyStopped, Tick, LoseOutputs, controllerVars, machineState

\* Where the percentages asked for are the steps of ten, as those of the settings
\* route and the crowd tiers are, the sketch holds with exactly the power the
\* controller reports.
THEOREM ShownIsHeld ==
  ASSUME "write" \notin Faults, "outputs" \notin Faults,
         InitialPercents \subseteq StepsOfTen,
         Percents \cap (MinClawPower .. MaxClawPower) \subseteq StepsOfTen
  PROVE  MachineSpec => []ShownPowerIsHeld
<1>1. ControllerInit => claw_power \in StepsOfTen
  BY DEF ControllerInit
<1>2. IInv /\ claw_power \in StepsOfTen /\ [ControllerNext]_controllerVars =>
        (claw_power \in StepsOfTen)'
  <2> SUFFICES ASSUME IInv, claw_power \in StepsOfTen, [ControllerNext]_controllerVars,
                      claw_power' # claw_power
               PROVE  claw_power' \in StepsOfTen
    OBVIOUS
  <2>1. ClawPowerSet \/ Restart
    BY OnlyTheyChangePower
  <2> QED BY <2>1 DEF ClawPowerSet, ReplyIs, Restart, IInv, LockInv
<1>3. claw_power \in StepsOfTen =>
        ((owner = "nobody" /\ play_mode # "none" =>
            Arduino!HoldPercent = RoundedPercent(claw_power)) => ShownPowerIsHeld)
  BY StepsAreLevels DEF ShownPowerIsHeld
<1> QED BY <1>1, <1>2, <1>3, PlaysHoldRounded, ControllerInMachine, Inductive, PTL
           DEF ControllerSpec

\* Rounding to a level moves a legal percentage by five points at most.
LEMMA RoundedIsClose ==
  ASSUME NEW percent \in MinClawPower .. MaxClawPower
  PROVE  RoundedPercent(percent) \in percent - 5 .. percent + 5
<1> DEFINE n == percent - 40
           q == n \div 10
           r == n % 10
<1>1. Clamp(percent, MinClawPower, MaxClawPower) = percent /\ n \in 0 .. 60
  BY DEF Clamp, MinClawPower, MaxClawPower
<1>2. q \in 0 .. 6 /\ r \in 0 .. 9 /\ n = 10 * q + r
  BY <1>1
<1>3. RoundTenth(n) = IF r < 5 \/ (r = 5 /\ q % 2 = 0) THEN q ELSE q + 1
  BY DEF RoundTenth
<1> HIDE DEF q, r
<1>4. RoundTenth(n) \in 0 .. 6 /\ 10 * RoundTenth(n) \in n - 5 .. n + 5
  BY <1>1, <1>2, <1>3
<1>5. PowerLevel(percent) = RoundTenth(n)
  BY <1>1, <1>4 DEF PowerLevel, Clamp, MinClawPower
<1> QED BY <1>1, <1>4, <1>5 DEF RoundedPercent, MinClawPower

\* The sketch holds within five points of the percentage the controller reports.
\* set_claw_power accepts legal percentages only; that the controller starts with
\* one is assumed, since it does not check CLAW_GRABBER_POWER_PERCENT itself.
THEOREM PlaysHoldClose ==
  ASSUME "write" \notin Faults, "outputs" \notin Faults,
         InitialPercents \subseteq MinClawPower .. MaxClawPower
  PROVE  MachineSpec =>
           [](owner = "nobody" /\ play_mode # "none" =>
                Arduino!HoldPercent \in claw_power - 5 .. claw_power + 5)
<1> DEFINE Legal == claw_power \in MinClawPower .. MaxClawPower
           Rounded == owner = "nobody" /\ play_mode # "none" =>
                        Arduino!HoldPercent = RoundedPercent(claw_power)
           Close == owner = "nobody" /\ play_mode # "none" =>
                      Arduino!HoldPercent \in claw_power - 5 .. claw_power + 5
<1>1. ControllerInit => Legal
  BY DEF ControllerInit
<1>2. IInv /\ Legal /\ [ControllerNext]_controllerVars => Legal'
  <2> SUFFICES ASSUME IInv, Legal, [ControllerNext]_controllerVars,
                      claw_power' # claw_power
               PROVE  Legal'
    OBVIOUS
  <2>1. ClawPowerSet \/ Restart
    BY OnlyTheyChangePower
  <2> QED BY <2>1 DEF ClawPowerSet, ReplyIs, Restart, IInv, LockInv
<1>3. Legal /\ Rounded => Close
  BY RoundedIsClose
<1>4. MachineSpec => []Rounded
  BY PlaysHoldRounded
<1> HIDE DEF Legal, Rounded
<1>5. MachineSpec => []Close
  BY <1>1, <1>2, <1>3, <1>4, ControllerInMachine, Inductive, PTL DEF ControllerSpec
<1> QED BY <1>5
=============================================================================
