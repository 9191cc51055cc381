------------------------- MODULE RuntimeController -------------------------
(***************************************************************************)
(* controller/core/runtime_controller.py together with the transport it     *)
(* owns (controller/adapters/gpio_adapter.py) and the rules it enforces     *)
(* (controller/safety/validator.py).                                        *)
(*                                                                          *)
(* A command holds the controller's RLock from its first line to its last   *)
(* (variable owner), but the four Raspberry Pi pins are written one after   *)
(* the other and the Arduino sees every intermediate level, so each write   *)
(* is a step of its own.  Between two writes some of the outputs may be     *)
(* lost, a write may raise, and the process may die.                        *)
(*                                                                          *)
(* Time advances by Tick.  Every started play has its own auto-stop thread, *)
(* timers[g] for the play of generation g, which may wake late but never    *)
(* early.                                                                   *)
(***************************************************************************)
EXTENDS GrabberPower

CONSTANTS
  Percents,         \* claw power percentages callers ask for
  InitialPercents,  \* values CLAW_GRABBER_POWER_PERCENT may configure
  Durations,        \* play durations callers ask for, in ticks
  Startups,         \* startup_seconds callers pass, in ticks
  MinDuration, MaxDuration, MaxStartup,   \* SafetyValidator limits, in ticks
  MaxGeneration,    \* bound: _play_generation stops counting here
  Faults            \* which of "write", "outputs", "restart" may happen

ASSUME PercentsAssumption == Percents \subseteq Int /\ InitialPercents \subseteq Int
ASSUME TimeAssumption ==
  /\ Durations \subseteq Nat /\ Startups \subseteq Nat
  /\ MinDuration \in Nat /\ MaxDuration \in Nat /\ MaxStartup \in Nat
ASSUME GenerationAssumption == MaxGeneration \in Nat

VARIABLES
  status,             \* MachineState.status
  play_mode,          \* MachineState.play_mode
  play_ends_in,       \* MachineState.play_ends_at, as ticks from now
  emergency_stopped,  \* MachineState.emergency_stopped
  claw_power,         \* MachineState.claw_power_percent
  last_error,         \* MachineState.last_error is not None
  generation,         \* _play_generation
  timers,             \* auto-stop threads: ticks each still sleeps
  owner,              \* the command that holds _lock
  request,            \* its parameters
  command,            \* the transport command it is sending
  step,               \* how far send_command has got
  reply_ok,           \* ArduinoResponse.ok
  outputs,            \* the pins that the adapter can write
  gate,               \* GPIO 17 pulls Arduino A0 low
  power               \* which of A1, A2, A3 are high

machineState ==
  << status, play_mode, play_ends_in, emergency_stopped, claw_power, last_error >>
lockState  == << owner, request, command, step, reply_ok >>
wires      == << gate, power >>
controllerVars == << machineState, generation, timers, lockState, outputs, wires >>

-----------------------------------------------------------------------------
(***************************************************************************)
(* Values.                                                                  *)
(***************************************************************************)
Statuses  == {"ready", "running", "fault", "emergency_stopped"}
PlayModes == {"play", "test"}
Owners    == {"nobody", "start", "stop", "power", "emergency", "auto_stop"}
Commands  == {"none", "CLAW POWER", "PLAY START", "PLAY STOP", "EMERGENCY STOP"}
PowerPins == {"A1", "A2", "A3"}
Steps     == {"idle", "connect"} \cup PowerPins \cup {"A0", "reply"}
\* A pin can be written while it has an OutputDevice that is open and its
\* function is "output".  _outputs_ready() is outputs = Pins; outputs = {} before
\* the first connect() and after one that failed.
Pins      == PowerPins \cup {"A0"}

Generations == 1 .. MaxGeneration
NoThread    == -1

Request == [mode : PlayModes, window : Nat, percent : Int]
NoRequest == [mode |-> "play", window |-> 0, percent |-> 0]

PinWeight == [A1 |-> 1, A2 |-> 2, A3 |-> 4]

\* _set_power_level: the pins of a level that are switched on.
LevelPins(level) == {pin \in PowerPins : (level \div PinWeight[pin]) % 2 = 1}

\* Level 7, which the firmware reads as "pulse at the end" or as "home".
EndPulseCode == LevelPins(7)

\* Faulty variants, which the properties must notice: a stop that leaves A0 out,
\* one that writes A0 first, one whose emergency code asks for an end pulse.
WriteAfterWithoutGate(pin) ==
  CASE pin = "A1" -> "A2" [] pin = "A2" -> "A3" [] OTHER -> "reply"
GateWrittenFirst == "A0"
StopCodeForAll ==
  IF command = "CLAW POWER" THEN LevelPins(PowerLevel(claw_power)) ELSE EndPulseCode

(***************************************************************************)
(* What send_command wants on A1-A3 and on the gate, and the pin it writes  *)
(* after each one.                                                          *)
(***************************************************************************)
TargetPins ==
  CASE command = "PLAY STOP"      -> EndPulseCode
    [] command = "EMERGENCY STOP" -> LevelPins(0)
    [] OTHER -> LevelPins(PowerLevel(IF owner = "power" THEN request.percent
                                                       ELSE claw_power))

FirstWrite == IF command = "PLAY START" THEN "A0" ELSE "A1"

WriteAfter(pin) ==
  CASE pin = "A1" -> "A2"
    [] pin = "A2" -> "A3"
    [] OTHER      -> IF command = "CLAW POWER" THEN "reply" ELSE "A0"

ThreadLives(g) == g \in Generations /\ timers[g] # NoThread

-----------------------------------------------------------------------------
ControllerInit ==
  /\ status = "ready"
  /\ play_mode = "none"
  /\ play_ends_in = 0
  /\ emergency_stopped = FALSE
  /\ claw_power \in InitialPercents
  /\ last_error = FALSE
  /\ generation = 0
  /\ timers = [g \in Generations |-> NoThread]
  /\ owner = "nobody" /\ request = NoRequest
  /\ command = "none" /\ step = "idle" /\ reply_ok = TRUE
  /\ outputs = {}
  /\ gate = FALSE
  /\ power = {}

(***************************************************************************)
(* GpioArduinoAdapter.connect: nothing when the outputs are ready; else     *)
(* close whatever is left and create them again with initial_value=False,   *)
(* or fail and close, which leaves A0 to its pull-up and A1-A3 floating.    *)
(***************************************************************************)
Connect ==
  \/ /\ outputs = Pins
     /\ UNCHANGED << outputs, gate, power >>
  \/ /\ outputs # Pins
     /\ outputs' = Pins /\ gate' = FALSE /\ power' = {}
  \/ /\ outputs # Pins /\ "outputs" \in Faults
     /\ outputs' = {} /\ gate' = FALSE /\ power' \in SUBSET PowerPins

Acquire(who, req, cmd) ==
  /\ owner = "nobody"
  /\ owner' = who
  /\ request' = req
  /\ command' = cmd
  /\ step' = "connect"
  /\ reply_ok' = TRUE

Release ==
  /\ owner' = "nobody"
  /\ request' = NoRequest
  /\ command' = "none"
  /\ step' = "idle"
  /\ reply_ok' = TRUE

\* Faulty variants: the counter is not advanced; a stop forgets the play mode.
GenerationNotAdvanced == UNCHANGED generation
ModeNotCleared(newStatus) ==
  /\ status' = newStatus
  /\ play_ends_in' = 0
  /\ UNCHANGED play_mode

NextGeneration ==
  /\ generation < MaxGeneration
  /\ generation' = generation + 1

MarkStopped(newStatus) ==
  /\ status' = newStatus
  /\ play_mode' = "none"
  /\ play_ends_in' = 0

-----------------------------------------------------------------------------
(***************************************************************************)
(* The five commands, up to their first send.  A command the validator      *)
(* refuses changes nothing.                                                 *)
(***************************************************************************)
\* Faulty variant: the start does not send the power first.
StartWithoutPower(mode, duration, startup) ==
  /\ ~emergency_stopped /\ play_mode = "none" /\ generation < MaxGeneration
  /\ Acquire("start",
             [NoRequest EXCEPT !.mode = mode, !.window = startup + duration],
             "PLAY START")
  /\ UNCHANGED << machineState, generation, timers, outputs, wires >>

StartPlay(mode, duration, startup) ==
  /\ ~emergency_stopped
  /\ play_mode = "none"
  /\ duration \in MinDuration .. MaxDuration
  /\ startup \in 0 .. MaxStartup
  /\ generation < MaxGeneration
  /\ Acquire("start",
             [NoRequest EXCEPT !.mode = mode, !.window = startup + duration],
             "CLAW POWER")
  /\ UNCHANGED << machineState, generation, timers, outputs, wires >>

StopPlay ==
  /\ play_mode # "none"
  /\ NextGeneration
  /\ Acquire("stop", NoRequest, "PLAY STOP")
  /\ UNCHANGED << machineState, timers, outputs, wires >>

SetClawPower(percent) ==
  /\ ~emergency_stopped
  /\ percent \in MinClawPower .. MaxClawPower
  /\ Acquire("power", [NoRequest EXCEPT !.percent = percent], "CLAW POWER")
  /\ UNCHANGED << machineState, generation, timers, outputs, wires >>

EmergencyStop ==
  /\ NextGeneration
  /\ emergency_stopped' = TRUE
  /\ Acquire("emergency", NoRequest, "EMERGENCY STOP")
  /\ UNCHANGED << status, play_mode, play_ends_in, claw_power, last_error,
                  timers, outputs, wires >>

\* Faulty variant: the thread of an old play does not recognise that it is old.
OutdatedWhenStopped(g) == play_mode = "none"

Outdated(g) == g # generation \/ play_mode = "none"

(***************************************************************************)
(* _auto_stop_after_play: the thread of generation g has slept its window.  *)
(* It gives up when its play is no longer the current one.                  *)
(***************************************************************************)
AutoStop(g) ==
  /\ owner = "nobody"
  /\ timers[g] = 0
  /\ timers' = [timers EXCEPT ![g] = NoThread]
  /\ IF Outdated(g)
       THEN UNCHANGED lockState
       ELSE Acquire("auto_stop", NoRequest, "PLAY STOP")
  /\ UNCHANGED << machineState, generation, outputs, wires >>

\* status() asks the adapter whether it is connected, which (re)connects it.
PollStatus ==
  /\ owner = "nobody"
  /\ Connect
  /\ UNCHANGED << machineState, generation, timers, lockState >>

-----------------------------------------------------------------------------
(***************************************************************************)
(* send_command, one pin at a time.  The outputs are checked once, before   *)
(* the first write; each write after that needs no pin but its own.         *)
(***************************************************************************)
ConnectForCommand ==
  /\ step = "connect"
  /\ Connect
  /\ IF outputs' = Pins
       THEN step' = FirstWrite /\ UNCHANGED reply_ok
       ELSE step' = "reply" /\ reply_ok' = FALSE
  /\ UNCHANGED << machineState, generation, timers, owner, request, command >>

WritePowerPin ==
  /\ step \in PowerPins \cap outputs
  /\ power' = IF step \in TargetPins THEN power \cup {step} ELSE power \ {step}
  /\ step' = WriteAfter(step)
  /\ UNCHANGED << machineState, generation, timers, owner, request, command,
                  reply_ok, outputs, gate >>

WriteGate ==
  /\ step = "A0" /\ step \in outputs
  /\ gate' = (command = "PLAY START")
  /\ step' = "reply"
  /\ UNCHANGED << machineState, generation, timers, owner, request, command,
                  reply_ok, outputs, power >>

\* A gpiozero call raises: the pins written before it keep their new level.
WriteRaises ==
  /\ step \in Pins
  /\ step \notin outputs \/ "write" \in Faults
  /\ reply_ok' = FALSE
  /\ step' = "reply"
  /\ UNCHANGED << machineState, generation, timers, owner, request, command,
                  outputs, wires >>

-----------------------------------------------------------------------------
(***************************************************************************)
(* The reply: _send reads arduino.connected again (one more connect()),     *)
(* then _record_response, _require_ok and the rest of the command.          *)
(***************************************************************************)
ReplyIs(ok, who) ==
  /\ step = "reply"
  /\ reply_ok = ok
  /\ owner \in who
  /\ Connect

PowerSentForStart ==
  /\ ReplyIs(TRUE, {"start"})
  /\ command = "CLAW POWER"
  /\ last_error' = FALSE
  /\ command' = "PLAY START"
  /\ step' = "connect"
  /\ UNCHANGED << status, play_mode, play_ends_in, emergency_stopped, claw_power,
                  generation, timers, owner, request, reply_ok >>

PlayStarted ==
  /\ ReplyIs(TRUE, {"start"})
  /\ command = "PLAY START"
  /\ NextGeneration
  /\ status' = "running"
  /\ play_mode' = request.mode
  /\ play_ends_in' = request.window
  /\ timers' = [timers EXCEPT ![generation + 1] = request.window]
  /\ last_error' = FALSE
  /\ Release
  /\ UNCHANGED << emergency_stopped, claw_power >>

PlayStopped ==
  /\ ReplyIs(TRUE, {"stop", "auto_stop"})
  /\ MarkStopped("ready")
  /\ last_error' = FALSE
  /\ Release
  /\ UNCHANGED << emergency_stopped, claw_power, generation, timers >>

ClawPowerSet ==
  /\ ReplyIs(TRUE, {"power"})
  /\ claw_power' = request.percent
  /\ last_error' = FALSE
  /\ Release
  /\ UNCHANGED << status, play_mode, play_ends_in, emergency_stopped,
                  generation, timers >>

CommandFailed ==
  /\ ReplyIs(FALSE, {"start", "stop", "power", "auto_stop"})
  /\ status' = "fault"
  /\ last_error' = TRUE
  /\ Release
  /\ UNCHANGED << play_mode, play_ends_in, emergency_stopped, claw_power,
                  generation, timers >>

\* emergency_stop has no _require_ok: it reports stopped whatever was written.
EmergencyStopped ==
  /\ ReplyIs(reply_ok, {"emergency"})
  /\ MarkStopped("emergency_stopped")
  /\ last_error' = ~reply_ok
  /\ Release
  /\ UNCHANGED << emergency_stopped, claw_power, generation, timers >>

-----------------------------------------------------------------------------
(***************************************************************************)
(* The environment: time, the loss of the outputs, the death of the process.*)
(***************************************************************************)
\* Faulty variant: a wait goes on below zero.
CountDownPastZero(n) == n - 1

CountDown(n) == IF n > 0 THEN n - 1 ELSE n

Tick ==
  /\ play_ends_in' = CountDown(play_ends_in)
  /\ timers' = [g \in Generations |-> CountDown(timers[g])]
  /\ UNCHANGED << status, play_mode, emergency_stopped, claw_power, last_error,
                  generation, lockState, outputs, wires >>

\* Some pins stop being outputs and let their wires go: A0 has a pull-up on the
\* Arduino side, A1-A3 have nothing.  The other pins keep their level.
LoseOutputs ==
  /\ "outputs" \in Faults
  /\ outputs' \in (SUBSET outputs) \ {outputs}
  /\ gate' \in IF "A0" \in outputs' THEN {gate} ELSE {gate, FALSE}
  /\ power' \in {levels \in SUBSET PowerPins : levels \cap outputs' = power \cap outputs'}
  /\ UNCHANGED << machineState, generation, timers, lockState >>

\* The process dies (with its threads) and a new controller is built.  The
\* wires keep their level until somebody connects.
Restart ==
  /\ "restart" \in Faults
  /\ MarkStopped("ready")
  /\ emergency_stopped' = FALSE
  /\ claw_power' \in InitialPercents
  /\ last_error' = FALSE
  /\ generation' = 0
  /\ timers' = [g \in Generations |-> NoThread]
  /\ Release
  /\ outputs' = {}
  /\ gate' \in {gate, FALSE}
  /\ power' \in SUBSET PowerPins

CommandSteps ==
  \/ ConnectForCommand
  \/ WritePowerPin
  \/ WriteGate
  \/ WriteRaises
  \/ PowerSentForStart
  \/ PlayStarted
  \/ PlayStopped
  \/ ClawPowerSet
  \/ CommandFailed
  \/ EmergencyStopped

BeginCommand ==
  \/ \E mode \in PlayModes, duration \in Durations, startup \in Startups :
       StartPlay(mode, duration, startup)
  \/ StopPlay
  \/ \E percent \in Percents : SetClawPower(percent)
  \/ EmergencyStop
  \/ PollStatus

ControllerStep ==
  \/ BeginCommand
  \/ \E g \in Generations : AutoStop(g)
  \/ CommandSteps
  \/ LoseOutputs
  \/ Restart

ControllerNext == ControllerStep \/ Tick

ControllerSpec == ControllerInit /\ [][ControllerNext]_controllerVars

(***************************************************************************)
(* Threads run and time passes; nobody has to press a button.  An auto-stop *)
(* thread competes for the RLock with the requests, which come one at a     *)
(* time and leave it free in between: strong fairness says it gets in.      *)
(***************************************************************************)
ControllerFairness ==
  /\ WF_controllerVars(CommandSteps)
  /\ \A g \in Generations : SF_controllerVars(AutoStop(g))
  /\ WF_controllerVars(Tick)

FairControllerSpec == ControllerSpec /\ ControllerFairness

-----------------------------------------------------------------------------
(***************************************************************************)
(* Properties.                                                              *)
(***************************************************************************)
StateTypeOK ==
  /\ status \in Statuses
  /\ play_mode \in PlayModes \cup {"none"}
  /\ play_ends_in \in Nat
  /\ emergency_stopped \in BOOLEAN
  /\ claw_power \in Int
  /\ last_error \in BOOLEAN
  /\ generation \in 0 .. MaxGeneration
  /\ timers \in [Generations -> Nat \cup {NoThread}]

LockTypeOK ==
  /\ owner \in Owners
  /\ request \in Request
  /\ command \in Commands
  /\ step \in Steps
  /\ reply_ok \in BOOLEAN

PinTypeOK ==
  /\ outputs \in SUBSET Pins
  /\ gate \in BOOLEAN
  /\ power \in SUBSET PowerPins

TypeOK == StateTypeOK /\ LockTypeOK /\ PinTypeOK

\* When no command is running and the adapter owns pins, a controller that
\* reports no play really has released the play gate, unless an emergency stop
\* failed and says so in last_error.  (stop_play, emergency_stop and the
\* auto-stop thread forget the play only after, or in spite of, the send.)
StoppedMeansReleased ==
  owner = "nobody" /\ outputs # {} /\ gate =>
    play_mode # "none" \/ (emergency_stopped /\ last_error)

\* A play reported as "running" always has its own auto-stop thread: the
\* generation counter may leave a play without one only in status "fault".
RunningIsSupervised ==
  owner = "nobody" /\ status = "running" =>
    play_mode # "none" /\ ThreadLives(generation)

\* A play the controller reports is a play the Arduino may play: the gate stays
\* low until the play is stopped.  No failed command may release it behind the
\* controller's back; reopening lost outputs (connect) does, so this holds only
\* while the pins stay outputs.
RunningMeansHeld ==
  owner = "nobody" /\ outputs = Pins /\ play_mode # "none" => gate

\* A0 is only ever pulled low for an accepted start, and then each of A1-A3 that
\* the adapter still drives is at the configured strength (or at the weakest,
\* when the outputs were reopened in between).  So while none is lost the code is
\* no home request; a pin that is lost after the check of send_command floats,
\* and nobody looks again before the gate is pulled (GateNeverHomes).
GateOpensSafely ==
  [][~gate /\ gate' =>
       /\ owner = "start" /\ ~emergency_stopped /\ play_mode = "none"
       /\ power \cap outputs \in {LevelPins(PowerLevel(claw_power)) \cap outputs, {}}
       /\ outputs = Pins => power # EndPulseCode]_controllerVars

\* The gate is never pulled low with the code the sketch takes for a home request:
\* "Normal games use levels 000 through 110" (arduino_claw.ino:176).  It holds as
\* long as the pins stay outputs.
GateNeverHomes == [][~gate /\ gate' => power # EndPulseCode]_controllerVars

\* "The dashboard holds it low during a test or play after the 3-second ready
\* message" (dashboard/README.claw_dashboard.md:48-49).  When all of the longest
\* startup_seconds is still to come, that message is shown.  The code sends PLAY
\* START at once and counts startup_seconds from there.
GateWaitsForReady == play_ends_in = MaxStartup + MaxDuration => ~gate

\* The auto-stop thread of an earlier play never ends a later one: it releases
\* the gate only when the current play's own window is over.
NotCutShort ==
  [][owner = "auto_stop" /\ gate /\ ~gate' => play_ends_in = 0]_controllerVars

\* What A1-A3 say when the gate is released decides what the firmware does
\* next: 111 for a stop, 000 for an emergency stop, whatever was interleaved, on
\* every pin that the adapter still drives.
ReleaseCarriesItsCode ==
  [][step = "A0" /\ gate /\ ~gate' /\ "A0" \in outputs' =>
       power \cap outputs =
         (IF owner = "emergency" THEN {} ELSE EndPulseCode) \cap outputs]_controllerVars

\* Seen from outside its lock the controller keeps the contract of
\* SafetyBoundary.  An emergency stop counts as done once it is begun; while
\* stop_play holds the lock, the thread of the previous generation still counts.
SeenStatus   == IF owner = "emergency" THEN "emergency_stopped" ELSE status
SeenPlayMode == IF owner = "emergency" THEN "none" ELSE play_mode
SeenArmed ==
  /\ play_mode # "none"
  /\ owner # "emergency"
  /\ \/ owner = "auto_stop"
     \/ ThreadLives(IF owner = "stop" THEN generation - 1 ELSE generation)

Boundary ==
  INSTANCE SafetyBoundary WITH
    status <- SeenStatus, play_mode <- SeenPlayMode, auto_stop_armed <- SeenArmed

ImplementsBoundary == Boundary!BoundarySpec

\* Nobody has to press Stop: the gate is released when the window finishes.
WindowReleasesGate == gate /\ ~emergency_stopped ~> ~gate \/ emergency_stopped

-----------------------------------------------------------------------------
(***************************************************************************)
(* The inductive invariant of the proofs (ClawMachineProofs).               *)
(***************************************************************************)
\* What the holder of the lock has been granted stays granted.
LockInv ==
  /\ owner = "nobody" <=> step = "idle"
  /\ owner = "nobody" => command = "none"
  /\ owner = "start" =>
       /\ command \in {"CLAW POWER", "PLAY START"}
       /\ ~emergency_stopped /\ play_mode = "none"
  /\ owner = "power" =>
       /\ command = "CLAW POWER" /\ ~emergency_stopped
       /\ request.percent \in Percents \cap (MinClawPower .. MaxClawPower)
  /\ owner \in {"stop", "auto_stop"} => command = "PLAY STOP" /\ play_mode # "none"
  /\ owner = "emergency" => command = "EMERGENCY STOP" /\ emergency_stopped
  /\ emergency_stopped /\ owner # "emergency" => play_mode = "none"
  /\ step # "reply" => reply_ok

\* Who answers for a low gate while the adapter has its outputs.
GateInv ==
  /\ outputs # {} /\ gate =>
       \/ play_mode # "none" \/ owner = "emergency"
       \/ emergency_stopped /\ last_error
       \/ command = "PLAY START" /\ step = "reply" /\ reply_ok
  /\ command \in {"PLAY STOP", "EMERGENCY STOP"} /\ step = "reply" /\ reply_ok => ~gate

\* No thread is ahead of the counter, and the one that answers for the current
\* play agrees with it on when it ends.
ThreadInv ==
  /\ \A g \in Generations : g > generation => timers[g] = NoThread
  /\ status = "running" =>
       play_mode # "none" /\ (owner \in {"nobody", "power"} => ThreadLives(generation))
  /\ play_mode # "none" /\ ThreadLives(generation) => play_ends_in = timers[generation]
  /\ owner = "auto_stop" => play_ends_in = 0
  /\ owner \in {"stop", "auto_stop"} => ~ThreadLives(generation)

\* The pins send_command has written before it comes to this step.
WrittenBefore(s) ==
  CASE s = "A2" -> {"A1"}
    [] s = "A3" -> {"A1", "A2"}
    [] OTHER    -> PowerPins

\* The pins written so far, and not lost since, have their target level.
PinsInv ==
  /\ command = "CLAW POWER" => step # "A0"
  /\ command = "PLAY START" => step \notin PowerPins
  /\ step \in {"A2", "A3", "A0"} /\ command # "PLAY START" =>
       \A pin \in WrittenBefore(step) \cap outputs : pin \in power <=> pin \in TargetPins
  /\ step = "reply" /\ reply_ok /\ command = "CLAW POWER" =>
       power \cap outputs = TargetPins \cap outputs
  /\ command = "PLAY START" => power \cap outputs \in {TargetPins \cap outputs, {}}

IInv == TypeOK /\ LockInv /\ GateInv /\ ThreadInv /\ PinsInv
=============================================================================
