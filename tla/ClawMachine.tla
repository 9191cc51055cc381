---------------------------- MODULE ClawMachine ----------------------------
(***************************************************************************)
(* The machine: the controller on the Raspberry Pi (RuntimeController) and  *)
(* the sketch on the Arduino (ClawFirmware), which share nothing but four   *)
(* wires, gate (A0) and power (A1, A2, A3).  Neither can see the state of   *)
(* the other: the sketch learns what happened from the levels it finds when *)
(* loop() comes round, the controller never learns anything.                *)
(*                                                                          *)
(* Two timing assumptions can be switched on with KeepsUp.  "firmware": a   *)
(* pass of loop() (at most a few milliseconds) falls between two commands   *)
(* (each an HTTP request).  "host": a command, or an auto-stop thread that  *)
(* has slept its time, is over before the next tick (a good part of a       *)
(* second).                                                                 *)
(***************************************************************************)
EXTENDS RuntimeController

CONSTANTS
  PlayLimit, PulseInterval, YHomingTimeout, XHomingTimeout, XHomingEnabled,
  Inputs,     \* as in ClawFirmware
  KeepsUp     \* which of "firmware", "host" keep up with the other side

VARIABLES
  fw, polled, pulses,   \* as in ClawFirmware
  seen                  \* the sketch has sampled the wires as they are now

Arduino == INSTANCE ClawFirmware

ASSUME MachineAssumption ==
  /\ PlayLimit \in Nat \ {0}
  /\ PulseInterval \in Nat \ {0}
  /\ YHomingTimeout \in Nat \ {0}
  /\ XHomingTimeout \in Nat \ {0}
  /\ XHomingEnabled \in BOOLEAN
  /\ Inputs \subseteq Arduino!Input

arduinoVars == << fw, polled, pulses >>
machineVars == << controllerVars, arduinoVars, seen >>

-----------------------------------------------------------------------------
MachineInit ==
  /\ ControllerInit
  /\ Arduino!FirmwareInit
  /\ seen = FALSE

SketchHasCaughtUp == "firmware" \in KeepsUp => seen

\* No command is under way and no auto-stop thread is due.
HostHasCaughtUp ==
  "host" \in KeepsUp =>
    owner = "nobody" /\ \A g \in Generations : timers[g] # 0

\* A step of the controller: the sketch has seen it when it changed no wire.
Host(Step) ==
  /\ Step
  /\ seen' = (seen /\ wires' = wires)
  /\ UNCHANGED arduinoVars

HostBegins       == SketchHasCaughtUp /\ Host(BeginCommand)
HostAutoStops(g) == SketchHasCaughtUp /\ Host(AutoStop(g))
HostProceeds     == Host(CommandSteps)
HostFails        == Host(LoseOutputs \/ Restart)

SketchPasses ==
  /\ Arduino!LoopPass
  /\ seen' = TRUE
  /\ UNCHANGED controllerVars

\* Resetting the Arduino during a play makes the low gate look like a new edge.
SketchRestarts ==
  /\ "arduino" \in Faults
  /\ Arduino!PowerCycle
  /\ seen' = FALSE
  /\ UNCHANGED controllerVars

TimePasses ==
  /\ HostHasCaughtUp
  /\ Tick
  /\ Arduino!FirmwareTick
  /\ UNCHANGED seen

MachineNext ==
  \/ HostBegins
  \/ \E g \in Generations : HostAutoStops(g)
  \/ HostProceeds
  \/ HostFails
  \/ SketchPasses
  \/ SketchRestarts
  \/ TimePasses

MachineSpec == MachineInit /\ [][MachineNext]_machineVars

\* As in the two components; nobody has to press a button.  Commands without
\* end cannot hold up time, although a tick waits for the one under way.
FairMachineSpec ==
  /\ MachineSpec
  /\ WF_machineVars(HostProceeds)
  /\ \A g \in Generations : SF_machineVars(HostAutoStops(g))
  /\ WF_machineVars(SketchPasses)
  /\ SF_machineVars(TimePasses)

-----------------------------------------------------------------------------
(***************************************************************************)
(* Properties.                                                              *)
(***************************************************************************)
Homing == fw.homing \in {"yAxis", "xAxis"}

\* Between commands the two sides agree on whether a play is going on, although
\* neither can ask the other: what is being played is reported, and a reported
\* play is being played unless the sketch refuses plays (its homing fault) or has
\* ended this one at its own limit, of which the host learns nothing.
EndedByTheLimit == ~fw.playActive /\ fw.playAge >= PlayLimit

SidesAgree ==
  owner = "nobody" /\ seen =>
    (play_mode # "none" <=>
       fw.playActive \/ (gate /\ (fw.homing = "fault" \/ EndedByTheLimit)))

\* A play that ends because the gate is released, by Stop, by Time Up or by a
\* machine that is disabled, ends with the grabber's pulse, because the code 111
\* is on A1-A3 before the gate goes.  An emergency stop and the sketch's own limit
\* end it with D5 off at once.
EndIsPulsed ==
  [][fw.playActive /\ ~fw'.playActive =>
       (fw'.timeUpPulse <=> ~gate /\ ~emergency_stopped)]_machineVars

\* Every Time Up of a play is pulsed.  Only so when the plays fit the sketch's
\* limit: "Natural Time Up and the dashboard Stop button both request three
\* full-power D5 pulses" (dashboard/README.claw_dashboard.md:63).
EveryEndIsPulsed ==
  [][fw.playActive /\ ~fw'.playActive =>
       (fw'.timeUpPulse <=> ~emergency_stopped)]_machineVars

\* A start of the controller that the sketch notices begins a play.  It is never
\* mistaken for the home request the sketch would take from a new edge with 111,
\* the code that every stop leaves on A1-A3.  (The documents let Reset make that
\* request on purpose; no code does, see OperatorStops.)
StartIsNoHomeRequest ==
  [][/\ ~fw.previousStart /\ fw'.previousStart /\ fw.homing # "fault"
     /\ owner = "start" \/ play_mode # "none"
     => fw'.playActive]_machineVars

\* An emergency stop that was carried out leaves nothing behind that could move
\* the machine: once the sketch has seen it there is no play, and it starts
\* neither a play nor, while the Raspberry Pi still drives the wires, an end
\* pulse, whatever else fails and however late either side is.
EmergencyIsFinal ==
  emergency_stopped /\ owner = "nobody" /\ ~last_error /\ seen => ~fw.playActive

NothingAfterEmergency ==
  [][emergency_stopped /\ owner = "nobody" /\ ~last_error =>
       /\ fw'.playActive => fw.playActive
       /\ outputs = Pins /\ fw'.timeUpPulse => fw.timeUpPulse]_machineVars

\* A process that died during a play leaves the gate low, but the next one ends
\* that play as soon as it takes the pins: the sketch, restarted or not, plays
\* nothing that the controller does not report.
NothingPlaysUnreported ==
  owner = "nobody" /\ outputs = Pins /\ seen /\ fw.playActive =>
    play_mode # "none" \/ (emergency_stopped /\ last_error)

\* During a play the sketch holds with the power the controller reports.
ShownPowerIsHeld ==
  owner = "nobody" /\ seen /\ play_mode # "none" =>
    Arduino!HoldPercent = claw_power

\* Homing comes to an end (or a new play interrupts it), pulses included.
HomingEnds == Homing /\ ~fw.playActive ~> ~Homing \/ fw.playActive
=============================================================================
