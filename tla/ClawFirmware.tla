---------------------------- MODULE ClawFirmware ----------------------------
(***************************************************************************)
(* arduino/sketches/arduino_claw/arduino_claw.ino: the Arduino that drives  *)
(* the motors, the actuator relays and the grabber.  One pass of loop() is  *)
(* one step (LoopPass); it samples the wires of the Raspberry Pi (gate,     *)
(* power), the player's controls and the home switches.                     *)
(*                                                                          *)
(* The globals of the sketch are the fields of fw, and each of its          *)
(* functions is an operator from one value of fw to the next, so a pass     *)
(* reads in the order of the code.  millis() differences are ages, counted  *)
(* in ticks up to the limit they are compared with.                         *)
(***************************************************************************)
EXTENDS Integers

CONSTANTS
  PlayLimit,          \* dashboardPlayDuration, in ticks
  PulseInterval,      \* grabberPulseInterval, in ticks
  YHomingTimeout,     \* yHomingTimeout, in ticks
  XHomingTimeout,     \* xHomingTimeout, in ticks
  XHomingEnabled,     \* xHomingEnabled
  Inputs              \* the readings of controls and switches considered

ASSUME FirmwareAssumption ==
  /\ PlayLimit \in Nat \ {0}
  /\ PulseInterval \in Nat \ {0}
  /\ YHomingTimeout \in Nat \ {0}
  /\ XHomingTimeout \in Nat \ {0}
  /\ XHomingEnabled \in BOOLEAN

VARIABLES
  gate,     \* A0 is LOW: the Raspberry Pi asks for play
  power,    \* which of A1, A2, A3 are HIGH
  fw,       \* the globals of the sketch and the levels of its output pins
  polled,   \* loop() has run since the last tick
  pulses    \* history: full-power pulses D5 has given in the latest sequence

firmwareVars == << fw, polled, pulses >>

-----------------------------------------------------------------------------
PowerPins == {"A1", "A2", "A3"}
PinWeight == [A1 |-> 1, A2 |-> 2, A3 |-> 4]

Axes         == {"X", "Y"}          \* motor 2 and motor 1
Lifts        == {"up", "down", "stopped"}
HomingStates == {"idle", "yAxis", "xAxis", "complete", "fault"}

\* Faulty variant: two pulses instead of three.
FourToggles == 4

PulseToggleCount    == 6            \* grabberPulseToggleCount
TimeUpPulseCode     == 7            \* timeUpGrabberPulseCode

Firmware ==
  [ playActive    : BOOLEAN,         \* dashboardPlayActive
    previousStart : BOOLEAN,         \* previousDashboardStart == LOW
    playAge       : 0 .. PlayLimit,      \* since dashboardPlayStarted
    pulseActive   : BOOLEAN,         \* grabberPulseActive
    timeUpPulse   : BOOLEAN,         \* timeUpGrabberPulseActive
    pulseState    : BOOLEAN,         \* grabberPulseState
    pulseToggles  : 0 .. PulseToggleCount,
    pulseAge      : 0 .. PulseInterval,  \* since lastGrabberPulse
    homing        : HomingStates,    \* homingState
    homingAge     : Nat,             \* since homingAxisStarted
    linear        : Lifts,           \* linearMotorState
    relays        : SUBSET {"up", "down"},  \* D10, D13
    stepping      : SUBSET Axes,     \* axes stepped during the last pass
    grabber       : 0 .. 100,        \* D5 duty cycle in percent
    buzzer        : BOOLEAN ]        \* buzzing, continuously or in beeps

\* What one pass reads besides the wires: the grabber switch (CH6), the axes
\* the buttons or the sticks ask to step, the lift the CH4 stick asks for while
\* CH5 enables the remote, and the two home switches.
Input ==
  [ ch6 : BOOLEAN, axes : SUBSET Axes, lift : Lifts,
    xHome : BOOLEAN, yHome : BOOLEAN ]

ASSUME InputsAssumption == Inputs \subseteq Input

\* setup() on top of the initial values of the globals.
Boot ==
  [ playActive |-> FALSE, previousStart |-> FALSE, playAge |-> 0,
    pulseActive |-> FALSE, timeUpPulse |-> FALSE, pulseState |-> FALSE,
    pulseToggles |-> 0, pulseAge |-> 0,
    homing |-> "idle", homingAge |-> 0,
    linear |-> "stopped", relays |-> {}, stepping |-> {},
    grabber |-> 0, buzzer |-> FALSE ]

-----------------------------------------------------------------------------
(***************************************************************************)
(* Grabber.                                                                 *)
(***************************************************************************)
PinBit(pin) == IF pin \in power THEN PinWeight[pin] ELSE 0

GrabberPowerLevel == PinBit("A1") + PinBit("A2") + PinBit("A3")

HoldPercent ==
  LET percent == 40 + 10 * GrabberPowerLevel
  IN  IF percent > 100 THEN 100 ELSE percent

\* Faulty variant: a start pulse goes on as the end pulse it interrupts.
PulseKeepsKind(f, timeUp) ==
  [f EXCEPT !.pulseActive = TRUE, !.timeUpPulse = @ \/ timeUp,
            !.pulseState = TRUE, !.pulseToggles = 1, !.pulseAge = 0,
            !.grabber = 100]

StartPulse(f, timeUp) ==
  [f EXCEPT !.pulseActive = TRUE, !.timeUpPulse = timeUp,
            !.pulseState = TRUE, !.pulseToggles = 1, !.pulseAge = 0,
            !.grabber = 100]

\* The last toggle switches D5 off and ends the sequence.
UpdatePulse(f) ==
  IF ~f.pulseActive \/ f.pulseAge < PulseInterval
    THEN f
    ELSE IF f.pulseToggles + 1 >= PulseToggleCount
      THEN [f EXCEPT !.pulseAge = 0, !.pulseToggles = PulseToggleCount,
                     !.pulseActive = FALSE, !.timeUpPulse = FALSE,
                     !.pulseState = FALSE, !.grabber = 0]
      ELSE [f EXCEPT !.pulseAge = 0, !.pulseToggles = @ + 1,
                     !.pulseState = ~@,
                     !.grabber = IF f.pulseState THEN 0 ELSE 100]

(***************************************************************************)
(* Linear actuator: the other relay goes off before one goes on.            *)
(***************************************************************************)
\* Faulty variant: up and down are both on.
BothRelaysOn(f, lift) ==
  [f EXCEPT !.linear = lift, !.relays = @ \cup {lift}]

LinearStop(f) == [f EXCEPT !.relays = {}, !.linear = "stopped"]

LinearMove(f, lift) ==
  IF f.linear = lift
    THEN f
    ELSE [f EXCEPT !.linear = lift,
                   !.relays = (@ \ ({"up", "down"} \ {lift})) \cup {lift}]

LinearControl(f, lift) ==
  IF lift = "stopped" THEN LinearStop(f) ELSE LinearMove(f, lift)

(***************************************************************************)
(* Homing: Y, then X where it is enabled, each with its timeout.            *)
(***************************************************************************)
StartHoming(f) ==
  [LinearStop(f) EXCEPT !.grabber = 0, !.homing = "yAxis", !.homingAge = 0,
                        !.buzzer = TRUE]

HomingFault(f) == [f EXCEPT !.homing = "fault", !.buzzer = TRUE]

HomingDone(f) == [f EXCEPT !.homing = "idle", !.buzzer = FALSE]

\* Faulty variant: no timeout.
HomeYPatiently(f, in) ==
  IF in.yHome THEN [f EXCEPT !.homing = "complete"]
              ELSE [f EXCEPT !.stepping = {"Y"}]

HomeY(f, in) ==
  IF in.yHome
    THEN IF XHomingEnabled
           THEN [f EXCEPT !.homing = "xAxis", !.homingAge = 0]
           ELSE [f EXCEPT !.homing = "complete"]
    ELSE IF f.homingAge >= YHomingTimeout
           THEN HomingFault(f)
           ELSE [f EXCEPT !.stepping = {"Y"}]

HomeX(f, in) ==
  IF in.xHome
    THEN HomingDone(f)
    ELSE IF f.homingAge >= XHomingTimeout
           THEN HomingFault(f)
           ELSE [f EXCEPT !.stepping = {"X"}]

UpdateHoming(f, in) ==
  LET beeping == [f EXCEPT !.buzzer = TRUE]
  IN  CASE f.homing = "yAxis"    -> HomeY(beeping, in)
        [] f.homing = "xAxis"    -> HomeX(beeping, in)
        [] f.homing = "complete" -> HomingDone(f)
        [] OTHER                 -> beeping

-----------------------------------------------------------------------------
(***************************************************************************)
(* loop().                                                                  *)
(***************************************************************************)
\* Faulty variants: a homing fault does not refuse the play; only the host ends it.
AnyFallingEdge(f) == ~f.previousStart /\ gate
OverWhenReleased(f) == f.playActive /\ ~gate

FallingEdge(f) == ~f.previousStart /\ gate /\ f.homing # "fault"

\* A new low level on A0 is a play, or a home request when A1-A3 say 111.
StartEdge(f) ==
  IF ~FallingEdge(f)
    THEN f
    ELSE IF GrabberPowerLevel = TimeUpPulseCode
      THEN StartHoming([f EXCEPT !.playActive = FALSE])
      ELSE StartPulse([f EXCEPT !.playActive = TRUE, !.playAge = 0], FALSE)

\* The gate was released, or the play has reached the firmware's own limit.
PlayIsOver(f) == f.playActive /\ (~gate \/ f.playAge >= PlayLimit)

\* startHoming comes last and switches D5 off again.
PlayEnd(f) ==
  LET pulseWanted == ~gate /\ GrabberPowerLevel = TimeUpPulseCode
      ended == [f EXCEPT !.playActive = FALSE]
  IN  IF PlayIsOver(f)
        THEN StartHoming(IF pulseWanted THEN StartPulse(ended, TRUE) ELSE ended)
        ELSE f

Controls(f, in) ==
  [LinearControl(f, in.lift) EXCEPT
     !.grabber = IF in.ch6 THEN HoldPercent ELSE 0,
     !.stepping = in.axes,
     !.buzzer = in.axes # {} \/ in.lift # "stopped"]

\* The start pulse keeps the controls out until it is over.
Playing(f, in) ==
  LET pulsed == UpdatePulse(f)
  IN  IF pulsed.pulseActive THEN pulsed ELSE Controls(pulsed, in)

Stopped(f, in) ==
  LET still == LinearStop(f)
  IN  IF still.timeUpPulse
        THEN UpdatePulse([still EXCEPT !.buzzer = FALSE])
        ELSE IF still.homing # "idle"
          THEN UpdateHoming(still, in)
          ELSE [still EXCEPT !.buzzer = FALSE, !.grabber = 0,
                             !.pulseActive = FALSE, !.pulseState = FALSE,
                             !.pulseToggles = 0]

Sampled(f) ==
  [PlayEnd(StartEdge([f EXCEPT !.stepping = {}])) EXCEPT !.previousStart = gate]

Loop(f, in) ==
  LET s == Sampled(f)
  IN  IF s.playActive THEN Playing(s, in) ELSE Stopped(s, in)

\* History: D5 goes from off to full power within a pulse sequence.
CountPulses ==
  LET begins == fw'.pulseActive /\ fw'.pulseToggles = 1 /\ fw'.pulseAge = 0
      rises  == fw'.pulseActive /\ fw'.grabber = 100 /\ fw.grabber # 100
  IN  IF begins THEN IF fw'.grabber = 100 THEN 1 ELSE 0
                ELSE pulses + (IF rises THEN 1 ELSE 0)

LoopPass ==
  /\ \E in \in Inputs : fw' = Loop(fw, in)
  /\ polled' = TRUE
  /\ pulses' = CountPulses

(***************************************************************************)
(* Time.  A pass takes far less than a tick: loop() runs between two ticks. *)
(***************************************************************************)
Age(n, limit) == IF n < limit THEN n + 1 ELSE n

HomingLimit(homing) == IF homing = "xAxis" THEN XHomingTimeout ELSE YHomingTimeout

FirmwareTick ==
  /\ polled
  /\ polled' = FALSE
  /\ fw' = [fw EXCEPT
       !.playAge   = IF fw.playActive THEN Age(@, PlayLimit) ELSE @,
       !.pulseAge  = IF fw.pulseActive THEN Age(@, PulseInterval) ELSE @,
       !.homingAge = IF fw.homing \in {"yAxis", "xAxis"}
                       THEN Age(@, HomingLimit(fw.homing)) ELSE @]
  /\ UNCHANGED pulses

\* Power loss, brown-out or the reset button.
PowerCycle ==
  /\ fw' = Boot
  /\ polled' = TRUE
  /\ pulses' = 0

FirmwareInit ==
  /\ fw = Boot
  /\ polled = TRUE
  /\ pulses = 0

(***************************************************************************)
(* On its own the firmware is checked against a host that may do anything   *)
(* with the wires at any time.                                              *)
(***************************************************************************)
HostWrites ==
  /\ gate' \in BOOLEAN
  /\ power' \in SUBSET PowerPins
  /\ UNCHANGED firmwareVars

vars == << gate, power, fw, polled, pulses >>

Init ==
  /\ gate \in BOOLEAN
  /\ power \in SUBSET PowerPins
  /\ FirmwareInit

Next ==
  \/ LoopPass /\ UNCHANGED << gate, power >>
  \/ FirmwareTick /\ UNCHANGED << gate, power >>
  \/ PowerCycle /\ UNCHANGED << gate, power >>
  \/ HostWrites

Spec == Init /\ [][Next]_vars

\* The processor runs and time passes.
FairSpec ==
  /\ Spec
  /\ WF_vars(LoopPass /\ UNCHANGED << gate, power >>)
  /\ WF_vars(FirmwareTick /\ UNCHANGED << gate, power >>)

-----------------------------------------------------------------------------
(***************************************************************************)
(* Properties.                                                              *)
(***************************************************************************)
TypeOK ==
  /\ gate \in BOOLEAN
  /\ power \in SUBSET PowerPins
  /\ fw \in Firmware
  /\ polled \in BOOLEAN
  /\ pulses \in Nat

\* Outside a play nothing moves but a homing axis, both relays are off, and the
\* grabber is powered by the end pulse only.  The two relays of the actuator are
\* never on together: the motor state the interlock relies on is theirs.
StoppedIsStill ==
  /\ fw.relays = IF fw.linear = "stopped" THEN {} ELSE {fw.linear}
  /\ ~fw.playActive =>
    /\ fw.relays = {}
    /\ fw.stepping # {} => fw.homing \in {"yAxis", "xAxis"}
    /\ fw.grabber > 0 => fw.timeUpPulse

\* The start pulse locks the player's controls out, and an end pulse never
\* overlaps a play.
PulseLocksControls ==
  /\ fw.playActive /\ fw.pulseActive => fw.stepping = {} /\ fw.relays = {}
  /\ fw.timeUpPulse => fw.pulseActive /\ ~fw.playActive

\* A homing fault blocks every play and lasts until the Arduino restarts.
FaultLatches ==
  [][fw.homing = "fault" =>
       ~fw.playActive /\ (fw' = Boot \/ (fw'.homing = "fault" /\ ~fw'.playActive))]_vars

\* Whatever the host does with the gate, no play outlives the firmware's limit
\* by more than the pass that notices it ...
LimitEnforced == fw.playActive /\ polled => fw.playAge < PlayLimit

\* ... so a gate that is held forever, or a host that has died, cannot keep the
\* machine active.
PlayIsBounded == fw.playActive ~> ~fw.playActive

\* The start of a play pulses the grabber exactly three times before the player
\* gets the controls.
StartPulsesThrice ==
  [][fw.playActive /\ fw.pulseActive /\ fw'.playActive /\ ~fw'.pulseActive =>
       pulses = 3]_vars

\* The documents promise the same for the end pulse.
EndPulsesThrice ==
  [][fw.timeUpPulse /\ ~fw'.timeUpPulse /\ fw'.pulseToggles = PulseToggleCount =>
       pulses = 3]_vars
=============================================================================
