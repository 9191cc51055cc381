------------------------- MODULE ClawFirmwareProofs -------------------------
(***************************************************************************)
(* Proofs about the sketch alone, for every limit and timeout, every set of *)
(* readings, and a host that drives the wires at will.                      *)
(*                                                                          *)
(* The functions of the sketch act on the whole of its globals, so each has *)
(* a lemma: it keeps their types, and what Sound says of them.              *)
(***************************************************************************)
EXTENDS ClawFirmware, TLAPS

\* What holds of the globals at every point of a pass.
Sound(f) ==
  /\ f.relays = IF f.linear = "stopped" THEN {} ELSE {f.linear}
  /\ ~f.playActive => f.linear = "stopped" /\ (f.grabber > 0 => f.timeUpPulse)
  /\ f.playActive /\ f.pulseActive => f.linear = "stopped"
  /\ f.timeUpPulse => f.pulseActive /\ ~f.playActive
  /\ f.playActive => f.homing # "fault"

\* What holds of them once the pass is over.
PassOver(f) ==
  /\ f.stepping # {} =>
       IF f.playActive THEN ~f.pulseActive ELSE f.homing \in {"yAxis", "xAxis"}
  /\ f.playActive => f.previousStart

WiresOK == gate \in BOOLEAN /\ power \in SUBSET PowerPins

-----------------------------------------------------------------------------
(***************************************************************************)
(* Each global keeps its type when it is assigned a value of it.            *)
(***************************************************************************)
LEMMA FlagSetters ==
  ASSUME NEW f \in Firmware, NEW b \in BOOLEAN
  PROVE  /\ [f EXCEPT !.playActive = b] \in Firmware
         /\ [f EXCEPT !.previousStart = b] \in Firmware
         /\ [f EXCEPT !.pulseActive = b] \in Firmware
         /\ [f EXCEPT !.timeUpPulse = b] \in Firmware
         /\ [f EXCEPT !.pulseState = b] \in Firmware
         /\ [f EXCEPT !.buzzer = b] \in Firmware
BY DEF Firmware

LEMMA NumberSetters ==
  ASSUME NEW f \in Firmware
  PROVE  /\ \A n \in 0..PlayLimit : [f EXCEPT !.playAge = n] \in Firmware
         /\ \A n \in 0..PulseToggleCount : [f EXCEPT !.pulseToggles = n] \in Firmware
         /\ \A n \in 0..PulseInterval : [f EXCEPT !.pulseAge = n] \in Firmware
         /\ \A n \in Nat : [f EXCEPT !.homingAge = n] \in Firmware
         /\ \A n \in 0..100 : [f EXCEPT !.grabber = n] \in Firmware
BY DEF Firmware

LEMMA SetSetters ==
  ASSUME NEW f \in Firmware
  PROVE  /\ \A h \in HomingStates : [f EXCEPT !.homing = h] \in Firmware
         /\ \A l \in Lifts : [f EXCEPT !.linear = l] \in Firmware
         /\ \A r \in SUBSET {"up", "down"} : [f EXCEPT !.relays = r] \in Firmware
         /\ \A a \in SUBSET Axes : [f EXCEPT !.stepping = a] \in Firmware
BY DEF Firmware

-----------------------------------------------------------------------------
(***************************************************************************)
(* The grabber.                                                             *)
(***************************************************************************)
\* No level of A1-A3 asks for less than 40% or more than 100%.
LEMMA HoldPercentBounds == HoldPercent \in 40..100
<1>1. \A pin \in PowerPins : PinBit(pin) \in 0..4
  BY DEF PinBit, PowerPins, PinWeight
<1>2. PinBit("A1") \in 0..4 /\ PinBit("A2") \in 0..4 /\ PinBit("A3") \in 0..4
  BY <1>1 DEF PowerPins
<1>3. GrabberPowerLevel \in 0..12
  BY <1>2 DEF GrabberPowerLevel
<1> QED BY <1>3 DEF HoldPercent

LEMMA StartPulseLemma ==
  ASSUME NEW f \in Firmware, NEW timeUp \in BOOLEAN
  PROVE  StartPulse(f, timeUp) \in Firmware
<1> DEFINE f1 == [f EXCEPT !.pulseActive = TRUE]
           f2 == [f1 EXCEPT !.timeUpPulse = timeUp]
           f3 == [f2 EXCEPT !.pulseState = TRUE]
           f4 == [f3 EXCEPT !.pulseToggles = 1]
           f5 == [f4 EXCEPT !.pulseAge = 0]
           f6 == [f5 EXCEPT !.grabber = 100]
<1>1. StartPulse(f, timeUp) = f6
  BY DEF StartPulse
<1>2. 1 \in 0..PulseToggleCount /\ 0 \in 0..PulseInterval /\ 100 \in 0..100
  BY FirmwareAssumption DEF PulseToggleCount
<1>3. f3 \in Firmware
  BY FlagSetters
<1> HIDE DEF f3
<1>4. f6 \in Firmware
  BY <1>2, <1>3, NumberSetters
<1> QED BY <1>1, <1>4

\* A toggle of the pulse touches the pulse and D5 only.
LEMMA UpdatePulseLemma ==
  ASSUME NEW f \in Firmware
  PROVE  /\ UpdatePulse(f) \in Firmware
         /\ \A x \in {"playActive", "previousStart", "playAge", "homing",
                      "linear", "relays", "stepping"} :
              UpdatePulse(f)[x] = f[x]
         /\ \/ UpdatePulse(f) = f
            \/ /\ UpdatePulse(f).pulseActive = f.pulseActive
               /\ UpdatePulse(f).timeUpPulse = f.timeUpPulse
            \/ /\ ~UpdatePulse(f).pulseActive /\ ~UpdatePulse(f).timeUpPulse
               /\ UpdatePulse(f).grabber = 0
<1>0. f.pulseActive \in BOOLEAN /\ f.pulseState \in BOOLEAN /\ f.pulseToggles \in Nat
  BY DEF Firmware
<1>1. CASE ~f.pulseActive \/ f.pulseAge < PulseInterval
  BY <1>1 DEF UpdatePulse
<1>2. CASE f.pulseActive /\ ~(f.pulseAge < PulseInterval)
  <2> DEFINE f0 == [f EXCEPT !.pulseAge = 0]
  <2>0. f0 \in Firmware
    <3>1. 0 \in 0..PulseInterval
      BY FirmwareAssumption
    <3> QED BY <3>1, NumberSetters
  <2>1. CASE f.pulseToggles + 1 >= PulseToggleCount
    <3> DEFINE f1 == [f0 EXCEPT !.pulseToggles = PulseToggleCount]
               f2 == [f1 EXCEPT !.pulseActive = FALSE]
               f3 == [f2 EXCEPT !.timeUpPulse = FALSE]
               f4 == [f3 EXCEPT !.pulseState = FALSE]
               f5 == [f4 EXCEPT !.grabber = 0]
    <3>1. UpdatePulse(f) = f5
      BY <1>2, <2>1 DEF UpdatePulse
    <3>2. PulseToggleCount \in 0..PulseToggleCount /\ 0 \in 0..100
      BY DEF PulseToggleCount
    <3> HIDE DEF f0
    <3>3. f1 \in Firmware
      BY <2>0, <3>2, NumberSetters
    <3> HIDE DEF f1
    <3>4. f4 \in Firmware
      BY <3>3, FlagSetters
    <3> HIDE DEF f4
    <3>5. f5 \in Firmware
      BY <3>2, <3>4, NumberSetters
    <3>6. \A x \in {"playActive", "previousStart", "playAge", "homing",
                    "linear", "relays", "stepping"} : f5[x] = f[x]
      BY DEF Firmware, f4, f1, f0
    <3>7. ~f5.pulseActive /\ ~f5.timeUpPulse /\ f5.grabber = 0
      BY DEF Firmware, f4, f1, f0
    <3> QED BY <3>1, <3>5, <3>6, <3>7
  <2>2. CASE ~(f.pulseToggles + 1 >= PulseToggleCount)
    <3> DEFINE duty == IF f.pulseState THEN 0 ELSE 100
               f1 == [f0 EXCEPT !.pulseToggles = f.pulseToggles + 1]
               f2 == [f1 EXCEPT !.pulseState = ~f.pulseState]
               f3 == [f2 EXCEPT !.grabber = duty]
    <3>1. UpdatePulse(f) = f3
      BY <1>2, <2>2 DEF UpdatePulse, Firmware
    <3>2. f.pulseToggles + 1 \in 0..PulseToggleCount /\ duty \in 0..100
      BY <1>0, <2>2 DEF PulseToggleCount
    <3>3. (~f.pulseState) \in BOOLEAN
      OBVIOUS
    <3> HIDE DEF f0
    <3>4. f1 \in Firmware
      BY <2>0, <3>2, NumberSetters
    <3> HIDE DEF f1
    <3>5. f2 \in Firmware
      BY <3>3, <3>4, FlagSetters
    <3> HIDE DEF f2, duty
    <3>6. f3 \in Firmware
      BY <3>2, <3>5, NumberSetters
    <3>7. \A x \in {"playActive", "previousStart", "playAge", "homing",
                    "linear", "relays", "stepping", "pulseActive", "timeUpPulse"} :
            f3[x] = f[x]
      BY DEF Firmware, f2, f1, f0
    <3> QED BY <3>1, <3>6, <3>7
  <2> QED BY <2>1, <2>2
<1> QED BY <1>0, <1>1, <1>2

-----------------------------------------------------------------------------
(***************************************************************************)
(* The actuator.                                                            *)
(***************************************************************************)
LEMMA LinearStopLemma ==
  ASSUME NEW f \in Firmware
  PROVE  /\ LinearStop(f) \in Firmware
         /\ LinearStop(f).linear = "stopped" /\ LinearStop(f).relays = {}
         /\ \A x \in DOMAIN f \ {"linear", "relays"} : LinearStop(f)[x] = f[x]
<1> DEFINE f1 == [f EXCEPT !.relays = {}]
           f2 == [f1 EXCEPT !.linear = "stopped"]
<1>1. LinearStop(f) = f2
  BY DEF LinearStop
<1>2. f2.linear = "stopped" /\ f2.relays = {}
      /\ \A x \in DOMAIN f \ {"linear", "relays"} : f2[x] = f[x]
  BY DEF Firmware
<1>3. f1 \in Firmware
  <2>1. {} \in SUBSET {"up", "down"}
    OBVIOUS
  <2> QED BY <2>1, SetSetters
<1> HIDE DEF f1
<1>4. f2 \in Firmware
  <2>1. "stopped" \in Lifts
    BY DEF Lifts
  <2> QED BY <1>3, <2>1, SetSetters
<1> QED BY <1>1, <1>2, <1>4

\* The two relays are never on together: the one that is on is the one of the
\* motor state, before a command and after it.
LEMMA LinearControlLemma ==
  ASSUME NEW f \in Firmware, NEW lift \in Lifts,
         f.relays = IF f.linear = "stopped" THEN {} ELSE {f.linear}
  PROVE  LET g == LinearControl(f, lift) IN
         /\ g \in Firmware
         /\ g.relays = IF g.linear = "stopped" THEN {} ELSE {g.linear}
         /\ \A x \in DOMAIN f \ {"linear", "relays"} : g[x] = f[x]
<1>1. CASE lift = "stopped"
  BY <1>1, LinearStopLemma DEF LinearControl
<1>2. CASE lift # "stopped" /\ f.linear = lift
  BY <1>2 DEF LinearControl, LinearMove
<1>3. CASE lift # "stopped" /\ f.linear # lift
  <2> DEFINE on == (f.relays \ ({"up", "down"} \ {lift})) \cup {lift}
             f1 == [f EXCEPT !.linear = lift]
             f2 == [f1 EXCEPT !.relays = on]
  <2>1. lift \in {"up", "down"} /\ f.relays \in SUBSET {"up", "down"}
    BY <1>3 DEF Lifts, Firmware
  <2>2. on = {lift}
    BY <2>1
  <2>3. LinearControl(f, lift) = f2
    BY <1>3 DEF LinearControl, LinearMove
  <2> HIDE DEF on
  <2>4. f2.linear = lift /\ f2.relays = on
        /\ \A x \in DOMAIN f \ {"linear", "relays"} : f2[x] = f[x]
    BY DEF Firmware
  <2>5. f1 \in Firmware
    BY SetSetters
  <2> HIDE DEF f1
  <2>6. f2 \in Firmware
    BY <2>1, <2>2, <2>5, SetSetters
  <2> QED BY <1>3, <2>2, <2>3, <2>4, <2>6
<1> QED BY <1>1, <1>2, <1>3

-----------------------------------------------------------------------------
(***************************************************************************)
(* Homing.                                                                  *)
(***************************************************************************)
LEMMA StartHomingLemma ==
  ASSUME NEW f \in Firmware
  PROVE  LET g == StartHoming(f) IN
         /\ g \in Firmware
         /\ g.linear = "stopped" /\ g.relays = {} /\ g.grabber = 0 /\ g.homing = "yAxis"
         /\ \A x \in DOMAIN f \ {"linear", "relays", "grabber", "homing",
                                "homingAge", "buzzer"} : g[x] = f[x]
<1> DEFINE f1 == LinearStop(f)
           f2 == [f1 EXCEPT !.grabber = 0]
           f3 == [f2 EXCEPT !.homing = "yAxis"]
           f4 == [f3 EXCEPT !.homingAge = 0]
           f5 == [f4 EXCEPT !.buzzer = TRUE]
<1>1. StartHoming(f) = f5
  BY DEF StartHoming
<1>2. /\ f1 \in Firmware /\ DOMAIN f1 = DOMAIN f
      /\ f1.linear = "stopped" /\ f1.relays = {}
      /\ \A x \in DOMAIN f \ {"linear", "relays"} : f1[x] = f[x]
  <2>1. f1 \in Firmware
    BY LinearStopLemma
  <2>2. DOMAIN f1 = DOMAIN f
    BY <2>1 DEF Firmware
  <2> QED BY <2>1, <2>2, LinearStopLemma
<1> HIDE DEF f1
<1>3. f2 \in Firmware
  <2>1. 0 \in 0..100
    OBVIOUS
  <2> QED BY <1>2, <2>1, NumberSetters
<1>4. /\ f5.linear = f1.linear /\ f5.relays = f1.relays
      /\ f5.grabber = 0 /\ f5.homing = "yAxis"
      /\ \A x \in DOMAIN f1 \ {"linear", "relays", "grabber", "homing",
                              "homingAge", "buzzer"} : f5[x] = f1[x]
  BY <1>2 DEF Firmware
<1> HIDE DEF f2
<1>5. f3 \in Firmware
  <2>1. "yAxis" \in HomingStates
    BY DEF HomingStates
  <2> QED BY <1>3, <2>1, SetSetters
<1> HIDE DEF f3
<1>6. f4 \in Firmware
  <2>1. 0 \in Nat
    OBVIOUS
  <2> QED BY <1>5, <2>1, NumberSetters
<1> HIDE DEF f4
<1>7. f5 \in Firmware
  BY <1>6, FlagSetters
<1> QED BY <1>1, <1>2, <1>4, <1>7

\* What a step of homing does: it may move its axis, and it never clears a fault
\* nor begins another homing.
HomingStep(f, g) ==
  /\ g \in Firmware
  /\ g.homing \in {"yAxis", "xAxis"} => f.homing \in {"yAxis", "xAxis"}
  /\ g.stepping # f.stepping => g.homing \in {"yAxis", "xAxis"}
  /\ f.homing = "fault" => g.homing = "fault"
  /\ g.playActive = f.playActive /\ g.previousStart = f.previousStart
  /\ g.playAge = f.playAge /\ g.grabber = f.grabber
  /\ g.pulseActive = f.pulseActive /\ g.timeUpPulse = f.timeUpPulse
  /\ g.linear = f.linear /\ g.relays = f.relays

LEMMA BuzzerStep ==
  ASSUME NEW f \in Firmware, NEW b \in BOOLEAN
  PROVE  LET g == [f EXCEPT !.buzzer = b] IN
         /\ HomingStep(f, g)
         /\ g.homing = f.homing /\ g.homingAge = f.homingAge /\ g.stepping = f.stepping
<1>1. [f EXCEPT !.buzzer = b] \in Firmware
  BY FlagSetters
<1> QED BY <1>1 DEF HomingStep, Firmware

LEMMA HomingFaultStep ==
  ASSUME NEW f \in Firmware
  PROVE  HomingStep(f, HomingFault(f))
<1> DEFINE f1 == [f EXCEPT !.homing = "fault"]
<1>1. HomingFault(f) = [f1 EXCEPT !.buzzer = TRUE]
  BY DEF HomingFault
<1>2. f1 \in Firmware
  <2>1. "fault" \in HomingStates
    BY DEF HomingStates
  <2> QED BY <2>1, SetSetters
<1>3. [f1 EXCEPT !.buzzer = TRUE] \in Firmware
  BY <1>2, FlagSetters
<1> QED BY <1>1, <1>3 DEF HomingStep, Firmware

LEMMA HomingDoneStep ==
  ASSUME NEW f \in Firmware, f.homing # "fault"
  PROVE  HomingStep(f, HomingDone(f))
<1> DEFINE f1 == [f EXCEPT !.homing = "idle"]
<1>1. HomingDone(f) = [f1 EXCEPT !.buzzer = FALSE]
  BY DEF HomingDone
<1>2. f1 \in Firmware
  <2>1. "idle" \in HomingStates
    BY DEF HomingStates
  <2> QED BY <2>1, SetSetters
<1>3. [f1 EXCEPT !.buzzer = FALSE] \in Firmware
  BY <1>2, FlagSetters
<1> QED BY <1>1, <1>3 DEF HomingStep, Firmware

LEMMA HomeYStep ==
  ASSUME NEW f \in Firmware, NEW in \in Input, f.homing = "yAxis"
  PROVE  HomingStep(f, HomeY(f, in))
<1>1. CASE in.yHome /\ XHomingEnabled
  <2> DEFINE f1 == [f EXCEPT !.homing = "xAxis"]
  <2>1. HomeY(f, in) = [f1 EXCEPT !.homingAge = 0]
    BY <1>1 DEF HomeY
  <2>2. f1 \in Firmware
    <3>1. "xAxis" \in HomingStates
      BY DEF HomingStates
    <3> QED BY <3>1, SetSetters
  <2>3. [f1 EXCEPT !.homingAge = 0] \in Firmware
    <3>1. 0 \in Nat
      OBVIOUS
    <3> QED BY <2>2, <3>1, NumberSetters
  <2> QED BY <2>1, <2>3 DEF HomingStep, Firmware
<1>2. CASE in.yHome /\ ~XHomingEnabled
  <2>1. HomeY(f, in) = [f EXCEPT !.homing = "complete"]
    BY <1>2 DEF HomeY
  <2>2. [f EXCEPT !.homing = "complete"] \in Firmware
    <3>1. "complete" \in HomingStates
      BY DEF HomingStates
    <3> QED BY <3>1, SetSetters
  <2> QED BY <2>1, <2>2 DEF HomingStep, Firmware
<1>3. CASE ~in.yHome /\ f.homingAge >= YHomingTimeout
  BY <1>3, HomingFaultStep DEF HomeY
<1>4. CASE ~in.yHome /\ ~(f.homingAge >= YHomingTimeout)
  <2>1. HomeY(f, in) = [f EXCEPT !.stepping = {"Y"}]
    BY <1>4 DEF HomeY
  <2>2. [f EXCEPT !.stepping = {"Y"}] \in Firmware
    <3>1. {"Y"} \in SUBSET Axes
      BY DEF Axes
    <3> QED BY <3>1, SetSetters
  <2> QED BY <2>1, <2>2 DEF HomingStep, Firmware
<1> QED BY <1>1, <1>2, <1>3, <1>4

LEMMA HomeXStep ==
  ASSUME NEW f \in Firmware, NEW in \in Input, f.homing = "xAxis"
  PROVE  HomingStep(f, HomeX(f, in))
<1>1. CASE in.xHome
  BY <1>1, HomingDoneStep DEF HomeX
<1>2. CASE ~in.xHome /\ f.homingAge >= XHomingTimeout
  BY <1>2, HomingFaultStep DEF HomeX
<1>3. CASE ~in.xHome /\ ~(f.homingAge >= XHomingTimeout)
  <2>1. HomeX(f, in) = [f EXCEPT !.stepping = {"X"}]
    BY <1>3 DEF HomeX
  <2>2. [f EXCEPT !.stepping = {"X"}] \in Firmware
    <3>1. {"X"} \in SUBSET Axes
      BY DEF Axes
    <3> QED BY <3>1, SetSetters
  <2> QED BY <2>1, <2>2 DEF HomingStep, Firmware
<1> QED BY <1>1, <1>2, <1>3

LEMMA UpdateHomingStep ==
  ASSUME NEW f \in Firmware, NEW in \in Input
  PROVE  HomingStep(f, UpdateHoming(f, in))
<1> DEFINE beeping == [f EXCEPT !.buzzer = TRUE]
<1>1. HomingStep(f, beeping) /\ beeping.homing = f.homing /\ beeping.stepping = f.stepping
  BY BuzzerStep
<1> HIDE DEF beeping
<1>2. beeping \in Firmware
  BY <1>1 DEF HomingStep
<1>3. CASE f.homing = "yAxis"
  <2>1. UpdateHoming(f, in) = HomeY(beeping, in)
    BY <1>3 DEF UpdateHoming, beeping
  <2>2. HomingStep(beeping, HomeY(beeping, in))
    BY <1>1, <1>2, <1>3, HomeYStep
  <2> QED BY <1>1, <2>1, <2>2 DEF HomingStep
<1>4. CASE f.homing = "xAxis"
  <2>1. UpdateHoming(f, in) = HomeX(beeping, in)
    BY <1>4 DEF UpdateHoming, beeping
  <2>2. HomingStep(beeping, HomeX(beeping, in))
    BY <1>1, <1>2, <1>4, HomeXStep
  <2> QED BY <1>1, <2>1, <2>2 DEF HomingStep
<1>5. CASE f.homing = "complete"
  <2>1. UpdateHoming(f, in) = HomingDone(f)
    BY <1>5 DEF UpdateHoming
  <2> QED BY <1>5, <2>1, HomingDoneStep
<1>6. CASE f.homing \notin {"yAxis", "xAxis", "complete"}
  <2>1. UpdateHoming(f, in) = beeping
    BY <1>6 DEF UpdateHoming, beeping
  <2> QED BY <1>1, <2>1
<1> QED BY <1>3, <1>4, <1>5, <1>6

-----------------------------------------------------------------------------
(***************************************************************************)
(* The start and the end of a play.                                         *)
(***************************************************************************)
\* A play starts with a pulse and everything still; a home request starts none.
LEMMA StartEdgeSound ==
  ASSUME NEW f \in Firmware, Sound(f), f.playActive => f.previousStart
  PROVE  LET g == StartEdge(f) IN
         /\ g \in Firmware /\ Sound(g) /\ g.stepping = f.stepping
         /\ f.homing = "fault" => g = f
<1>1. CASE ~FallingEdge(f)
  BY <1>1 DEF StartEdge
<1>2. CASE FallingEdge(f) /\ GrabberPowerLevel = TimeUpPulseCode
  <2> DEFINE f1 == [f EXCEPT !.playActive = FALSE]
             g  == StartHoming(f1)
  <2>1. f1 \in Firmware
    BY FlagSetters
  <2>2. ~f1.playActive /\ f1.stepping = f.stepping
        /\ f1.pulseActive = f.pulseActive /\ f1.timeUpPulse = f.timeUpPulse
    BY DEF Firmware
  <2> HIDE DEF f1
  <2>3. /\ g \in Firmware /\ g.linear = "stopped" /\ g.relays = {} /\ g.grabber = 0
        /\ \A x \in DOMAIN f1 \ {"linear", "relays", "grabber", "homing",
                                 "homingAge", "buzzer"} : g[x] = f1[x]
    BY <2>1, StartHomingLemma
  <2>4. g.playActive = f1.playActive /\ g.stepping = f1.stepping
        /\ g.pulseActive = f1.pulseActive /\ g.timeUpPulse = f1.timeUpPulse
    BY <2>1, <2>3 DEF Firmware
  <2>5. StartEdge(f) = g
    BY <1>2 DEF StartEdge, f1
  <2> HIDE DEF g
  <2> QED BY <1>2, <2>2, <2>3, <2>4, <2>5 DEF Sound, FallingEdge
<1>3. CASE FallingEdge(f) /\ GrabberPowerLevel # TimeUpPulseCode
  <2> DEFINE f0 == [f EXCEPT !.playActive = TRUE]
             f1 == [f0 EXCEPT !.playAge = 0]
             g  == StartPulse(f1, FALSE)
  <2>1. f0 \in Firmware
    BY FlagSetters
  <2>2. f1.linear = f.linear /\ f1.relays = f.relays /\ f1.stepping = f.stepping
        /\ f1.homing = f.homing /\ f1.playActive
    BY DEF Firmware
  <2>3. StartEdge(f) = g
    BY <1>3 DEF StartEdge
  <2> HIDE DEF f0
  <2>4. f1 \in Firmware
    <3>1. 0 \in 0..PlayLimit
      BY FirmwareAssumption
    <3>2. \A n \in 0..PlayLimit : [f0 EXCEPT !.playAge = n] \in Firmware
      BY <2>1, NumberSetters
    <3> QED BY <3>1, <3>2
  <2> HIDE DEF f1
  <2>5. g \in Firmware
    BY <2>4, StartPulseLemma
  <2>6. g.linear = f1.linear /\ g.relays = f1.relays /\ g.stepping = f1.stepping
        /\ g.homing = f1.homing /\ g.playActive = f1.playActive
        /\ g.pulseActive /\ ~g.timeUpPulse
    BY <2>4 DEF StartPulse, Firmware
  <2>7. ~f.playActive /\ f.homing # "fault"
    BY <1>3 DEF FallingEdge
  <2> HIDE DEF g
  <2> QED BY <2>2, <2>3, <2>5, <2>6, <2>7 DEF Sound
<1> QED BY <1>1, <1>2, <1>3

\* A play that goes on has its gate and is younger than the limit.
LEMMA PlayEndSound ==
  ASSUME NEW f \in Firmware, Sound(f), WiresOK
  PROVE  LET g == PlayEnd(f) IN
         /\ g \in Firmware /\ Sound(g) /\ g.stepping = f.stepping
         /\ g.playActive => gate /\ g.playAge < PlayLimit
         /\ f.homing = "fault" => g = f
<1>1. CASE ~PlayIsOver(f)
  <2>1. f.playAge \in Nat /\ PlayLimit \in Nat
    BY FirmwareAssumption DEF Firmware
  <2>2. PlayEnd(f) = f
    BY <1>1 DEF PlayEnd
  <2>3. f.playActive => gate /\ f.playAge < PlayLimit
    BY <1>1, <2>1 DEF PlayIsOver
  <2> QED BY <2>2, <2>3
<1>2. CASE PlayIsOver(f)
  <2> DEFINE ended == [f EXCEPT !.playActive = FALSE]
             pulseWanted == ~gate /\ GrabberPowerLevel = TimeUpPulseCode
             f1 == IF pulseWanted THEN StartPulse(ended, TRUE) ELSE ended
             g  == StartHoming(f1)
  <2>1. ended \in Firmware
    BY FlagSetters
  <2>2. ~ended.playActive /\ ended.stepping = f.stepping
        /\ ended.pulseActive = f.pulseActive /\ ended.timeUpPulse = f.timeUpPulse
    BY DEF Firmware
  <2>3. PlayEnd(f) = g
    BY <1>2 DEF PlayEnd
  <2>4. ~f.timeUpPulse /\ f.homing # "fault"
    BY <1>2 DEF PlayIsOver, Sound
  <2> HIDE DEF ended
  <2>5. f1 \in Firmware /\ ~f1.playActive /\ f1.stepping = f.stepping
        /\ (f1.timeUpPulse => f1.pulseActive)
    <3>1. CASE pulseWanted
      <4>1. StartPulse(ended, TRUE) \in Firmware
        BY <2>1, StartPulseLemma
      <4>2. LET h == StartPulse(ended, TRUE) IN
            h.playActive = ended.playActive /\ h.stepping = ended.stepping /\ h.pulseActive
        BY <2>1 DEF StartPulse, Firmware
      <4> QED BY <2>2, <3>1, <4>1, <4>2
    <3>2. CASE ~pulseWanted
      BY <2>1, <2>2, <2>4, <3>2
    <3> QED BY <3>1, <3>2
  <2> HIDE DEF f1
  <2>6. /\ g \in Firmware /\ g.linear = "stopped" /\ g.relays = {} /\ g.grabber = 0
        /\ \A x \in DOMAIN f1 \ {"linear", "relays", "grabber", "homing",
                                 "homingAge", "buzzer"} : g[x] = f1[x]
    BY <2>5, StartHomingLemma
  <2>7. g.playActive = f1.playActive /\ g.stepping = f1.stepping
        /\ g.pulseActive = f1.pulseActive /\ g.timeUpPulse = f1.timeUpPulse
    BY <2>5, <2>6 DEF Firmware
  <2> HIDE DEF g
  <2> QED BY <2>3, <2>4, <2>5, <2>6, <2>7 DEF Sound
<1> QED BY <1>1, <1>2

\* What a pass has sampled before it drives anything.
LEMMA SampledSound ==
  ASSUME NEW f \in Firmware, Sound(f), PassOver(f), WiresOK
  PROVE  LET g == Sampled(f) IN
         /\ g \in Firmware /\ Sound(g) /\ g.stepping = {}
         /\ g.playActive => g.previousStart /\ g.playAge < PlayLimit
         /\ f.homing = "fault" => g.homing = "fault"
<1> DEFINE f1 == [f EXCEPT !.stepping = {}]
           f2 == StartEdge(f1)
           f3 == PlayEnd(f2)
           g  == [f3 EXCEPT !.previousStart = gate]
<1>1. f1 \in Firmware
  <2>1. {} \in SUBSET Axes
    OBVIOUS
  <2> QED BY <2>1, SetSetters
<1>2. Sound(f1) /\ (f1.playActive => f1.previousStart) /\ f1.stepping = {}
      /\ f1.homing = f.homing
  BY DEF Sound, PassOver, Firmware
<1>3. Sampled(f) = g
  BY DEF Sampled
<1> HIDE DEF f1
<1>4. f2 \in Firmware /\ Sound(f2) /\ f2.stepping = {} /\ (f.homing = "fault" => f2 = f1)
  BY <1>1, <1>2, StartEdgeSound
<1> HIDE DEF f2
<1>5. /\ f3 \in Firmware /\ Sound(f3) /\ f3.stepping = {}
      /\ f3.playActive => gate /\ f3.playAge < PlayLimit
      /\ f.homing = "fault" => f3 = f1
  BY <1>2, <1>4, PlayEndSound
<1> HIDE DEF f3
<1>6. g \in Firmware
  BY <1>5, FlagSetters DEF WiresOK
<1>7. /\ Sound(g) /\ g.stepping = {} /\ g.homing = f3.homing
      /\ g.playActive => g.previousStart /\ g.playAge < PlayLimit
  BY <1>5 DEF Sound, Firmware
<1> QED BY <1>2, <1>3, <1>5, <1>6, <1>7

-----------------------------------------------------------------------------
(***************************************************************************)
(* What a pass drives.                                                      *)
(***************************************************************************)
LEMMA ControlsSound ==
  ASSUME NEW f \in Firmware, Sound(f), f.playActive, ~f.pulseActive, NEW in \in Input
  PROVE  LET g == Controls(f, in) IN
         /\ g \in Firmware /\ Sound(g)
         /\ g.playActive /\ ~g.pulseActive /\ g.playAge = f.playAge
         /\ g.previousStart = f.previousStart
<1> DEFINE f1 == LinearControl(f, in.lift)
           duty == IF in.ch6 THEN HoldPercent ELSE 0
           noise == in.axes # {} \/ in.lift # "stopped"
           f2 == [f1 EXCEPT !.grabber = duty]
           f3 == [f2 EXCEPT !.stepping = in.axes]
           g  == [f3 EXCEPT !.buzzer = noise]
<1>1. in.lift \in Lifts /\ in.axes \in SUBSET Axes /\ noise \in BOOLEAN
  BY DEF Input
<1>2. duty \in 0..100
  BY HoldPercentBounds
<1>3. Controls(f, in) = g
  BY DEF Controls
<1>4. /\ f1 \in Firmware
      /\ f1.relays = IF f1.linear = "stopped" THEN {} ELSE {f1.linear}
      /\ \A x \in DOMAIN f \ {"linear", "relays"} : f1[x] = f[x]
  BY <1>1, LinearControlLemma DEF Sound
<1> HIDE DEF f1, duty, noise
<1>5. f2 \in Firmware
  BY <1>2, <1>4, NumberSetters
<1>6. /\ g.relays = f1.relays /\ g.linear = f1.linear /\ g.playActive = f1.playActive
      /\ g.pulseActive = f1.pulseActive /\ g.timeUpPulse = f1.timeUpPulse
      /\ g.homing = f1.homing /\ g.playAge = f1.playAge
      /\ g.previousStart = f1.previousStart
  BY <1>4 DEF Firmware
<1>7. /\ f1.playActive = f.playActive /\ f1.playAge = f.playAge
      /\ f1.pulseActive = f.pulseActive /\ f1.timeUpPulse = f.timeUpPulse
      /\ f1.homing = f.homing /\ f1.previousStart = f.previousStart
  BY <1>4 DEF Firmware
<1> HIDE DEF f2
<1>8. f3 \in Firmware
  BY <1>1, <1>5, SetSetters
<1> HIDE DEF f3
<1>9. g \in Firmware
  BY <1>1, <1>8, FlagSetters
<1> HIDE DEF g
<1> QED BY <1>3, <1>4, <1>6, <1>7, <1>9 DEF Sound

\* During a play either the start pulse goes on, with everything still, or the
\* player has the controls.
LEMMA PlayingSound ==
  ASSUME NEW f \in Firmware, Sound(f), f.stepping = {}, f.playActive, NEW in \in Input
  PROVE  LET g == Playing(f, in) IN
         /\ g \in Firmware /\ Sound(g)
         /\ g.playActive /\ g.playAge = f.playAge /\ g.previousStart = f.previousStart
         /\ g.stepping # {} => ~g.pulseActive
<1> DEFINE pulsed == UpdatePulse(f)
<1>1. /\ pulsed \in Firmware
      /\ pulsed.playActive = f.playActive /\ pulsed.previousStart = f.previousStart
      /\ pulsed.playAge = f.playAge /\ pulsed.homing = f.homing
      /\ pulsed.linear = f.linear /\ pulsed.relays = f.relays
      /\ pulsed.stepping = f.stepping
      /\ \/ pulsed = f
         \/ pulsed.pulseActive = f.pulseActive /\ pulsed.timeUpPulse = f.timeUpPulse
         \/ ~pulsed.pulseActive /\ ~pulsed.timeUpPulse
  BY UpdatePulseLemma
<1> HIDE DEF pulsed
<1>2. Sound(pulsed)
  BY <1>1 DEF Sound
<1>3. CASE pulsed.pulseActive
  <2>1. Playing(f, in) = pulsed
    BY <1>3 DEF Playing, pulsed
  <2> QED BY <1>1, <1>2, <2>1
<1>4. CASE ~pulsed.pulseActive
  <2>1. Playing(f, in) = Controls(pulsed, in)
    BY <1>4 DEF Playing, pulsed
  <2> QED BY <1>1, <1>2, <1>4, <2>1, ControlsSound
<1> QED BY <1>3, <1>4

\* Without a play the lift is stopped, and only the end pulse powers the grabber.
LEMMA StoppedSound ==
  ASSUME NEW f \in Firmware, Sound(f), f.stepping = {}, ~f.playActive, NEW in \in Input
  PROVE  LET g == Stopped(f, in) IN
         /\ g \in Firmware /\ Sound(g) /\ ~g.playActive
         /\ g.stepping # {} => g.homing \in {"yAxis", "xAxis"}
         /\ f.homing = "fault" => g.homing = "fault"
<1> DEFINE still == LinearStop(f)
<1>1. /\ still \in Firmware /\ still.linear = "stopped" /\ still.relays = {}
      /\ still.playActive = f.playActive /\ still.grabber = f.grabber
      /\ still.pulseActive = f.pulseActive /\ still.timeUpPulse = f.timeUpPulse
      /\ still.homing = f.homing /\ still.stepping = f.stepping
  BY LinearStopLemma DEF Firmware
<1>2. f.grabber \in 0..100
  BY DEF Firmware
<1> HIDE DEF still
<1>3. Sound(still) /\ (still.grabber > 0 => still.timeUpPulse)
  BY <1>1, <1>2 DEF Sound
<1>4. CASE still.timeUpPulse
  <2> DEFINE quiet == [still EXCEPT !.buzzer = FALSE]
             g == UpdatePulse(quiet)
  <2>1. Stopped(f, in) = g
    BY <1>4 DEF Stopped, still
  <2>2. /\ quiet \in Firmware /\ Sound(quiet) /\ ~quiet.playActive
        /\ quiet.homing = f.homing /\ quiet.stepping = {} /\ quiet.timeUpPulse
    <3>1. quiet \in Firmware
      BY <1>1, FlagSetters
    <3> QED BY <1>1, <1>3, <1>4, <3>1 DEF Sound, Firmware
  <2> HIDE DEF quiet
  <2>3. /\ g \in Firmware
        /\ g.playActive = quiet.playActive /\ g.homing = quiet.homing
        /\ g.linear = quiet.linear /\ g.relays = quiet.relays
        /\ g.stepping = quiet.stepping
        /\ \/ g = quiet
           \/ g.pulseActive = quiet.pulseActive /\ g.timeUpPulse = quiet.timeUpPulse
           \/ ~g.pulseActive /\ ~g.timeUpPulse /\ g.grabber = 0
    BY <2>2, UpdatePulseLemma
  <2> HIDE DEF g
  <2>4. Sound(g)
    <3>1. CASE g = quiet
      BY <2>2, <3>1
    <3>2. CASE g.pulseActive = quiet.pulseActive /\ g.timeUpPulse = quiet.timeUpPulse
      BY <2>2, <2>3, <3>2 DEF Sound
    <3>3. CASE ~g.pulseActive /\ ~g.timeUpPulse /\ g.grabber = 0
      BY <2>2, <2>3, <3>3 DEF Sound
    <3> QED BY <2>3, <3>1, <3>2, <3>3
  <2> QED BY <2>1, <2>2, <2>3, <2>4
<1>5. CASE ~still.timeUpPulse /\ still.homing # "idle"
  <2> DEFINE g == UpdateHoming(still, in)
  <2>1. Stopped(f, in) = g
    BY <1>5 DEF Stopped, still
  <2>2. HomingStep(still, g)
    BY <1>1, UpdateHomingStep
  <2> HIDE DEF g
  <2> QED BY <1>1, <1>3, <1>5, <2>1, <2>2 DEF HomingStep, Sound
<1>6. CASE ~still.timeUpPulse /\ still.homing = "idle"
  <2> DEFINE f1 == [still EXCEPT !.buzzer = FALSE]
             f2 == [f1 EXCEPT !.grabber = 0]
             f3 == [f2 EXCEPT !.pulseActive = FALSE]
             f4 == [f3 EXCEPT !.pulseState = FALSE]
             g  == [f4 EXCEPT !.pulseToggles = 0]
  <2>1. Stopped(f, in) = g
    BY <1>6 DEF Stopped, still
  <2>2. /\ g.linear = still.linear /\ g.relays = still.relays
        /\ g.playActive = still.playActive /\ g.stepping = still.stepping
        /\ g.homing = still.homing /\ g.timeUpPulse = still.timeUpPulse /\ g.grabber = 0
    BY <1>1 DEF Firmware
  <2>3. f1 \in Firmware
    BY <1>1, FlagSetters
  <2> HIDE DEF f1
  <2>4. f2 \in Firmware
    <3>1. 0 \in 0..100
      OBVIOUS
    <3> QED BY <2>3, <3>1, NumberSetters
  <2> HIDE DEF f2
  <2>5. f4 \in Firmware
    BY <2>4, FlagSetters
  <2> HIDE DEF f4
  <2>6. g \in Firmware
    <3>1. 0 \in 0..PulseToggleCount
      BY DEF PulseToggleCount
    <3> QED BY <2>5, <3>1, NumberSetters
  <2> HIDE DEF g
  <2> QED BY <1>1, <1>6, <2>1, <2>2, <2>6 DEF Sound
<1>7. still.timeUpPulse \in BOOLEAN
  BY <1>1 DEF Firmware
<1> QED BY <1>4, <1>5, <1>6, <1>7

\* One pass of loop().
LEMMA LoopSound ==
  ASSUME NEW f \in Firmware, Sound(f), PassOver(f), WiresOK, NEW in \in Input
  PROVE  LET g == Loop(f, in) IN
         /\ g \in Firmware /\ Sound(g) /\ PassOver(g)
         /\ g.playActive => g.playAge < PlayLimit
         /\ f.homing = "fault" => g.homing = "fault"
<1> DEFINE s == Sampled(f)
<1>1. /\ s \in Firmware /\ Sound(s) /\ s.stepping = {}
      /\ s.playActive => s.previousStart /\ s.playAge < PlayLimit
      /\ f.homing = "fault" => s.homing = "fault"
  BY SampledSound
<1> HIDE DEF s
<1>2. CASE s.playActive
  <2> DEFINE g == Playing(s, in)
  <2>1. Loop(f, in) = g
    BY <1>2 DEF Loop, s
  <2>2. /\ g \in Firmware /\ Sound(g)
        /\ g.playActive /\ g.playAge = s.playAge /\ g.previousStart = s.previousStart
        /\ g.stepping # {} => ~g.pulseActive
    BY <1>1, <1>2, PlayingSound
  <2> HIDE DEF g
  <2> QED BY <1>1, <1>2, <2>1, <2>2 DEF PassOver, Sound
<1>3. CASE ~s.playActive
  <2> DEFINE g == Stopped(s, in)
  <2>1. Loop(f, in) = g
    BY <1>3 DEF Loop, s
  <2>2. /\ g \in Firmware /\ Sound(g) /\ ~g.playActive
        /\ g.stepping # {} => g.homing \in {"yAxis", "xAxis"}
        /\ s.homing = "fault" => g.homing = "fault"
    BY <1>1, <1>3, StoppedSound
  <2> HIDE DEF g
  <2> QED BY <1>1, <2>1, <2>2 DEF PassOver
<1>4. s.playActive \in BOOLEAN
  BY <1>1 DEF Firmware
<1> QED BY <1>2, <1>3, <1>4

-----------------------------------------------------------------------------
(***************************************************************************)
(* What one pass does to the play, the end pulse and homing, case by case:  *)
(* what a host that shares nothing but the wires can rely on.               *)
(***************************************************************************)
\* Only all three pins together make level 7.
LEMMA LevelSeven ==
  ASSUME WiresOK
  PROVE  GrabberPowerLevel = TimeUpPulseCode <=> power = PowerPins
<1>1. GrabberPowerLevel = (IF "A1" \in power THEN 1 ELSE 0) + (IF "A2" \in power THEN 2 ELSE 0)
                          + (IF "A3" \in power THEN 4 ELSE 0)
  BY DEF GrabberPowerLevel, PinBit, PinWeight
<1>2. power = PowerPins <=> "A1" \in power /\ "A2" \in power /\ "A3" \in power
  BY DEF WiresOK, PowerPins
<1> QED BY <1>1, <1>2 DEF TimeUpPulseCode

\* The three things a call of updateGrabberPulse can do.
LEMMA UpdatePulseEffect ==
  ASSUME NEW f \in Firmware
  PROVE  LET g == UpdatePulse(f) IN
         /\ ~f.pulseActive \/ f.pulseAge < PulseInterval => g = f
         /\ f.pulseActive /\ ~(f.pulseAge < PulseInterval) =>
              IF f.pulseToggles + 1 >= PulseToggleCount
                THEN ~g.pulseActive
                ELSE /\ g.pulseActive /\ g.pulseToggles = f.pulseToggles + 1
                     /\ g.pulseState = ~f.pulseState
                     /\ g.grabber = IF f.pulseState THEN 0 ELSE 100
BY DEF UpdatePulse, Firmware

\* startGrabberPulse touches the pulse and D5 only.
LEMMA StartPulseEffect ==
  ASSUME NEW f \in Firmware, NEW timeUp \in BOOLEAN
  PROVE  LET g == StartPulse(f, timeUp) IN
         /\ g.pulseActive /\ g.timeUpPulse = timeUp /\ g.pulseState
         /\ g.pulseToggles = 1 /\ g.pulseAge = 0 /\ g.grabber = 100
         /\ g.playActive = f.playActive /\ g.playAge = f.playAge /\ g.homing = f.homing
         /\ g.previousStart = f.previousStart
BY DEF StartPulse, Firmware

\* A play that starts begins with a pulse of its own.
LEMMA StartEdgeEffect ==
  ASSUME NEW f \in Firmware
  PROVE  LET g == StartEdge(f) IN
         /\ ~FallingEdge(f) => g = f
         /\ FallingEdge(f) /\ GrabberPowerLevel = TimeUpPulseCode =>
              ~g.playActive /\ g.timeUpPulse = f.timeUpPulse /\ g.playAge = f.playAge
         /\ FallingEdge(f) /\ GrabberPowerLevel # TimeUpPulseCode =>
              /\ g.playActive /\ g.playAge = 0 /\ g.homing = f.homing
              /\ g.pulseActive /\ ~g.timeUpPulse /\ g.pulseState
              /\ g.pulseToggles = 1 /\ g.pulseAge = 0 /\ g.grabber = 100
<1>1. CASE ~FallingEdge(f)
  BY <1>1 DEF StartEdge
<1>2. CASE FallingEdge(f) /\ GrabberPowerLevel = TimeUpPulseCode
  <2> DEFINE f1 == [f EXCEPT !.playActive = FALSE]
  <2>1. f1 \in Firmware
    BY FlagSetters
  <2>2. ~f1.playActive /\ f1.timeUpPulse = f.timeUpPulse /\ f1.playAge = f.playAge
    BY DEF Firmware
  <2>3. StartEdge(f) = StartHoming(f1)
    BY <1>2 DEF StartEdge
  <2> HIDE DEF f1
  <2>4. DOMAIN f1 \ {"linear", "relays", "grabber", "homing", "homingAge", "buzzer"}
          = {"playActive", "previousStart", "playAge", "pulseActive", "timeUpPulse",
             "pulseState", "pulseToggles", "pulseAge", "stepping"}
    BY <2>1 DEF Firmware
  <2>5. StartHoming(f1).playActive = f1.playActive
        /\ StartHoming(f1).timeUpPulse = f1.timeUpPulse
        /\ StartHoming(f1).playAge = f1.playAge
    BY <2>1, <2>4, StartHomingLemma
  <2> QED BY <1>2, <2>2, <2>3, <2>5
<1>3. CASE FallingEdge(f) /\ GrabberPowerLevel # TimeUpPulseCode
  <2> DEFINE f0 == [f EXCEPT !.playActive = TRUE]
             f1 == [f0 EXCEPT !.playAge = 0]
  <2>1. StartEdge(f) = StartPulse(f1, FALSE)
    BY <1>3 DEF StartEdge
  <2>2. f0 \in Firmware
    BY FlagSetters
  <2>3. f1.playActive /\ f1.playAge = 0 /\ f1.homing = f.homing
    BY DEF Firmware
  <2> HIDE DEF f0
  <2>4. f1 \in Firmware
    <3>1. 0 \in 0..PlayLimit
      BY FirmwareAssumption
    <3> QED BY <2>2, <3>1, NumberSetters
  <2> HIDE DEF f1
  <2>5. LET g == StartPulse(f1, FALSE) IN
        /\ g.pulseActive /\ ~g.timeUpPulse /\ g.pulseState
        /\ g.pulseToggles = 1 /\ g.pulseAge = 0 /\ g.grabber = 100
        /\ g.playActive = f1.playActive /\ g.playAge = f1.playAge /\ g.homing = f1.homing
    BY <2>4, StartPulseEffect
  <2> QED BY <1>3, <2>1, <2>3, <2>5
<1> QED BY <1>1, <1>2, <1>3

\* A play that ends leaves an end pulse exactly when the host asked for one.
LEMMA PlayEndEffect ==
  ASSUME NEW f \in Firmware
  PROVE  LET g == PlayEnd(f)
             pulseWanted == ~gate /\ GrabberPowerLevel = TimeUpPulseCode IN
         /\ ~PlayIsOver(f) => g = f
         /\ PlayIsOver(f) =>
              /\ ~g.playActive /\ g.playAge = f.playAge
              /\ pulseWanted => g.timeUpPulse /\ g.pulseActive /\ g.pulseAge = 0
              /\ ~pulseWanted => g.timeUpPulse = f.timeUpPulse
<1>1. CASE ~PlayIsOver(f)
  BY <1>1 DEF PlayEnd
<1>2. CASE PlayIsOver(f)
  <2> DEFINE ended == [f EXCEPT !.playActive = FALSE]
             pulseWanted == ~gate /\ GrabberPowerLevel = TimeUpPulseCode
             f1 == IF pulseWanted THEN StartPulse(ended, TRUE) ELSE ended
  <2>1. ended \in Firmware
    BY FlagSetters
  <2>2. /\ ~ended.playActive /\ ended.timeUpPulse = f.timeUpPulse
        /\ ended.playAge = f.playAge
    BY DEF Firmware
  <2>3. PlayEnd(f) = StartHoming(f1)
    BY <1>2 DEF PlayEnd
  <2> HIDE DEF ended
  <2>4. StartPulse(ended, TRUE) \in Firmware
    BY <2>1, StartPulseLemma
  <2>5. LET h == StartPulse(ended, TRUE) IN
        /\ ~h.playActive /\ h.timeUpPulse /\ h.pulseActive /\ h.pulseAge = 0
        /\ h.playAge = f.playAge
    BY <2>1, <2>2, StartPulseEffect
  <2>6. /\ f1 \in Firmware /\ ~f1.playActive /\ f1.playAge = f.playAge
        /\ pulseWanted => f1.timeUpPulse /\ f1.pulseActive /\ f1.pulseAge = 0
        /\ ~pulseWanted => f1.timeUpPulse = f.timeUpPulse
    BY <2>1, <2>2, <2>4, <2>5
  <2> HIDE DEF f1
  <2>7. DOMAIN f1 \ {"linear", "relays", "grabber", "homing", "homingAge", "buzzer"}
          = {"playActive", "previousStart", "playAge", "pulseActive", "timeUpPulse",
             "pulseState", "pulseToggles", "pulseAge", "stepping"}
    BY <2>6 DEF Firmware
  <2>8. LET h == StartHoming(f1) IN
        /\ h.playActive = f1.playActive /\ h.timeUpPulse = f1.timeUpPulse
        /\ h.playAge = f1.playAge
        /\ h.pulseActive = f1.pulseActive /\ h.pulseAge = f1.pulseAge
    BY <2>6, <2>7, StartHomingLemma
  <2> HIDE DEF pulseWanted
  <2>9. LET h == PlayEnd(f) IN
        /\ ~h.playActive /\ h.playAge = f.playAge
        /\ pulseWanted => h.timeUpPulse /\ h.pulseActive /\ h.pulseAge = 0
        /\ ~pulseWanted => h.timeUpPulse = f.timeUpPulse
    BY <2>3, <2>6, <2>8
  <2> QED BY <1>2, <2>9 DEF pulseWanted
<1> QED BY <1>1, <1>2

\* Types alone, for any globals.
LEMMA StartEdgeType ==
  ASSUME NEW f \in Firmware
  PROVE  StartEdge(f) \in Firmware
<1>1. [f EXCEPT !.playActive = FALSE] \in Firmware
  BY FlagSetters
<1>2. StartHoming([f EXCEPT !.playActive = FALSE]) \in Firmware
  BY <1>1, StartHomingLemma
<1> DEFINE f0 == [f EXCEPT !.playActive = TRUE]
           f1 == [f0 EXCEPT !.playAge = 0]
<1>3. f0 \in Firmware
  BY FlagSetters
<1>4. StartEdge(f) \in {f, StartHoming([f EXCEPT !.playActive = FALSE]), StartPulse(f1, FALSE)}
  BY DEF StartEdge
<1> HIDE DEF f0
<1>5. f1 \in Firmware
  <2>1. 0 \in 0..PlayLimit
    BY FirmwareAssumption
  <2> QED BY <1>3, <2>1, NumberSetters
<1> HIDE DEF f1
<1>6. StartPulse(f1, FALSE) \in Firmware
  BY <1>5, StartPulseLemma
<1> QED BY <1>2, <1>4, <1>6

LEMMA PlayEndType ==
  ASSUME NEW f \in Firmware
  PROVE  PlayEnd(f) \in Firmware
<1> DEFINE ended == [f EXCEPT !.playActive = FALSE]
<1>1. ended \in Firmware
  BY FlagSetters
<1>2. PlayEnd(f) \in {f, StartHoming(ended), StartHoming(StartPulse(ended, TRUE))}
  BY DEF PlayEnd
<1> HIDE DEF ended
<1>3. StartPulse(ended, TRUE) \in Firmware
  BY <1>1, StartPulseLemma
<1>4. StartHoming(ended) \in Firmware /\ StartHoming(StartPulse(ended, TRUE)) \in Firmware
  BY <1>1, <1>3, StartHomingLemma
<1> QED BY <1>2, <1>4

\* The first toggle of a pulse sequence, as startGrabberPulse leaves it.
FirstToggle(g) ==
  g.pulseActive /\ g.pulseState /\ g.pulseToggles = 1 /\ g.pulseAge = 0 /\ g.grabber = 100

\* Sampling the wires: a start, a home request, the end of a play, or nothing.
LEMMA SampledEffect ==
  ASSUME NEW f \in Firmware, f.playActive => f.previousStart, WiresOK
  PROVE  LET g == Sampled(f)
             pulseWanted == ~gate /\ GrabberPowerLevel = TimeUpPulseCode IN
         /\ g.previousStart = gate
         /\ FallingEdge(f) /\ GrabberPowerLevel # TimeUpPulseCode =>
              /\ g.playActive /\ g.playAge = 0 /\ g.homing = f.homing
              /\ FirstToggle(g) /\ ~g.timeUpPulse
         /\ FallingEdge(f) /\ GrabberPowerLevel = TimeUpPulseCode =>
              ~g.playActive /\ g.timeUpPulse = f.timeUpPulse /\ g.playAge = f.playAge
         /\ PlayIsOver(f) =>
              /\ ~g.playActive /\ g.playAge = f.playAge
              /\ pulseWanted => g.timeUpPulse /\ g.pulseActive /\ g.pulseAge = 0
              /\ ~pulseWanted => g.timeUpPulse = f.timeUpPulse
         /\ ~FallingEdge(f) /\ ~PlayIsOver(f) =>
              /\ g.playActive = f.playActive /\ g.playAge = f.playAge /\ g.homing = f.homing
              /\ g.pulseActive = f.pulseActive /\ g.timeUpPulse = f.timeUpPulse
              /\ g.pulseState = f.pulseState /\ g.pulseToggles = f.pulseToggles
              /\ g.pulseAge = f.pulseAge /\ g.grabber = f.grabber
<1> DEFINE f1 == [f EXCEPT !.stepping = {}]
           f2 == StartEdge(f1)
           f3 == PlayEnd(f2)
           g  == [f3 EXCEPT !.previousStart = gate]
           pulseWanted == ~gate /\ GrabberPowerLevel = TimeUpPulseCode
<1>1. f1 \in Firmware
  <2>1. {} \in SUBSET Axes
    OBVIOUS
  <2> QED BY <2>1, SetSetters
<1>2. /\ f1.playActive = f.playActive /\ f1.playAge = f.playAge /\ f1.homing = f.homing
      /\ f1.pulseActive = f.pulseActive /\ f1.timeUpPulse = f.timeUpPulse
      /\ f1.pulseState = f.pulseState /\ f1.pulseToggles = f.pulseToggles
      /\ f1.pulseAge = f.pulseAge /\ f1.grabber = f.grabber
      /\ f1.previousStart = f.previousStart
  BY DEF Firmware
<1>3. Sampled(f) = g
  BY DEF Sampled
<1> HIDE DEF f1
<1>4. /\ FallingEdge(f1) <=> FallingEdge(f)
      /\ PlayIsOver(f1) <=> PlayIsOver(f)
  BY <1>2 DEF FallingEdge, PlayIsOver
<1>5. f2 \in Firmware
  BY <1>1, StartEdgeType
<1>6. /\ ~FallingEdge(f) => f2 = f1
      /\ FallingEdge(f) /\ GrabberPowerLevel = TimeUpPulseCode =>
           ~f2.playActive /\ f2.timeUpPulse = f.timeUpPulse /\ f2.playAge = f.playAge
      /\ FallingEdge(f) /\ GrabberPowerLevel # TimeUpPulseCode =>
           /\ f2.playActive /\ f2.playAge = 0 /\ f2.homing = f.homing
           /\ FirstToggle(f2) /\ ~f2.timeUpPulse
  BY <1>1, <1>2, <1>4, StartEdgeEffect DEF FirstToggle
<1> HIDE DEF f2
<1>7. /\ ~PlayIsOver(f2) => f3 = f2
      /\ PlayIsOver(f2) =>
           /\ ~f3.playActive /\ f3.playAge = f2.playAge
           /\ pulseWanted => f3.timeUpPulse /\ f3.pulseActive /\ f3.pulseAge = 0
           /\ ~pulseWanted => f3.timeUpPulse = f2.timeUpPulse
  BY <1>5, PlayEndEffect
<1>8. f3 \in Firmware
  BY <1>5, PlayEndType
<1> HIDE DEF f3
<1>9. /\ g.previousStart = gate
      /\ g.playActive = f3.playActive /\ g.playAge = f3.playAge /\ g.homing = f3.homing
      /\ g.pulseActive = f3.pulseActive /\ g.timeUpPulse = f3.timeUpPulse
      /\ g.pulseState = f3.pulseState /\ g.pulseToggles = f3.pulseToggles
      /\ g.pulseAge = f3.pulseAge /\ g.grabber = f3.grabber
  BY <1>8 DEF Firmware
<1> HIDE DEF g, pulseWanted
<1>10. CASE FallingEdge(f) /\ GrabberPowerLevel # TimeUpPulseCode
  <2>1. f2.playActive /\ f2.playAge = 0 /\ f2.homing = f.homing
        /\ FirstToggle(f2) /\ ~f2.timeUpPulse
    BY <1>6, <1>10
  <2>2. ~PlayIsOver(f2)
    BY <1>10, <2>1, FirmwareAssumption DEF PlayIsOver, FallingEdge
  <2>3. f3 = f2 /\ ~PlayIsOver(f)
    BY <1>7, <1>10, <2>2 DEF PlayIsOver, FallingEdge
  <2>4. FirstToggle(g)
    BY <1>9, <2>1, <2>3 DEF FirstToggle
  <2> QED BY <1>3, <1>9, <1>10, <2>1, <2>3, <2>4
<1>11. CASE FallingEdge(f) /\ GrabberPowerLevel = TimeUpPulseCode
  <2>1. f3 = f2 /\ ~PlayIsOver(f)
    BY <1>6, <1>7, <1>11 DEF PlayIsOver, FallingEdge
  <2> QED BY <1>3, <1>6, <1>9, <1>11, <2>1
<1>12. CASE ~FallingEdge(f) /\ PlayIsOver(f)
  <2>1. f2 = f1 /\ PlayIsOver(f2)
    BY <1>4, <1>6, <1>12
  <2>2. /\ ~g.playActive /\ g.playAge = f.playAge
        /\ pulseWanted => g.timeUpPulse /\ g.pulseActive /\ g.pulseAge = 0
        /\ ~pulseWanted => g.timeUpPulse = f.timeUpPulse
    BY <1>2, <1>7, <1>9, <2>1
  <2> QED BY <1>3, <1>9, <1>12, <2>2 DEF pulseWanted
<1>13. CASE ~FallingEdge(f) /\ ~PlayIsOver(f)
  <2>1. f2 = f1 /\ f3 = f2
    BY <1>4, <1>6, <1>7, <1>13
  <2> QED BY <1>2, <1>3, <1>9, <1>13, <2>1
<1> QED BY <1>10, <1>11, <1>12, <1>13

\* During a play the pulse goes on or the player has the controls; neither
\* begins a homing.
LEMMA PlayingEffect ==
  ASSUME NEW f \in Firmware, NEW in \in Input
  PROVE  LET g == Playing(f, in)
             pulsed == UpdatePulse(f) IN
         /\ g.homing = f.homing
         /\ pulsed.pulseActive => g = pulsed
         /\ ~pulsed.pulseActive => ~g.pulseActive
<1> DEFINE pulsed == UpdatePulse(f)
           f1 == LinearControl(pulsed, in.lift)
           f2 == [f1 EXCEPT !.grabber = IF in.ch6 THEN HoldPercent ELSE 0]
           f3 == [f2 EXCEPT !.stepping = in.axes]
           g  == [f3 EXCEPT !.buzzer = in.axes # {} \/ in.lift # "stopped"]
<1>1. pulsed \in Firmware /\ pulsed.homing = f.homing
  BY UpdatePulseLemma
<1>2. CASE pulsed.pulseActive
  BY <1>1, <1>2 DEF Playing
<1>3. CASE ~pulsed.pulseActive
  <2>1. Playing(f, in) = g
    BY <1>3 DEF Playing, Controls
  <2> HIDE DEF pulsed
  <2>2. /\ DOMAIN f1 = DOMAIN pulsed
        /\ f1.homing = pulsed.homing /\ f1.pulseActive = pulsed.pulseActive
    BY <1>1 DEF LinearControl, LinearStop, LinearMove, Firmware
  <2>3. g.homing = f1.homing /\ g.pulseActive = f1.pulseActive
    OBVIOUS
  <2> HIDE DEF g
  <2> QED BY <1>1, <1>3, <2>1, <2>2, <2>3 DEF pulsed
<1> QED BY <1>2, <1>3

\* Without a play an end pulse goes on and a homing goes on, but neither begins.
LEMMA StoppedEffect ==
  ASSUME NEW f \in Firmware, NEW in \in Input
  PROVE  LET g == Stopped(f, in) IN
         /\ g.previousStart = f.previousStart /\ g.playActive = f.playActive
         /\ g.playAge = f.playAge
         /\ g.timeUpPulse => f.timeUpPulse
         /\ f.timeUpPulse /\ f.pulseActive /\ f.pulseAge = 0 => g.timeUpPulse
         /\ g.homing \in {"yAxis", "xAxis"} => f.homing \in {"yAxis", "xAxis"}
<1> DEFINE still == LinearStop(f)
<1>1. /\ still \in Firmware
      /\ still.playActive = f.playActive /\ still.previousStart = f.previousStart
      /\ still.timeUpPulse = f.timeUpPulse /\ still.pulseActive = f.pulseActive
      /\ still.pulseAge = f.pulseAge /\ still.homing = f.homing
      /\ still.playAge = f.playAge
  BY LinearStopLemma DEF Firmware
<1> HIDE DEF still
<1>2. CASE still.timeUpPulse
  <2> DEFINE quiet == [still EXCEPT !.buzzer = FALSE]
             g == UpdatePulse(quiet)
  <2>1. Stopped(f, in) = g
    BY <1>2 DEF Stopped, still
  <2>2. /\ quiet.playActive = f.playActive /\ quiet.previousStart = f.previousStart
        /\ quiet.timeUpPulse = f.timeUpPulse /\ quiet.pulseActive = f.pulseActive
        /\ quiet.pulseAge = f.pulseAge /\ quiet.homing = f.homing
        /\ quiet.playAge = f.playAge
    BY <1>1 DEF Firmware
  <2>3. quiet \in Firmware
    BY <1>1, FlagSetters
  <2> HIDE DEF quiet
  <2>4. /\ g.playActive = quiet.playActive /\ g.previousStart = quiet.previousStart
        /\ g.homing = quiet.homing /\ g.playAge = quiet.playAge
    BY <2>3, UpdatePulseLemma
  <2>5. quiet.pulseActive /\ quiet.pulseAge = 0 => g = quiet
    BY <2>3, UpdatePulseEffect, FirmwareAssumption
  <2> QED BY <1>1, <1>2, <2>1, <2>2, <2>4, <2>5
<1>3. CASE ~still.timeUpPulse /\ still.homing # "idle"
  <2>1. Stopped(f, in) = UpdateHoming(still, in)
    BY <1>3 DEF Stopped, still
  <2> QED BY <1>1, <1>3, <2>1, UpdateHomingStep DEF HomingStep
<1>4. CASE ~still.timeUpPulse /\ still.homing = "idle"
  <2> DEFINE g == [still EXCEPT !.buzzer = FALSE, !.grabber = 0, !.pulseActive = FALSE,
                                !.pulseState = FALSE, !.pulseToggles = 0]
  <2>1. Stopped(f, in) = g
    BY <1>4 DEF Stopped, still
  <2>2. /\ g.playActive = still.playActive /\ g.previousStart = still.previousStart
        /\ g.homing = still.homing /\ g.timeUpPulse = still.timeUpPulse
        /\ g.playAge = still.playAge
    BY <1>1 DEF Firmware
  <2> HIDE DEF g
  <2> QED BY <1>1, <1>4, <2>1, <2>2
<1>5. still.timeUpPulse \in BOOLEAN
  BY <1>1 DEF Firmware
<1> QED BY <1>2, <1>3, <1>4, <1>5

\* What a pass makes of the wires, in terms of what the other side can see: a
\* new low level on A0 starts a play or, with A1-A3 all high, a homing; a play
\* ends with its gate or at its limit, and leaves an end pulse behind exactly
\* when the gate is released with A1-A3 all high.
LEMMA PassEffect ==
  ASSUME NEW f \in Firmware, Sound(f), PassOver(f), WiresOK, NEW in \in Input
  PROVE  LET g == Loop(f, in)
             falling == ~f.previousStart /\ gate /\ f.homing # "fault" IN
         /\ g.previousStart = gate
         /\ g.playActive => gate
         /\ g.playAge = IF g.playActive /\ ~f.playActive THEN 0 ELSE f.playAge
         /\ g.playActive /\ ~f.playActive => falling /\ power # PowerPins
         /\ falling /\ power # PowerPins => g.playActive
         /\ f.playActive => (g.playActive <=> gate /\ f.playAge < PlayLimit)
         /\ f.playActive /\ ~g.playActive => (g.timeUpPulse <=> ~gate /\ power = PowerPins)
         /\ ~f.playActive /\ g.timeUpPulse => f.timeUpPulse
         /\ g.homing \in {"yAxis", "xAxis"} =>
              f.homing \in {"yAxis", "xAxis"} \/ f.playActive \/ (falling /\ power = PowerPins)
<1> DEFINE s == Sampled(f)
           g == Loop(f, in)
           falling == ~f.previousStart /\ gate /\ f.homing # "fault"
<1>1. s \in Firmware /\ Sound(s) /\ s.stepping = {}
  BY SampledSound
<1>2. f.playActive => f.previousStart /\ ~f.timeUpPulse
  BY DEF Sound, PassOver
<1>3. falling <=> FallingEdge(f)
  BY DEF FallingEdge
<1>4. power = PowerPins <=> GrabberPowerLevel = TimeUpPulseCode
  BY LevelSeven
<1>5. PlayIsOver(f) <=> f.playActive /\ ~(gate /\ f.playAge < PlayLimit)
  <2>1. f.playAge \in Nat /\ PlayLimit \in Nat
    BY FirmwareAssumption DEF Firmware
  <2> QED BY <2>1 DEF PlayIsOver
<1> HIDE DEF falling
<1>6. /\ s.previousStart = gate
      /\ falling /\ power # PowerPins =>
           s.playActive /\ s.playAge = 0 /\ s.homing = f.homing
      /\ falling /\ power = PowerPins =>
           ~s.playActive /\ s.timeUpPulse = f.timeUpPulse /\ s.playAge = f.playAge
      /\ PlayIsOver(f) =>
           /\ ~s.playActive /\ s.playAge = f.playAge
           /\ ~gate /\ power = PowerPins => s.timeUpPulse /\ s.pulseActive /\ s.pulseAge = 0
           /\ ~(~gate /\ power = PowerPins) => s.timeUpPulse = f.timeUpPulse
      /\ ~falling /\ ~PlayIsOver(f) =>
           /\ s.playActive = f.playActive /\ s.playAge = f.playAge /\ s.homing = f.homing
           /\ s.timeUpPulse = f.timeUpPulse
  BY <1>2, <1>3, <1>4, SampledEffect
<1>7. /\ g.playActive = s.playActive /\ g.previousStart = s.previousStart
      /\ g.playAge = s.playAge
      /\ s.playActive => ~g.timeUpPulse
      /\ ~s.playActive =>
           /\ g.timeUpPulse => s.timeUpPulse
           /\ s.timeUpPulse /\ s.pulseActive /\ s.pulseAge = 0 => g.timeUpPulse
      /\ g.homing \in {"yAxis", "xAxis"} => s.homing \in {"yAxis", "xAxis"}
  <2> HIDE DEF s
  <2>1. s.playActive \in BOOLEAN
    BY <1>1 DEF Firmware
  <2>2. CASE s.playActive
    <3>1. g = Playing(s, in)
      BY <2>2 DEF Loop, s
    <3>2. LET h == Playing(s, in) IN
          /\ h \in Firmware /\ Sound(h) /\ h.playActive /\ h.playAge = s.playAge
          /\ h.previousStart = s.previousStart
      BY <1>1, <2>2, PlayingSound
    <3>3. Playing(s, in).homing = s.homing
      BY <1>1, PlayingEffect
    <3> HIDE DEF g
    <3>4. ~g.timeUpPulse /\ g.playActive /\ g.playAge = s.playAge
          /\ g.previousStart = s.previousStart /\ g.homing = s.homing
      BY <3>1, <3>2, <3>3 DEF Sound
    <3>5. g.playActive \in BOOLEAN
      BY <3>1, <3>2 DEF Firmware
    <3> QED BY <2>1, <2>2, <3>4, <3>5
  <2>3. CASE ~s.playActive
    <3>1. g = Stopped(s, in)
      BY <2>3 DEF Loop, s
    <3> HIDE DEF g
    <3> QED BY <1>1, <2>3, <3>1, StoppedEffect
  <2> QED BY <2>1, <2>2, <2>3
<1>8. f.playActive \in BOOLEAN /\ gate \in BOOLEAN
  BY DEF Firmware, WiresOK
<1> HIDE DEF s, g
<1>9. CASE falling /\ power # PowerPins
  <2>1. ~f.playActive /\ gate /\ ~PlayIsOver(f)
    BY <1>2, <1>5, <1>9 DEF falling
  <2> QED BY <1>6, <1>7, <1>9, <2>1 DEF falling, g
<1>10. CASE falling /\ power = PowerPins
  <2>1. ~f.playActive /\ gate /\ ~PlayIsOver(f)
    BY <1>2, <1>5, <1>10 DEF falling
  <2> QED BY <1>6, <1>7, <1>10, <2>1 DEF falling, g
<1>11. CASE PlayIsOver(f)
  <2>1. f.playActive /\ ~falling /\ ~(gate /\ f.playAge < PlayLimit) /\ ~f.timeUpPulse
    BY <1>2, <1>5, <1>11 DEF falling
  <2>2. ~g.playActive /\ g.previousStart = gate /\ g.playAge = f.playAge
        /\ (g.timeUpPulse <=> ~gate /\ power = PowerPins)
    BY <1>6, <1>7, <1>11, <2>1
  <2> QED BY <2>1, <2>2 DEF falling, g
<1>12. CASE ~falling /\ ~PlayIsOver(f)
  <2>1. f.playActive => gate /\ f.playAge < PlayLimit
    BY <1>5, <1>12
  <2> QED BY <1>6, <1>7, <1>8, <1>12, <2>1 DEF falling, g
<1> QED BY <1>9, <1>10, <1>11, <1>12

-----------------------------------------------------------------------------
(***************************************************************************)
(* The invariant, between passes.                                           *)
(***************************************************************************)
IInv ==
  /\ TypeOK
  /\ Sound(fw) /\ PassOver(fw)
  /\ LimitEnforced

LEMMA BootSound ==
  /\ Boot \in Firmware /\ Sound(Boot) /\ PassOver(Boot) /\ ~Boot.playActive
  /\ Boot.homing = "idle"
<1>1. Boot \in Firmware
  BY FirmwareAssumption DEF Boot, Firmware, PulseToggleCount, HomingStates, Lifts, Axes
<1>2. Sound(Boot) /\ PassOver(Boot) /\ ~Boot.playActive /\ Boot.homing = "idle"
  BY DEF Boot, Sound, PassOver
<1> QED BY <1>1, <1>2

LEMMA InitIInv == Init => IInv
<1> SUFFICES ASSUME Init PROVE IInv
  OBVIOUS
<1>1. TypeOK
  BY BootSound DEF Init, FirmwareInit, TypeOK
<1>2. fw = Boot
  BY DEF Init, FirmwareInit
<1>3. Sound(fw) /\ PassOver(fw) /\ LimitEnforced
  BY <1>2, BootSound DEF LimitEnforced
<1> QED BY <1>1, <1>3 DEF IInv

\* Time only adds to the ages.
LEMMA TickSound ==
  ASSUME NEW f \in Firmware, NEW g,
         NEW p \in 0..PlayLimit, NEW q \in 0..PulseInterval, NEW h \in Nat,
         g = [f EXCEPT !.playAge = p, !.pulseAge = q, !.homingAge = h]
  PROVE  /\ g \in Firmware
         /\ Sound(f) => Sound(g)
         /\ PassOver(f) => PassOver(g)
         /\ g.homing = f.homing /\ g.playActive = f.playActive
<1> DEFINE f1 == [f EXCEPT !.playAge = p]
           f2 == [f1 EXCEPT !.pulseAge = q]
<1>1. g = [f2 EXCEPT !.homingAge = h]
  OBVIOUS
<1>2. \A x \in DOMAIN f \ {"playAge", "pulseAge", "homingAge"} : g[x] = f[x]
  BY DEF Firmware
<1>3. f1 \in Firmware
  BY NumberSetters
<1> HIDE DEF f1
<1>4. f2 \in Firmware
  BY <1>3, NumberSetters
<1> HIDE DEF f2
<1>5. g \in Firmware
  BY <1>1, <1>4, NumberSetters
<1>6. /\ g.playActive = f.playActive /\ g.previousStart = f.previousStart
      /\ g.pulseActive = f.pulseActive /\ g.timeUpPulse = f.timeUpPulse
      /\ g.homing = f.homing /\ g.linear = f.linear /\ g.relays = f.relays
      /\ g.stepping = f.stepping /\ g.grabber = f.grabber
  BY <1>2 DEF Firmware
<1> QED BY <1>5, <1>6 DEF Sound, PassOver

\* What every step does to the globals: a pass, a tick, a restart, or nothing.
LEMMA StepSound ==
  ASSUME IInv, [Next]_vars
  PROVE  /\ IInv'
         /\ fw.homing = "fault" => fw' = Boot \/ fw'.homing = "fault"
<1>1. /\ fw \in Firmware /\ Sound(fw) /\ PassOver(fw) /\ WiresOK
      /\ polled \in BOOLEAN /\ pulses \in Nat
  BY DEF IInv, TypeOK, WiresOK
<1>2. CASE LoopPass /\ UNCHANGED << gate, power >>
  <2>1. PICK in \in Inputs : fw' = Loop(fw, in)
    BY <1>2 DEF LoopPass
  <2>2. in \in Input
    BY InputsAssumption
  <2>3. /\ fw' \in Firmware /\ Sound(fw') /\ PassOver(fw')
        /\ fw'.playActive => fw'.playAge < PlayLimit
        /\ fw.homing = "fault" => fw'.homing = "fault"
    BY <1>1, <2>1, <2>2, LoopSound
  <2>4. pulses' \in Nat
    BY <1>1, <1>2 DEF LoopPass, CountPulses
  <2>5. TypeOK' /\ LimitEnforced'
    BY <1>1, <1>2, <2>3, <2>4 DEF TypeOK, LimitEnforced, LoopPass, WiresOK
  <2> QED BY <2>3, <2>5 DEF IInv
<1>3. CASE FirmwareTick /\ UNCHANGED << gate, power >>
  <2> DEFINE p == IF fw.playActive THEN Age(fw.playAge, PlayLimit) ELSE fw.playAge
             q == IF fw.pulseActive THEN Age(fw.pulseAge, PulseInterval) ELSE fw.pulseAge
             h == IF fw.homing \in {"yAxis", "xAxis"}
                    THEN Age(fw.homingAge, HomingLimit(fw.homing)) ELSE fw.homingAge
  <2>1. fw' = [fw EXCEPT !.playAge = p, !.pulseAge = q, !.homingAge = h]
    BY <1>3 DEF FirmwareTick
  <2>2. /\ fw.playAge \in 0..PlayLimit /\ fw.pulseAge \in 0..PulseInterval
        /\ fw.homingAge \in Nat
    BY <1>1 DEF Firmware
  <2>3. p \in 0..PlayLimit /\ q \in 0..PulseInterval /\ h \in Nat
    BY <2>2, FirmwareAssumption DEF Age
  <2> HIDE DEF p, q, h
  <2>4. /\ fw' \in Firmware /\ Sound(fw') /\ PassOver(fw')
        /\ fw'.homing = fw.homing
    BY <1>1, <2>1, <2>3, TickSound
  <2>5. TypeOK' /\ LimitEnforced'
    BY <1>1, <1>3, <2>4 DEF TypeOK, LimitEnforced, FirmwareTick, WiresOK
  <2> QED BY <2>4, <2>5 DEF IInv
<1>4. CASE PowerCycle /\ UNCHANGED << gate, power >>
  <2>1. fw' = Boot /\ polled' = TRUE /\ pulses' = 0
    BY <1>4 DEF PowerCycle
  <2>2. Sound(fw') /\ PassOver(fw') /\ LimitEnforced'
    BY <2>1, BootSound DEF LimitEnforced
  <2>3. TypeOK'
    BY <1>1, <1>4, <2>1, BootSound DEF TypeOK, WiresOK
  <2> QED BY <2>1, <2>2, <2>3 DEF IInv
<1>5. CASE HostWrites
  BY <1>1, <1>5 DEF HostWrites, firmwareVars, IInv, TypeOK, LimitEnforced
<1>6. CASE UNCHANGED vars
  BY <1>6 DEF vars, IInv, TypeOK, LimitEnforced
<1> QED BY <1>2, <1>3, <1>4, <1>5, <1>6 DEF Next

\* Whatever the host does with the wires, the globals of the sketch keep their
\* types and the relations of Sound and PassOver.
THEOREM Inductive == Spec => []IInv
<1>1. IInv /\ [Next]_vars => IInv'
  BY StepSound
<1> QED BY <1>1, InitIInv, PTL DEF Spec

THEOREM TypeCorrect == Spec => []TypeOK
<1>1. IInv => TypeOK
  BY DEF IInv
<1> QED BY <1>1, Inductive, PTL

\* linearMotorState is the relay that is on, so two relays never are, and
\* without a play nothing moves but a homing axis and only the end pulse powers
\* the grabber.
THEOREM StillWhenStopped == Spec => []StoppedIsStill
<1>1. IInv => StoppedIsStill
  <2> SUFFICES ASSUME IInv PROVE StoppedIsStill
    OBVIOUS
  <2>1. fw.playActive \in BOOLEAN
    BY DEF IInv, TypeOK, Firmware
  <2> QED BY <2>1 DEF IInv, Sound, PassOver, StoppedIsStill
<1> QED BY <1>1, Inductive, PTL

\* No control reaches a motor while the start pulse runs, and no end pulse runs
\* in a play.
THEOREM ControlsLocked == Spec => []PulseLocksControls
<1>1. IInv => PulseLocksControls
  BY DEF IInv, Sound, PassOver, PulseLocksControls
<1> QED BY <1>1, Inductive, PTL

\* Once loop() has run, no play is older than dashboardPlayDuration.
THEOREM PlayLimited == Spec => []LimitEnforced
<1>1. IInv => LimitEnforced
  BY DEF IInv
<1> QED BY <1>1, Inductive, PTL

\* A homing fault is left by a restart only, and no play starts before it.
THEOREM FaultsLatch == Spec => FaultLatches
<1>1. IInv /\ [Next]_vars =>
        [fw.homing = "fault" => ~fw.playActive
           /\ (fw' = Boot \/ (fw'.homing = "fault" /\ ~fw'.playActive))]_vars
  <2> SUFFICES ASSUME IInv, [Next]_vars, fw.homing = "fault"
               PROVE  ~fw.playActive
                      /\ (fw' = Boot \/ (fw'.homing = "fault" /\ ~fw'.playActive))
    OBVIOUS
  <2>1. IInv' /\ (fw' = Boot \/ fw'.homing = "fault")
    BY StepSound
  <2> QED BY <2>1 DEF IInv, Sound
<1> QED BY <1>1, Inductive, PTL DEF Spec, FaultLatches
-----------------------------------------------------------------------------
(***************************************************************************)
(* The start pulse.  The history variable `pulses` is tied to the toggle    *)
(* counter of the sketch: odd toggles are the pulses, even ones the pauses. *)
(***************************************************************************)
PulseInv ==
  fw.playActive /\ fw.pulseActive =>
    /\ fw.pulseToggles \in 1 .. PulseToggleCount - 1
    /\ fw.pulseState <=> fw.pulseToggles \in {1, 3, 5}
    /\ fw.grabber = IF fw.pulseState THEN 100 ELSE 0
    /\ pulses = (fw.pulseToggles + 1) \div 2

\* A pass that leaves the start pulse running has begun it, kept it, or toggled it.
LEMMA PulsePass ==
  ASSUME NEW f \in Firmware, Sound(f), PassOver(f), WiresOK, NEW in \in Input,
         Loop(f, in).playActive, Loop(f, in).pulseActive
  PROVE  LET g == Loop(f, in) IN
         \/ ~f.playActive /\ FirstToggle(g)
         \/ /\ f.playActive /\ f.pulseActive
            /\ g.pulseToggles = f.pulseToggles /\ g.pulseState = f.pulseState
            /\ g.grabber = f.grabber
         \/ /\ f.playActive /\ f.pulseActive
            /\ f.pulseToggles + 1 < PulseToggleCount
            /\ g.pulseToggles = f.pulseToggles + 1 /\ g.pulseState = ~f.pulseState
            /\ g.grabber = IF f.pulseState THEN 0 ELSE 100
<1> DEFINE s == Sampled(f)
           g == Loop(f, in)
           pulsed == UpdatePulse(s)
<1>1. s \in Firmware /\ Sound(s) /\ s.stepping = {}
  BY SampledSound
<1>2. f.playActive => f.previousStart
  BY DEF PassOver
<1>3. s.playActive
  <2>1. s.playActive \in BOOLEAN
    BY <1>1 DEF Firmware
  <2>2. CASE ~s.playActive
    <3>1. g = Stopped(s, in)
      BY <2>2 DEF Loop
    <3>2. ~g.playActive
      BY <1>1, <2>2, <3>1, StoppedEffect
    <3> QED BY <3>2
  <2> QED BY <2>1, <2>2
<1>4. g = Playing(s, in)
  BY <1>3 DEF Loop
<1> HIDE DEF s
<1>5. pulsed.pulseActive /\ g = pulsed
  <2>1. pulsed.pulseActive \in BOOLEAN
    BY <1>1, UpdatePulseLemma DEF Firmware
  <2> QED BY <1>1, <1>4, <2>1, PlayingEffect
<1>6. CASE FallingEdge(f)
  <2>1. FirstToggle(s) /\ ~f.playActive
    BY <1>2, <1>3, <1>6, SampledEffect DEF s, FallingEdge
  <2>2. pulsed = s
    BY <1>1, <2>1, UpdatePulseEffect, FirmwareAssumption DEF FirstToggle
  <2> QED BY <1>5, <2>1, <2>2
<1>7. CASE ~FallingEdge(f)
  <2>1. ~PlayIsOver(f)
    BY <1>2, <1>3, SampledEffect DEF s
  <2>2. /\ s.playActive = f.playActive /\ s.pulseActive = f.pulseActive
        /\ s.pulseState = f.pulseState /\ s.pulseToggles = f.pulseToggles
        /\ s.grabber = f.grabber
    BY <1>2, <1>7, <2>1, SampledEffect DEF s
  <2>3. s.pulseActive
    <3>1. s.pulseActive \in BOOLEAN
      BY <1>1 DEF Firmware
    <3> QED BY <1>1, <1>5, <3>1, UpdatePulseEffect
  <2>4. CASE s.pulseAge < PulseInterval
    BY <1>1, <1>3, <1>5, <2>2, <2>3, <2>4, UpdatePulseEffect
  <2>5. CASE ~(s.pulseAge < PulseInterval)
    <3>1. ~(s.pulseToggles + 1 >= PulseToggleCount)
      BY <1>1, <1>5, <2>3, <2>5, UpdatePulseEffect
    <3>2. s.pulseToggles + 1 < PulseToggleCount
      BY <1>1, <3>1 DEF Firmware, PulseToggleCount
    <3> QED BY <1>1, <1>3, <1>5, <2>2, <2>3, <2>5, <3>1, <3>2, UpdatePulseEffect
  <2> QED BY <2>4, <2>5
<1> QED BY <1>6, <1>7

\* A pass that ends the start pulse of a play has come to the sixth toggle.
LEMMA PulseEnds ==
  ASSUME NEW f \in Firmware, Sound(f), PassOver(f), WiresOK, NEW in \in Input,
         f.playActive, f.pulseActive, Loop(f, in).playActive, ~Loop(f, in).pulseActive
  PROVE  f.pulseToggles + 1 >= PulseToggleCount
<1> DEFINE s == Sampled(f)
           g == Loop(f, in)
           pulsed == UpdatePulse(s)
<1>1. s \in Firmware /\ Sound(s) /\ s.stepping = {}
  BY SampledSound
<1>2. f.previousStart /\ ~FallingEdge(f)
  BY DEF PassOver, FallingEdge
<1>3. ~PlayIsOver(f)
  BY PassEffect, FirmwareAssumption DEF PlayIsOver, Firmware
<1>4. s.playActive = f.playActive /\ s.pulseActive = f.pulseActive
      /\ s.pulseToggles = f.pulseToggles
  BY <1>2, <1>3, SampledEffect
<1>5. g = Playing(s, in)
  BY <1>4 DEF Loop
<1> HIDE DEF s
<1>6. ~pulsed.pulseActive
  <2>1. pulsed.pulseActive \in BOOLEAN
    BY <1>1, UpdatePulseLemma DEF Firmware
  <2> QED BY <1>1, <1>5, <2>1, PlayingEffect
<1>7. ~(s.pulseAge < PulseInterval) /\ s.pulseActive
  BY <1>1, <1>4, <1>6, UpdatePulseEffect
<1>8. s.pulseToggles + 1 >= PulseToggleCount
  BY <1>1, <1>6, <1>7, UpdatePulseEffect
<1> QED BY <1>4, <1>8

\* Every step keeps the count.
LEMMA PulseStep ==
  ASSUME IInv, PulseInv, [Next]_vars
  PROVE  PulseInv'
<1>1. fw \in Firmware /\ Sound(fw) /\ PassOver(fw) /\ WiresOK /\ pulses \in Nat
  BY DEF IInv, TypeOK, WiresOK
<1>2. CASE LoopPass
  <2> SUFFICES ASSUME fw'.playActive, fw'.pulseActive
               PROVE  /\ fw'.pulseToggles \in 1 .. PulseToggleCount - 1
                      /\ fw'.pulseState <=> fw'.pulseToggles \in {1, 3, 5}
                      /\ fw'.grabber = IF fw'.pulseState THEN 100 ELSE 0
                      /\ pulses' = (fw'.pulseToggles + 1) \div 2
    BY DEF PulseInv
  <2>1. PICK in \in Inputs : fw' = Loop(fw, in)
    BY <1>2 DEF LoopPass
  <2>2. in \in Input
    BY InputsAssumption
  <2>3. pulses' = CountPulses
    BY <1>2 DEF LoopPass
  <2>4. \/ ~fw.playActive /\ FirstToggle(fw')
        \/ /\ fw.playActive /\ fw.pulseActive
           /\ fw'.pulseToggles = fw.pulseToggles /\ fw'.pulseState = fw.pulseState
           /\ fw'.grabber = fw.grabber
        \/ /\ fw.playActive /\ fw.pulseActive
           /\ fw.pulseToggles + 1 < PulseToggleCount
           /\ fw'.pulseToggles = fw.pulseToggles + 1 /\ fw'.pulseState = ~fw.pulseState
           /\ fw'.grabber = IF fw.pulseState THEN 0 ELSE 100
    BY <1>1, <2>1, <2>2, PulsePass
  <2>5. CASE ~fw.playActive /\ FirstToggle(fw')
    BY <2>3, <2>5 DEF FirstToggle, CountPulses, PulseToggleCount
  <2>6. ASSUME fw.playActive, fw.pulseActive
        PROVE  /\ fw.pulseToggles \in 1 .. 5
               /\ fw.pulseState <=> fw.pulseToggles \in {1, 3, 5}
               /\ fw.grabber = IF fw.pulseState THEN 100 ELSE 0
               /\ pulses = (fw.pulseToggles + 1) \div 2
    BY <2>6 DEF PulseInv, PulseToggleCount
  <2>7. CASE /\ fw.playActive /\ fw.pulseActive
             /\ fw'.pulseToggles = fw.pulseToggles /\ fw'.pulseState = fw.pulseState
             /\ fw'.grabber = fw.grabber
    <3>1. pulses' = pulses
      BY <2>3, <2>6, <2>7, <1>1 DEF CountPulses
    <3> QED BY <2>6, <2>7, <3>1 DEF PulseToggleCount
  <2>8. CASE /\ fw.playActive /\ fw.pulseActive
             /\ fw.pulseToggles + 1 < PulseToggleCount
             /\ fw'.pulseToggles = fw.pulseToggles + 1 /\ fw'.pulseState = ~fw.pulseState
             /\ fw'.grabber = IF fw.pulseState THEN 0 ELSE 100
    <3>1. fw.pulseToggles \in 1 .. 4 /\ fw.pulseState \in BOOLEAN
      BY <2>6, <2>8, <1>1 DEF PulseToggleCount, Firmware
    <3>2. pulses' = pulses + (IF fw.pulseState THEN 0 ELSE 1)
      BY <2>3, <2>6, <2>8, <3>1, <1>1 DEF CountPulses
    <3>3. fw.pulseToggles \in {1, 2, 3, 4}
      BY <3>1
    <3>4. fw'.pulseState <=> fw'.pulseToggles \in {1, 3, 5}
      <4>1. fw'.pulseToggles \in {1, 3, 5} <=> fw.pulseToggles \notin {1, 3, 5}
        BY <2>8, <3>3
      <4>2. fw'.pulseState <=> ~fw.pulseState
        BY <2>8
      <4> QED BY <2>6, <2>8, <4>1, <4>2
    <3> QED BY <2>6, <2>8, <3>1, <3>2, <3>3, <3>4 DEF PulseToggleCount
  <2> QED BY <2>4, <2>5, <2>7, <2>8
<1>3. CASE FirmwareTick
  <2>1. /\ fw'.playActive = fw.playActive /\ fw'.pulseActive = fw.pulseActive
        /\ fw'.pulseToggles = fw.pulseToggles /\ fw'.pulseState = fw.pulseState
        /\ fw'.grabber = fw.grabber
    BY <1>1, <1>3 DEF FirmwareTick, Firmware
  <2>2. pulses' = pulses
    BY <1>3 DEF FirmwareTick
  <2> SUFFICES ASSUME fw'.playActive, fw'.pulseActive
               PROVE  /\ fw'.pulseToggles \in 1 .. PulseToggleCount - 1
                      /\ fw'.pulseState <=> fw'.pulseToggles \in {1, 3, 5}
                      /\ fw'.grabber = IF fw'.pulseState THEN 100 ELSE 0
                      /\ pulses' = (fw'.pulseToggles + 1) \div 2
    BY DEF PulseInv
  <2>3. /\ fw.pulseToggles \in 1 .. PulseToggleCount - 1
        /\ fw.pulseState <=> fw.pulseToggles \in {1, 3, 5}
        /\ fw.grabber = IF fw.pulseState THEN 100 ELSE 0
        /\ pulses = (fw.pulseToggles + 1) \div 2
    BY <2>1 DEF PulseInv
  <2>4. fw'.pulseState <=> fw'.pulseToggles \in {1, 3, 5}
    BY <2>1, <2>3
  <2>5. fw'.grabber = IF fw'.pulseState THEN 100 ELSE 0
    BY <2>1, <2>3, Zenon
  <2> QED BY <2>1, <2>2, <2>3, <2>4, <2>5
<1>4. CASE PowerCycle
  BY <1>4 DEF PowerCycle, Boot, PulseInv
<1>5. CASE HostWrites \/ UNCHANGED vars
  BY <1>5 DEF HostWrites, firmwareVars, vars, PulseInv
<1> QED BY <1>2, <1>3, <1>4, <1>5 DEF Next

\* Whatever the wires, the ticks and the toggles in between do, the player gets
\* the controls after exactly three pulses at full power.
THEOREM ThreePulses == Spec => StartPulsesThrice
<1>1. Init => PulseInv
  BY DEF Init, FirmwareInit, Boot, PulseInv
<1>2. IInv /\ PulseInv /\ [Next]_vars => PulseInv'
  BY PulseStep
<1>3. IInv /\ PulseInv /\ [Next]_vars =>
        [fw.playActive /\ fw.pulseActive /\ fw'.playActive /\ ~fw'.pulseActive =>
           pulses = 3]_vars
  <2> SUFFICES ASSUME IInv, PulseInv, [Next]_vars,
                      fw.playActive, fw.pulseActive, fw'.playActive, ~fw'.pulseActive
               PROVE  pulses = 3
    OBVIOUS
  <2>1. fw \in Firmware /\ Sound(fw) /\ PassOver(fw) /\ WiresOK
    BY DEF IInv, TypeOK, WiresOK
  <2>2. CASE LoopPass
    <3>1. PICK in \in Inputs : fw' = Loop(fw, in)
      BY <2>2 DEF LoopPass
    <3>2. in \in Input
      BY InputsAssumption
    <3>3. fw.pulseToggles + 1 >= PulseToggleCount
      BY <2>1, <3>1, <3>2, PulseEnds
    <3>4. fw.pulseToggles = 5
      BY <3>3 DEF PulseInv, PulseToggleCount
    <3> QED BY <3>4 DEF PulseInv
  <2>3. CASE FirmwareTick
    BY <2>1, <2>3 DEF FirmwareTick, Firmware
  <2>4. CASE PowerCycle
    BY <2>4 DEF PowerCycle, Boot
  <2>5. CASE HostWrites \/ UNCHANGED vars
    BY <2>5 DEF HostWrites, firmwareVars, vars
  <2> QED BY <2>2, <2>3, <2>4, <2>5 DEF Next
<1> QED BY <1>1, <1>2, <1>3, Inductive, PTL DEF Spec, StartPulsesThrice
=============================================================================
