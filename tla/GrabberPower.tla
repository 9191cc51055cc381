---------------------------- MODULE GrabberPower ----------------------------
(***************************************************************************)
(* How strongly the claw holds: the arithmetic between a percentage, the    *)
(* level the Raspberry Pi puts on A1-A3, and the crowd bonus.  The Arduino  *)
(* turns a level back into a percentage (ClawFirmware!HoldPercent).         *)
(***************************************************************************)
EXTENDS Integers

\* SafetyValidator.min_claw_power_percent and max_claw_power_percent, the
\* dashboard's MIN_ and MAX_GRABBER_POWER_PERCENT, and the adapter's clamp.
MinClawPower == 40
MaxClawPower == 100

Clamp(x, low, high) == IF x < low THEN low ELSE IF x > high THEN high ELSE x

\* Python's round(n / 10): a half goes to the even neighbour.
RoundTenth(n) ==
  LET q == n \div 10
      r == n % 10
  IN  IF r < 5 \/ (r = 5 /\ q % 2 = 0) THEN q ELSE q + 1

\* Faulty variant: the minimum of 40% is forgotten on the way to the level.
LevelFromZero(percent) == Clamp(RoundTenth(percent), 0, 6)

\* GpioArduinoAdapter._set_power_percent and dashboard_state.grabber_power_level.
PowerLevel(percent) ==
  Clamp(RoundTenth(Clamp(percent, MinClawPower, MaxClawPower) - MinClawPower), 0, 6)

\* Faulty variant: the minimum is forgotten on the way back.
PercentFromZero(percent) == 10 * PowerLevel(percent)

\* dashboard_state.grabber_power_percent: the percentage of a level.
RoundedPercent(percent) == MinClawPower + 10 * PowerLevel(percent)

\* dashboard_state.ai_grabber_power_percent: the tiers of the AI Crowd Bonus.
AiPercent(people) ==
  CASE people <= 1        -> 60
    [] people \in {2, 3}  -> 70
    [] people = 4         -> 80
    [] OTHER              -> 90
=============================================================================
