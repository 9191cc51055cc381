--------------------------- MODULE OperatorStops ---------------------------
(***************************************************************************)
(* Two buttons of the operator that stop the machine: the settings switch   *)
(* that disables it and Reset.  The documents promise for each of them      *)
(* something that the machine could only do if it were told which button    *)
(* was pressed; the routes send PLAY STOP for both, or nothing.  This is    *)
(* ClawMachine with the button of the latest command as a history.          *)
(***************************************************************************)
EXTENDS ClawMachine

\* What the operator last asked for: "disable" or "reset" in the middle of a play,
\* "home" by Reset without one, "other" by any other command.
VARIABLE asked

operatorVars == << machineVars, asked >>

OperatorInit == MachineInit /\ asked = "other"

-----------------------------------------------------------------------------
\* stop_play: the status is asked for, which connects the transport; only a play
\* is stopped.
StopOrPoll == Host((play_mode # "none" /\ StopPlay) \/ (play_mode = "none" /\ PollStatus))

\* /api/settings with machine_enabled = False.
DisableMachine ==
  /\ SketchHasCaughtUp
  /\ play_mode # "none"
  /\ StopOrPoll
  /\ asked' = "disable"

\* /api/reset.
Reset ==
  /\ SketchHasCaughtUp
  /\ StopOrPoll
  /\ asked' = IF play_mode # "none" THEN "reset" ELSE "home"

OtherSteps ==
  /\ MachineNext
  /\ asked' = IF owner = "nobody" /\ owner' # "nobody" THEN "other" ELSE asked

OperatorNext == DisableMachine \/ Reset \/ OtherSteps

FairOperatorSpec ==
  /\ OperatorInit /\ [][OperatorNext]_operatorVars
  /\ WF_operatorVars(OtherSteps /\ HostProceeds)
  /\ WF_operatorVars(OtherSteps /\ SketchPasses)
  /\ SF_operatorVars(OtherSteps /\ TimePasses)

-----------------------------------------------------------------------------
(***************************************************************************)
(* What the documents say, and the code does not do.                        *)
(***************************************************************************)
\* "Reset and machine-disable stops still force D5 PWM to 0 immediately."
\* (dashboard/README.claw_dashboard.md:64-65)
StopsForceZero ==
  asked \in {"disable", "reset"} /\ owner = "nobody" /\ seen /\ ~fw.playActive =>
    fw.grabber = 0

\* "When dashboard Reset is pressed while A0 is inactive, the dashboard sets
\* A1/A2/A3 to 111 and briefly pulls A0 low.  Arduino treats this new low edge as a
\* dedicated HOME request" (docs/ARDUINO_COMMUNICATION.md:49-51): unless another
\* command comes first, the axes are homed.
ResetHomes == asked = "home" ~> Homing \/ asked # "home"
=============================================================================
