--------------------------- MODULE SafetyBoundary ---------------------------
(***************************************************************************)
(* What RuntimeController promises its callers (the dashboard routes), with *)
(* every command a single step: controller/core/runtime_controller.py as it *)
(* is seen from outside its RLock.  The pins, the order in which they are   *)
(* written and the generation counter are not visible here; what remains of *)
(* the auto-stop threads is whether the current play still has one.         *)
(*                                                                          *)
(* RuntimeController implements this specification; Dashboard is built on   *)
(* it.                                                                      *)
(***************************************************************************)
EXTENDS GrabberPower

CONSTANTS
  Percents,         \* claw power percentages callers may ask for
  InitialPercents   \* values CLAW_GRABBER_POWER_PERCENT may configure

VARIABLES
  status,             \* MachineState.status
  play_mode,          \* MachineState.play_mode ("none" stands for None)
  emergency_stopped,  \* MachineState.emergency_stopped
  claw_power,         \* MachineState.claw_power_percent
  auto_stop_armed     \* the current play still has an auto-stop thread

boundaryVars ==
  << status, play_mode, emergency_stopped, claw_power, auto_stop_armed >>

Statuses  == {"ready", "running", "fault", "emergency_stopped"}
PlayModes == {"play", "test"}

BoundaryInit ==
  /\ status = "ready"
  /\ play_mode = "none"
  /\ emergency_stopped = FALSE
  /\ claw_power \in InitialPercents
  /\ auto_stop_armed = FALSE

(***************************************************************************)
(* SafetyValidator: when a command is accepted.  machine_enabled is omitted *)
(* because no code ever sets MachineState.machine_enabled to False.         *)
(***************************************************************************)
MayStart       == ~emergency_stopped /\ play_mode = "none"
MayStop        == play_mode # "none"
MaySetPower(p) == ~emergency_stopped /\ p \in MinClawPower .. MaxClawPower

(***************************************************************************)
(* The commands.  Each one either takes effect or, when the transport       *)
(* answers an error, leaves the machine in status "fault".                  *)
(***************************************************************************)
PlayStarts(mode) ==
  /\ MayStart
  /\ status' = "running"
  /\ play_mode' = mode
  /\ auto_stop_armed' = TRUE
  /\ UNCHANGED << emergency_stopped, claw_power >>

PlayStops ==
  /\ MayStop
  /\ status' = "ready"
  /\ play_mode' = "none"
  /\ auto_stop_armed' = FALSE
  /\ UNCHANGED << emergency_stopped, claw_power >>

\* stop_play advances _play_generation before it sends: a failed stop has
\* already disarmed the auto-stop of the play that goes on.
StopFails ==
  /\ MayStop
  /\ status' = "fault"
  /\ auto_stop_armed' = FALSE
  /\ UNCHANGED << play_mode, emergency_stopped, claw_power >>

PowerIsSet(p) ==
  /\ MaySetPower(p)
  /\ claw_power' = p
  /\ UNCHANGED << status, play_mode, emergency_stopped, auto_stop_armed >>

\* A start_play or a set_claw_power that the transport refused.
CommandFails ==
  /\ ~emergency_stopped
  /\ status' = "fault"
  /\ UNCHANGED << play_mode, emergency_stopped, claw_power, auto_stop_armed >>

EmergencyStops ==
  /\ status' = "emergency_stopped"
  /\ play_mode' = "none"
  /\ emergency_stopped' = TRUE
  /\ auto_stop_armed' = FALSE
  /\ UNCHANGED claw_power

AutoStops ==
  /\ auto_stop_armed
  /\ PlayStops

\* The thread ends whatever the answer was: nothing stops the play later.
AutoStopFails ==
  /\ auto_stop_armed
  /\ StopFails

\* A new process builds a new RuntimeController; the latch is not persisted.
ProcessRestarts ==
  /\ status' = "ready"
  /\ play_mode' = "none"
  /\ emergency_stopped' = FALSE
  /\ claw_power' \in InitialPercents
  /\ auto_stop_armed' = FALSE

BoundaryNext ==
  \/ \E mode \in PlayModes : PlayStarts(mode)
  \/ PlayStops
  \/ StopFails
  \/ \E p \in Percents : PowerIsSet(p)
  \/ CommandFails
  \/ EmergencyStops
  \/ AutoStops
  \/ AutoStopFails
  \/ ProcessRestarts

BoundarySpec == BoundaryInit /\ [][BoundaryNext]_boundaryVars

=============================================================================
