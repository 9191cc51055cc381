# Formal verification of the Progress Claw Machine

TLA+ specifications of the claw machine's control path and of the services
around it (vision, game state, analytics, cloud, administration), model-checked
with TLC and proved in part with TLAPS. Paths below are relative to the repository
(`src/` is its root). The reference is always the source code; documents are
quoted only where the code disagrees with them (section *Findings*).

    tlc -config RuntimeController.cfg MCRuntimeController      # a run
    tlapm ClawMachineProofs.tla                                # proofs

`PROJECT.json` lists the components, the runs, the mutants, the lines each
definition models, the hazards, the findings and the theorems.

## 1. Inventory: the system and its parts

| Part | State it keeps | Operations | Talks to |
| --- | --- | --- | --- |
| **Dashboard server** (`dashboard/backend/dashboard_state.py`, `routes_*.py`) | the dictionary `state`: play mode, enabled, maintenance, people/target/credits, power mode and percentages, photo, players; `lock` | about 20 Flask handlers, threaded, all state under `lock` | calls RuntimeController; polled by the browser every 2 s |
| **RuntimeController** (`controller/core`) | `MachineState`, `_play_generation`, an auto-stop thread per play, an RLock | `start_play`, `stop_play`, `set_claw_power`, `emergency_stop`, `status` | SafetyValidator; the transport |
| **GPIO transport** (`controller/adapters/gpio_adapter.py`) | four `OutputDevice`s | `connect`, `close`, `send_command` | four wires: A0 (gate, active low), A1-A3 (power level or command code) |
| **Arduino sketch** (`arduino/sketches/arduino_claw`) | play, pulse, homing and actuator state machines; outputs | one `loop()` | reads the wires, the player's controls, the home switches |
| **Administrator login** (`admin_auth.py`) | attempts per client, session | login, logout, `require_admin` | admin routes |
| **Wi-Fi** (`wifi_control.py`, `scripts/system/progress-claw-wifi`) | configuration, backup, operation lock | status, scan, connect with roll-back | wpa_supplicant; called with the dashboard's `lock` held |
| **Cloud sync** (`cloud/`) | client, last status, retry time, health | connect, update, heartbeat, fetch, validate | Supabase; the monitoring page |
| **Vision** (`vision/`) | newest frame, detection cache, two threads | start, stop, capture, wait, detect, stream | camera, YOLO model, viewers |
| **Game state, recommendation** (`game/`, `recommendation/`) | last person seen, timers, two caches | evaluate | detection cache, controller status |
| **Analytics** (`analytics/`) | bounded event store with de-duplication keys | collect, add, query | both caches, detections, controller status |
| Kiosk launcher | Chromium process, request file | exit, restart | file written by the server |
| Dashboard camera worker | newest picture | read, stream | ffmpeg or libcamera-vid |
| Serial and mock adapter | connection | send | none in this repository |

**What is hard.** (a) The Raspberry Pi and the Arduino share nothing but four
levels, written one after the other and sampled at any moment; neither can
read the other's state. (b) Every play has a sleeping thread of its own, which
may wake late and races the requests. (c) Each write may raise, the outputs
may be lost and reopened, either side may restart, so the pins may be left in
any intermediate state. (d) The dashboard keeps a copy of the play mode that
the auto-stop thread does not update. (e) The sketch interleaves three state
machines on the same output pin. (f) The vision services are started and
stopped by other threads than their own, and a stop gives up waiting. (g) The
engines keep timers that several requests move. (h) The cloud validation works
without the lock everyone else takes. (i) The Wi-Fi helper can be caught by a
signal or a power failure between any two steps and outlives its caller.
`PROJECT.json` has the full list of hazards.

**What makes each part correct.** *Controller*: a machine reported stopped has
released the gate; a running play is supervised by its own thread; the gate
opens only for an accepted start; the code on A1-A3 is right at the moment the
gate moves. *Sketch*: outside a play nothing moves but a homing axis; the
actuator relays are interlocked; no play outlives the limit; a homing fault
latches. *Machine*: both sides agree on whether there is a play; a released
gate is pulsed, except by an emergency stop; an emergency stop is final. *Dashboard*: its
copy never misses a play; maintenance and system actions never overlap one;
the selected power is the applied power. *Vision*: one thread per service, no
leaked device, no step back in time. *Engines*: idle and ready are said only
when the configured time has been earned. *Analytics*: keys and events agree.
*Cloud*: the health page tells the truth, the row never goes back.
*Administration*: the network configuration that worked survives everything, an
emergency stop is served, a lock-out ends.

## 2. Modules

| Module | Models |
| --- | --- |
| `GrabberPower` | percentages, the seven levels, rounding, the crowd tiers |
| `SafetyBoundary` | the abstract specification: the controller seen from outside its lock, each command one step that succeeds or fails |
| `RuntimeController` | controller, validator and GPIO transport in detail |
| `ClawFirmware` | the sketch |
| `ClawMachine` | `RuntimeController` and `INSTANCE ClawFirmware`, sharing `gate` and `power` |
| `OperatorStops` | `ClawMachine` with a history of the button that asked for a stop: Reset and machine-disable, for findings 11 and 12 |
| `Dashboard` | the server's handlers over `SafetyBoundary` |
| `Vision` | camera manager, frame queue, detection service, detector, viewers |
| `Insight` | game state engine and recommendation engine with their caches |
| `Analytics` | the store and the collection from its four sources |
| `CloudSync` | the sync service, its client and its health |
| `Administration` | login, Wi-Fi requests, the root helper |
| `ClawMachineProofs` | theorems about `RuntimeController`, then about the composition with the sketch |
| other `...Proofs` | theorems about the module they are named after |
| `MC...` | constants of the small instances |

`Dashboard` rests on `SafetyBoundary`, and `RuntimeController` implements
`SafetyBoundary` (property `ImplementsBoundary`, theorem `RefinesBoundary`). So
a controller call may be one step in `Dashboard` although it is a dozen in
`RuntimeController`.

**RuntimeController.** `owner` is the command that holds the RLock; `command`
and `step` say how far `send_command` has got, with one step for each GPIO
write. A command is: accept (validator; `stop_play` and `emergency_stop`
advance the generation here), connect, write the pins in the code's order,
reply (`_send` reads `connected`, which may reconnect, then `_record_response`,
`_require_ok` and the rest). `timers[g]` is the auto-stop thread of generation
`g`: the ticks it still sleeps, or -1. `outputs` is the set of the pins that the
adapter can write: `_outputs_ready()` is `outputs = Pins`, checked once in
`send_command`, but each write needs only its own pin, so a command may go on
with some of them lost (`LoseOutputs`). A wire whose pin is not driven: A0 has
the Arduino's pull-up, A1-A3 float, hence any level. `Restart` kills the process between any two
steps.

**ClawFirmware.** The globals of the sketch are the fields of `fw`; each of its
functions is an operator from one `fw` to the next, so that `Loop` reads in the
order of `loop()`. `millis()` differences are ages in ticks. `polled` says that
`loop()` runs at least once between two ticks (a pass takes milliseconds, the
tick is a second or so). `pulses` is a history variable that counts full-power
pulses. On its own the sketch is checked against `HostWrites`, which may do
anything with the wires.

**ClawMachine.** `seen` says that the sketch has sampled the wires as they are.
Two timing assumptions can be switched on by `KeepsUp`: `firmware` (a pass of
`loop()` falls between two commands) and `host` (a command is over before the
next tick). The run with faults uses neither.

**Dashboard.** `at` is where the handler that holds `lock` has got; `todo` the
keys of a settings request that are left; `saw_running` what
`dashboard_state.stop_play` has read. Handlers that make one controller call
do it in the step that changes the state; the trailing `dashboard_state()`,
which reads the controller again, is the step `Answer`, before which the
auto-stop thread may run. Answers that return early without
`dashboard_state()` do not pass through it.

**Vision.** `pc[s][t]` is where thread `t` of service `s` has got; the thread
that an earlier `start()` made may still be running when the next one comes.
`stopper` is the call of `CameraManager.stop()` under way, whose join ends at
any moment (because the thread has ended, or after five seconds) and whose
`_release_capture` reads `_capture` in one step and overwrites it in another.
`open` is the set of devices that are open, each named after the thread that
opened it. A frame is its sequence number. The detector may fail to load, once
and for all, or fail for one frame. The vision service is a process of its own
(`vision/stream_service.py`), so the detection cache of the dashboard process
is filled only where both are put into one.

**Insight.** A timestamp is its age, which stops growing at the threshold it is
compared with. A game-state request takes two steps (select, store), a
recommendation request four (read the cached state, move the timers, select,
store); steps of different requests interleave. The rules appear in the order
of `_select_state`. `player_presence_threshold` decides nothing: too few
players for it have still been seen just now, and the idle rule then reports
them as present; and `CHECK_CAMERA` cannot be reached through the state ERROR,
which is degraded already. `playerShown` and `absenceRead` are history
variables for the two properties.

**Analytics.** An event is its key. A collection holds `_collect_lock` and
reads its sources one after the other; `pending` are the events it has read and
not yet added, while the caches grow. `recorded` and `again` are history.

**CloudSync.** Everything but the query of `validate_schema` runs under the
RLock; a remote call that fails may have taken effect. A validation takes three
steps outside the lock: query, disconnect, back off. `disturbed` remembers that
such steps have overlapped another operation.

**Administration.** One client's attempts are counted by their age. The
dashboard's `lock` is held by a Wi-Fi request from before the helper starts
until it ends or the 90 seconds are over. `sudo` may be killed then, the helper
runs on. The helper holds the flock from its first step; each write of
a file is atomic (`os.replace`). From the moment the new configuration is being
written, any exception, signals included, leads to the restoration, which a
second signal can abort. `lastGood`, `unproven` and `overwritten` are history.

## 3. Runs

| Run | Checks | Bounds |
| --- | --- | --- |
| `controller` | safety of the controller with all faults, the refinement | 3 generations (late threads of two earlier plays), plays of 1 tick after a startup of 0 or 1; a duration of 3 and a power of 130% are refused |
| `firmware` | the sketch alone, all inputs, any host | play limit 7 ticks (a pulse sequence takes 5), X homing enabled so that its code is covered |
| `machine` | both sides, no faults, liveness | 3 generations, play limit 3, plays of 1 to 4 ticks (the longest reach the limit), powers in steps of ten, both sides keep up |
| `machine_faults` | raising writes, restarts of either side | 2 generations, no timing assumption |
| `dashboard` | all handlers, failing transport, restarts | 2 people, 2 credits, targets 1 and 2 |
| `dashboard_steady` | applied power, plays end | both power modes, crowds of 0 and 4, no transport faults |
| `vision` | unique threads, order of frames, release of the device | 2 thread identities per service, 1 viewer, 3 frames |
| `insight` | idle and ready are earned | 2 requests, 2 players, timeouts of 1 and 2 ticks |
| `analytics` | keys, order | 3 events in the store, 2 in each cache, 3 made by each source |
| `cloud` | health, order of statuses | 3 threads, 3 statuses, back-off of 2 ticks |
| `administration` | configuration, emergency stop, lock-out | 2 networks, 2 helpers, 2 attempts in 2 ticks, 1 poll |
| `end_pulse` | finding 1 | |

Why the bounds are enough: a stale thread needs one later play, and a stale
thread of a stale thread one more, so three generations show every order of
wake-ups. Windows of one and two ticks separate "late" from "early". The
configured and the requested power set A1-A3 to different codes, neither of
them the end-pulse code. `ShownPowerIsHeld` is checked with steps of ten, the
only powers the sketch can hold exactly (`PlaysHoldClose` has the others). The
faults of a hazard are not in every run that checks its property: the hazards'
notes in `PROJECT.json` say which run or finding shows what. The firmware limits are just longer
than the pulse sequence that competes with them, so that each of play, pulse
and homing can be overtaken by the others. Two vision threads are one more than
there should ever be. Two requests are what it takes to move a timer under
another one, and the idle timeout is longer than the ready window, as in
`config/`. The store of three is smaller than what its sources make, so events
fall out while their source still lists them. Three cloud threads are a
validation, a failing update and a heartbeat. Two helpers are one that was left
behind and the next. `MaxGeneration`, `MaxPeople`, `MaxCredits`, `MaxFrames`,
`MaxMade` and `MaxStatus` bound counters that are unbounded in the code; the
theorems hold for every value of them.

The two constants that differ from the code's are the lengths of time and
`XHomingEnabled` in the `firmware` run (the sketch sets it to false; the
other runs use false).

**Deadlock** is checked in every run. **Fairness**:
- `WF(CommandSteps)`, `WF(HandlerGoesOn)`, `WF(LoopPass)`: threads and the
  processor run.
- `SF(AutoStop(g))`: an auto-stop thread waits for an RLock that requests take
  one at a time and leave free in between.
- `SF(PollStatus)` in `Dashboard`: the browser polls every two seconds
  (`index.html:1297`) and its request gets the lock sooner or later.
- `SF(TimePasses)` in `ClawMachine`: a tick waits for the command under way
  (assumption `host`), and commands without end cannot stop time.
- `WF(CaptureThread(t))`, `WF(DetectionThread(t))`, `WF(StopGoesOn)` in
  `Vision`: threads run, and a read of the camera returns with or without a
  frame, as the driver's timeout makes it.
- `WF(HelperStep(h))` in `Administration`: every wait of the helper has a
  timeout (`run_wpa_cli`, the poll counter, the non-blocking flock).
- `SF(TakeLock)`: an emergency stop competes with other requests for a
  `threading` lock that each of them leaves free; it is not overtaken for ever.
- No button is ever assumed to be pressed, no service to be started.

Every property of a passing run has a mutant: a definition replaced by a
plausible bug (`...Without...`, `Over...`, listed in `PROJECT.json`), under
which TLC finds the property violated.

## 4. Findings

1. *Two end pulses instead of three.* `startHoming()` (`arduino_claw.ino:383`)
   switches D5 off in the same pass that has switched it on for the end pulse.
   README.md:162-164 and `docs/ARDUINO_COMMUNICATION.md:46-48` promise three.
2. *Lost outputs end a play silently.* `connect()` recreates the outputs with
   the gate released (`gpio_adapter.py:72-87`); the controller still reports
   "running".
3. *A failed stop disarms the auto-stop.* `runtime_controller.py:98` advances
   the generation before the send; the play then goes on until the firmware's
   limit.
4. *The longest play ends without its end pulse.* 3 + 1 + 180 seconds exceed
   the firmware's 180.
5. *`/api/claw/power` overrides AI Crowd Bonus mode.*
6. *Disabling the machine has no effect:* `dashboard_state()` enables it again.
7. *A player who has left is ready to start.* Presence lasts for
   `idle_timeout_seconds` (5) after the last sighting, longer than the ready
   window (3), so READY_TO_START, "Player detected for configured ready
   window", is said of one glimpse.
8. *Analytics records an event again* once the store has dropped it while its
   source still lists it.
9. *The health page may say connected with no client there*, when a validation
   without the lock succeeds after another thread has failed.
10. *The backup may hold a configuration that never worked*: after a power
    failure or a second signal in the middle of a change, the next change saves
    what it finds.

11. *Reset and machine-disable stop a play with the end pulse.* Both send
    `PLAY STOP` (`routes_api.py:158`, `249`), which puts 111 on A1-A3.
    `dashboard/README.claw_dashboard.md:64-65`, `docs/ARDUINO_COMMUNICATION.md:52-53`
    and `arduino/wiring/README.md:122-123` say that D5 is forced to 0 immediately.
12. *Reset without a play homes nothing.* It asks for the status and sends no
    command; `docs/ARDUINO_COMMUNICATION.md:49-51` describes a home request (111,
    then A0 low), which the sketch would accept and no code makes.
13. *A start may look like a home request* when A1-A3 are lost between the check
    of the outputs (`gpio_adapter.py:142`) and the write of the gate (151).
14. *The gate does not wait for the ready message.* It goes low at once;
    `run_play_window`, which waited, is dead code.

Finding 1 is a run. The others are reproduced with configurations kept beside
the modules, each of which checks one property and finds it violated:

    tlc -config RuntimeControllerReopened.cfg MCRuntimeController   # 2
    tlc -config RuntimeControllerStuck.cfg    MCRuntimeController   # 3
    tlc -config ClawMachineLongest.cfg        MCClawMachine         # 4
    tlc -config DashboardAiPower.cfg          MCDashboard           # 5
    tlc -config DashboardEnabled.cfg          MCDashboard           # 6
    tlc -config InsightReady.cfg              Insight               # 7
    tlc -config AnalyticsAgain.cfg            Analytics             # 8
    tlc -config CloudSyncHealth.cfg           CloudSync             # 9
    tlc -config AdministrationBackup.cfg      Administration        # 10
    tlc -config OperatorDisable.cfg           MCOperatorStops       # 11
    tlc -config OperatorReset.cfg             MCOperatorStops       # 12
    tlc -config RuntimeControllerFloating.cfg MCRuntimeController   # 13
    tlc -config RuntimeControllerReady.cfg    MCRuntimeController   # 14

The passing properties are stated so that they do not hide these. `EndIsPulsed`
says what the code does: a released gate is pulsed, whoever asked for it, and an
emergency stop or the sketch's limit is not (`EveryEndIsPulsed` is what the
documents say of Time Up and Stop, finding 4). `StartIsNoHomeRequest` speaks of
starts only, not of the home request the documents let Reset make.
`GateOpensSafely` speaks of the pins that are driven when the gate is pulled;
that the code as a whole is no home request is `GateNeverHomes`, which finding
13 refutes and `NoHomeRequestedByStart` proves where the pins stay outputs.

## 5. Proofs

All safety properties of the passing runs are theorems; the statement of each
says under which faults it holds. The assumptions common to a module are its
named ASSUMEs (percentages are integers, times and bounds are naturals, limits
of the sketch are positive).

### The controller (`ClawMachineProofs`, first part)

For every set of percentages, durations, startups and faults and every
`MaxGeneration`: `TypeCorrect`, `Inductive`, `StoppedIsReleased`,
`RunningHasAThread`, `GateSafety`, `NeverCutShort`, `ReleaseIsCoded` and
`RefinesBoundary`; and, when `"outputs"` is no fault, `HeldWithoutLoss` and
`NoHomeRequestedByStart`.

*The argument.* `StoppedMeansReleased` is not inductive: it speaks of moments
when no command runs, while the pins move inside commands. `IInv` adds
- `LockInv`: what the validator has granted to the holder of the lock is still
  true (nobody else can change it), and which transport command it can be
  sending;
- `GateInv`: somebody answers for a low gate at every single write, and a stop
  that reaches its reply without error has released it;
- `ThreadInv`: no thread is ahead of the counter, and the current one agrees
  with `play_ends_in`; so a thread that passes the test of line 149 is at the
  end of its own play;
- `PinsInv`: the pins written so far, and not lost since, have their target
  level; so the code on the driven pins is complete when the gate moves.

The refinement maps a command to its last step (an emergency stop to its
first, because the latch is set there) and everything else to a stutter.
While `stop_play` holds the lock, the thread of the previous generation still
counts as armed, because the abstract stop disarms it at the end.

`HeldWithoutLoss` completes finding 2 above: the same `RunningMeansHeld` that
reopened outputs break holds when the pins stay outputs, whatever writes fail
and whenever the process restarts. Its invariant `HeldInv` says that the gate of
a reported play is low except under an emergency stop and between the last
write of a successful stop and its reply.

### The machine (`ClawMachineProofs`, second part)

`ControllerInMachine` and `SketchInMachine` show that the composition
implements both of its parts: to the controller a pass of `loop()` is a stutter,
to the sketch every step of the controller, a raising write and a dead process
included, is one of `HostWrites`. So every theorem about a part holds of the
machine, and `MachineInductive` joins the two invariants. `PassSees`, `HostSees`
and `TickSees` say what a step leaves of the globals the two sides are compared
by; the proofs below work with these instead of opening `Loop`.

| Theorem | States | Assumes | Rests on |
| --- | --- | --- | --- |
| `NothingUnreported` | `NothingPlaysUnreported` | nothing: all faults, no timing | `WiresSeen`: after a pass the sketch remembers the gate as it is, and plays only if it is low |
| `EmergencyEndsPlay`, `QuietAfterEmergency` | `EmergencyIsFinal`, `NothingAfterEmergency` | nothing | `EmergencyInv`: 000 is on A1-A3 from the write of the gate on, unless the pins are lost; a controller without pins has let the gate go in creating them |
| `StartsArePlays` | `StartIsNoHomeRequest` | only `"write"` may fail, the sketch keeps up | `EdgeInv`: a gate that the sketch has not yet seen fall comes without 111 |
| `BothSidesAgree`, `PlaysEndPulsed` | `SidesAgree`, `EndIsPulsed` | no faults, the sketch keeps up | `CalmInv`: every command succeeds; `PlayInv`: a low gate the sketch has seen is a play, unless a homing fault blocks it or the limit has ended it, and a play whose gate is released carries the code of its end until it is seen |
| `TimeUpIsPulsed` | `EveryEndIsPulsed` | also that the host keeps up and `PlaysFitTheLimit` | `LimitInv`: the age of the sketch's play plus the controller's remaining time is below the limit |
| `PlaysHoldRounded`, `PlaysHoldClose`, `ShownIsHeld` | the strength of the grabber is the rounded percentage, within 5 points of the reported one, and `ShownPowerIsHeld` | no raising write, no lost outputs; legal initial percentages; steps of ten | `StrengthInv`: the level is complete before `PLAY START` and only changes under a command |

The assumptions exclude what the code does not guard against. Without
`PlaysFitTheLimit` (the longest accepted play is shorter than the firmware's
limit) `ClawMachineLongest.cfg` finds the play without end pulse of finding 4.
If the first pass since a start came when the stop had already written 111 and
not yet released the gate, the gate would seem to fall with the code of a home
request. If a write raises in a change of power during a play, the play goes on
with the pins written so far. If the process dies, the gate stays low with
nobody to report it, which is why `SidesAgree` excludes faults and
`NothingPlaysUnreported` is what is left with them. "Keeps up" is a pass of
`loop()` (milliseconds) between two commands, and a command (microseconds)
within one tick.

### The dashboard (`DashboardProofs`)

`TypeCorrect`, `Inductive`, `ShownIsReal`, `MaintenanceIsSafe` and
`SystemActionsAreSafe` hold for every number of names, people, targets and
powers. The invariant needs `IdleStaysIdle`: what `stop_play` has read is still
true when it acts on it. Its key is that the dashboard's copy can only be stale
in one direction: plays begin under `lock`, and only the auto-stop thread ends
one without it.

`ManualPowerApplied` assumes that the transport answers (a failing
`CLAW POWER` leaves the two copies apart, as the code lets it). Its invariant
`PowerInv` needs no `at = "idle"`: the power and its selection change together
or not at all, and a refusal comes from an emergency stop only, because every
effective power is legal.

`UsesTheBoundary` closes the chain from the routes to the wires: whatever the
handlers do to the controller is a behaviour of `SafetyBoundary`, which
`RefinesBoundary` says the controller implements. It assumes that every power
within the limits may be asked for, as `set_claw_power` allows.

### The other parts

`ClawFirmwareProofs` proves `StillWhenStopped`, `ControlsLocked`, `PlayLimited`,
`FaultsLatch` and `ThreePulses` for every limit, timeout and set of inputs and any host. One
pass of `loop()` is a chain of functions from one `fw` to the next, so the proof
is one too: a lemma for each function says which part of the invariant it
needs and which it keeps (`Sound` at the two ends of a pass, weaker inside),
and lemmas for the setters say which fields stay. The key is that the motor
state the interlock relies on is the state of the relays, and that homing,
pulse and play exclude each other except for the end pulse. `ThreePulses` adds
`PulseInv`, which ties the history `pulses` to the toggle counter of the
sequence: a pulse has begun at every odd toggle, and only the sixth ends it.

`VisionProofs` proves `OneThread` and `ForwardOnly`. A thread that is not
`thread[s]` is dead because `start()` looks at the thread and not at the event;
a device is open only under a thread that has passed `open` and not yet
`release`. For the order: what a thread holds is between what was detected and
the newest frame, and there is only one such thread.

`InsightProofs` proves `IdleEarned` and `ReadyEarned`: the engine's age of
the last sighting is never larger than the history's, and the age of
a presence is never larger than the time since another state was read.

`AnalyticsProofs` proves `KeysMatch` from a lemma about a bounded deque
(what `AppendLeft` drops, and that the others stay distinct), and `Newest`.
The list of a source is in order because a key that comes in for the first
time is newer than all recorded ones of its source. The invariant `Order` says
why: event numbers run without gaps in the caches and in `pending`, and what
they still show is either newer than every recorded event or recorded itself.

`CloudSyncProofs` proves `HealthHonest` and `RowForward`: outside the lock only
validations go on, inside it there is one thread, and what that thread sends is
the last status.

`AdministrationProofs` proves `LastGoodKept`: the flock has one owner, only its
owner changes files, and its original is the last good configuration or the
machine is in the stretch the property excepts.

### Model-checked only

All liveness: `PlayIsBounded`, `HomingEnds`, `WindowReleasesGate`,
`ShownPlayEnds`, `StoppedCameraIsReleased`, `EmergencyIsServed`, `LockOutEnds`.
They need fairness, that is ENABLED, which this prover does not handle. The
safety half of `PlayIsBounded` is `PlayLimited`.

## 6. Not modelled, and why

- Mock and serial transports: no pin is written, or the repository has no
  sketch that would answer. `clear_emergency_for_tests`: tests only.
- `machine_enabled` inside the controller: never set to False by any code.
- Photos, event log, play statistics, wording of `machine_status`: no decision
  depends on them.
- Levels of A1-A3 that change between the three reads of one
  `readGrabberPowerLevel()`: the sketch samples them together in the model.
- How long a lock is held: that `wifi_connect` lets go of it is
  `EmergencyIsServed`, the 90 seconds are real time. So are jumps of the wall
  clock, from which the login window and the engines take their times.
- Kiosk launcher: one request file, whose only hazard (a request written
  between reading and removing the file is lost) no document rules out.
- Dashboard camera worker: splitting a byte stream into pictures; its hand-over
  to the viewers is the one of `Vision`.
- What the YOLO model sees; runtime events of the game engine, which no route
  passes; `camera_timeout`, which is read from the configuration and not used,
  so an old detection is never too old.
- Queries of the analytics store, cloud diagnostics, retention audit, logging,
  the pages in the browser: read-only or layout.

## 7. Plan

Done: the control path dashboard - controller - wires - sketch with its
composition; the services around it; eight proof modules, with every safety
property of the runs as a theorem and the refinements on both sides of
`SafetyBoundary`. What is left is
1. more about the services by theorem: what a bounded event cache keeps, and
   that a log-out or a lock-out is final within its window;
2. the launcher, should its request file come to carry more than a wish.
