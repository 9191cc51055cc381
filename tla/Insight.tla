------------------------------ MODULE Insight ------------------------------
(***************************************************************************)
(* What the dashboard makes of a scene: GameStateEngine names the state of  *)
(* the game from the runtime status and the latest detection,               *)
(* RecommendationEngine advises the operator from that state.  Each is      *)
(* evaluated by the requests that ask for it and by nothing else, so the    *)
(* recommendation reads whatever game state was cached last.                *)
(*                                                                          *)
(* A timestamp the code keeps is here its age in ticks, which stops growing *)
(* at the threshold it is compared with; Never stands for None.             *)
(***************************************************************************)
EXTENDS Naturals

CONSTANTS
  Requests,           \* the requests being served
  Never,              \* None, where a timestamp is kept
  IdleTimeout,        \* idle_timeout_seconds
  ReadyWindow,        \* player_ready_seconds
  DemoTimeout,        \* idle_demo_timeout
  ArduinoTimeout,     \* arduino_timeout
  MaxPlayers          \* bound on the people in a scene

ASSUME TimeoutsAssumption ==
  {IdleTimeout, ReadyWindow, DemoTimeout, ArduinoTimeout} \subseteq Nat \ {0}

ASSUME NeverAssumption == Never \notin Nat

\* RuntimeController.status() as the two engines tell it apart: "expired" is a
\* play past play_ends_at or timeout_seconds that still runs.
Runtimes == {"ready", "running", "expired", "fault", "emergency_stopped"}

\* Confident objects of a detection: players, and prizes in the prize zone.
Scenes == [players : 0..MaxPlayers, prize : BOOLEAN]

GameStates ==
  {"IDLE", "PLAYER_PRESENT", "PLAYER_COUNT_CHANGED", "PLAYING", "PRIZE_DETECTED",
   "TIMEOUT", "ERROR"}

Advices ==
  {"NO_ACTION", "WAIT_FOR_PLAYER", "READY_TO_START", "START_DEMO_MODE",
   "CHECK_CAMERA", "CHECK_ARDUINO", "SYSTEM_DEGRADED"}

\* Where a request is, and the state or advice it carries there.
Idle == [at |-> "idle", value |-> "none"]
Stages ==
  {Idle} \cup [at : {"selected", "read", "tracked"}, value : GameStates]
         \cup [at : {"advised"}, value : Advices]

VARIABLES
  hasDetection,     \* DetectionCache holds a result: only where the vision
                    \* service shares the dashboard's process
  personSeen,       \* age of _last_person_seen_at
  playerCount,      \* _last_player_count
  request,          \* the stage of each request
  gameState,        \* the latest event of GameStateCache
  presentFor,       \* age of _player_present_since
  idleFor,          \* age of _idle_since
  disconnectedFor,  \* age of _arduino_disconnected_since
  advice,           \* the latest entry of RecommendationCache
  playerShown,      \* history: since an evaluation last counted a player
  absenceRead       \* history: since one read a state other than PLAYER_PRESENT

gameVars   == << personSeen, playerCount, playerShown >>
timers     == << presentFor, idleFor, disconnectedFor, absenceRead >>
vars == << hasDetection, gameVars, request, gameState, timers, advice >>

Init ==
  /\ hasDetection = FALSE
  /\ personSeen = Never /\ playerShown = Never
  /\ playerCount = 0
  /\ request = [r \in Requests |-> Idle]
  /\ gameState = "IDLE"
  /\ presentFor = Never /\ idleFor = Never /\ disconnectedFor = Never
  /\ advice = "NO_ACTION"
  /\ absenceRead = 0

Goes(r, at, value) == request' = [request EXCEPT ![r] = [at |-> at, value |-> value]]

-----------------------------------------------------------------------------
(***************************************************************************)
(* Time and the vision service.  A request that has updated the timers      *)
(* chooses its advice with the same `now' and the detection it has read:    *)
(* neither changes while it does.                                           *)
(***************************************************************************)
Older(age, limit) ==
  IF age = Never \/ age = limit THEN age ELSE age + 1

NobodyChooses == \A r \in Requests : request[r].at # "tracked"

Tick ==
  /\ NobodyChooses
  /\ personSeen' = Older(personSeen, IdleTimeout)
  /\ playerShown' = Older(playerShown, IdleTimeout)
  /\ presentFor' = Older(presentFor, ReadyWindow)
  /\ absenceRead' = Older(absenceRead, ReadyWindow)
  /\ idleFor' = Older(idleFor, DemoTimeout)
  /\ disconnectedFor' = Older(disconnectedFor, ArduinoTimeout)
  /\ UNCHANGED << hasDetection, playerCount, request, gameState, advice >>

FirstDetection ==
  /\ NobodyChooses
  /\ ~hasDetection
  /\ hasDetection' = TRUE
  /\ UNCHANGED << gameVars, request, gameState, timers, advice >>

-----------------------------------------------------------------------------
(***************************************************************************)
(* GameStateEngine.  The rules in the order of _select_state: only the last *)
(* ones look at the players, so a play or a prize hides them.  An exception *)
(* counts as a fault.  No route passes runtime events, so nothing is ever   *)
(* GRABBING.                                                                *)
(***************************************************************************)
RuntimeRule(r, runtime) ==
  /\ \/ runtime \in {"fault", "emergency_stopped"} /\ Goes(r, "selected", "ERROR")
     \/ runtime = "expired" /\ Goes(r, "selected", "TIMEOUT")
  /\ UNCHANGED gameVars

PrizeRule(r, runtime, scene) ==
  /\ runtime \in {"ready", "running"}
  /\ scene.prize
  /\ Goes(r, "selected", "PRIZE_DETECTED")
  /\ UNCHANGED gameVars

PlayingRule(r, runtime, scene) ==
  /\ runtime = "running"
  /\ ~scene.prize
  /\ Goes(r, "selected", "PLAYING")
  /\ UNCHANGED gameVars

Unplayed(runtime, scene) == runtime = "ready" /\ ~scene.prize

\* Faulty variant: a changed count is not a sighting.
PlayerRuleForgetful(r, runtime, scene) ==
  /\ Unplayed(runtime, scene)
  /\ scene.players > 0
  /\ playerShown' = 0
  /\ playerCount' = scene.players
  /\ IF playerCount \notin {0, scene.players}
     THEN Goes(r, "selected", "PLAYER_COUNT_CHANGED") /\ UNCHANGED personSeen
     ELSE Goes(r, "selected", "PLAYER_PRESENT") /\ personSeen' = 0

\* player_presence_threshold decides nothing here: too few players for it have
\* still been seen just now, and the idle timer reports those as present.
PlayerRule(r, runtime, scene) ==
  /\ Unplayed(runtime, scene)
  /\ scene.players > 0
  /\ personSeen' = 0 /\ playerShown' = 0
  /\ playerCount' = scene.players
  /\ Goes(r, "selected",
          IF playerCount \notin {0, scene.players} THEN "PLAYER_COUNT_CHANGED"
                                                   ELSE "PLAYER_PRESENT")

RecentlySeen == personSeen # Never /\ personSeen < IdleTimeout

IdleRule(r, runtime, scene) ==
  /\ Unplayed(runtime, scene)
  /\ scene.players = 0
  /\ IF RecentlySeen
     THEN Goes(r, "selected", "PLAYER_PRESENT") /\ UNCHANGED playerCount
     ELSE /\ Goes(r, "selected", IF hasDetection THEN "IDLE" ELSE "ERROR")
          /\ playerCount' = 0
  /\ UNCHANGED << personSeen, playerShown >>

EvaluateState(r) ==
  /\ request[r] = Idle
  /\ \E runtime \in Runtimes, scene \in Scenes :
       /\ ~hasDetection => scene = [players |-> 0, prize |-> FALSE]
       /\ \/ RuntimeRule(r, runtime)
          \/ PrizeRule(r, runtime, scene)
          \/ PlayingRule(r, runtime, scene)
          \/ PlayerRule(r, runtime, scene)
          \/ IdleRule(r, runtime, scene)
  /\ UNCHANGED << hasDetection, gameState, timers, advice >>

\* GameStateCache.transition: the last request to get here wins.
Transition(r) ==
  /\ request[r].at = "selected"
  /\ gameState' = request[r].value
  /\ request' = [request EXCEPT ![r] = Idle]
  /\ UNCHANGED << hasDetection, gameVars, timers, advice >>

-----------------------------------------------------------------------------
(***************************************************************************)
(* RecommendationEngine.  Its timers belong to the engine, not to the       *)
(* request: another request may set or clear them between this one's two    *)
(* steps.                                                                   *)
(***************************************************************************)
ReadGameState(r) ==
  /\ request[r] = Idle
  /\ Goes(r, "read", gameState)
  /\ UNCHANGED << hasDetection, gameVars, gameState, timers, advice >>

Since(age, holds) == IF ~holds THEN Never ELSE IF age = Never THEN 0 ELSE age

\* Faulty variant: only an idle machine ends the presence.
PresentForUntilIdle(state) ==
  CASE state = "PLAYER_PRESENT" -> Since(presentFor, TRUE)
    [] state = "IDLE"           -> Never
    [] OTHER                    -> presentFor

PresentFor(state) == Since(presentFor, state = "PLAYER_PRESENT")

TrackDurations(r) ==
  /\ request[r].at = "read"
  /\ LET state == request[r].value IN
       /\ presentFor' = PresentFor(state)
       /\ idleFor' = Since(idleFor, state = "IDLE")
       /\ absenceRead' = IF state = "PLAYER_PRESENT" THEN absenceRead ELSE 0
       /\ Goes(r, "tracked", state)
  /\ \E connected \in BOOLEAN : disconnectedFor' = Since(disconnectedFor, ~connected)
  /\ UNCHANGED << hasDetection, gameVars, gameState, advice >>

\* The runtime status cannot be had: no timer is touched.
EvaluationFails(r) ==
  /\ request[r].at = "read"
  /\ Goes(r, "advised", "SYSTEM_DEGRADED")
  /\ UNCHANGED << hasDetection, gameVars, gameState, timers, advice >>

\* A timer another request has cleared meanwhile counts from now.
Ripe(age, limit) == age # Never /\ age >= limit

Advice(state, fault) ==
  CASE state = "ERROR" \/ fault              -> "SYSTEM_DEGRADED"
    [] ~hasDetection                         -> "CHECK_CAMERA"
    [] Ripe(disconnectedFor, ArduinoTimeout) -> "CHECK_ARDUINO"
    [] state = "PLAYER_PRESENT" ->
         IF Ripe(presentFor, ReadyWindow) THEN "READY_TO_START" ELSE "WAIT_FOR_PLAYER"
    [] state = "IDLE" ->
         IF Ripe(idleFor, DemoTimeout) THEN "START_DEMO_MODE" ELSE "WAIT_FOR_PLAYER"
    [] OTHER                                 -> "NO_ACTION"

Advise(r) ==
  /\ request[r].at = "tracked"
  /\ \E fault \in BOOLEAN : Goes(r, "advised", Advice(request[r].value, fault))
  /\ UNCHANGED << hasDetection, gameVars, gameState, timers, advice >>

\* RecommendationCache.update
UpdateAdvice(r) ==
  /\ request[r].at = "advised"
  /\ advice' = request[r].value
  /\ request' = [request EXCEPT ![r] = Idle]
  /\ UNCHANGED << hasDetection, gameVars, gameState, timers >>

-----------------------------------------------------------------------------
Next ==
  \/ Tick
  \/ FirstDetection
  \/ \E r \in Requests :
       \/ EvaluateState(r)
       \/ Transition(r)
       \/ ReadGameState(r)
       \/ TrackDurations(r)
       \/ EvaluationFails(r)
       \/ Advise(r)
       \/ UpdateAdvice(r)

Spec == Init /\ [][Next]_vars

-----------------------------------------------------------------------------
Ages(limit) == (0..limit) \cup {Never}

TypeOK ==
  /\ hasDetection \in BOOLEAN
  /\ personSeen \in Ages(IdleTimeout) /\ playerShown \in Ages(IdleTimeout)
  /\ playerCount \in 0..MaxPlayers
  /\ request \in [Requests -> Stages]
  /\ gameState \in GameStates
  /\ presentFor \in Ages(ReadyWindow) /\ absenceRead \in 0..ReadyWindow
  /\ idleFor \in Ages(DemoTimeout)
  /\ disconnectedFor \in Ages(ArduinoTimeout)
  /\ advice \in Advices

Carries(r, at, value) == request[r] = [at |-> at, value |-> value]

\* The machine is called idle only when every request that counted players for
\* idle_timeout_seconds found none, whether a sighting repeated the count,
\* changed it or came first.
IdleIsEarned ==
  [][\A r \in Requests :
       (request[r] = Idle /\ Carries(r, "selected", "IDLE")')
         => playerShown \in {Never, IdleTimeout}]_vars

\* An operator is told that the player is ready only when no evaluation has seen
\* another state for player_ready_seconds (the start counts as one): whatever
\* several requests do to the shared timer, and in whatever order, a presence
\* never becomes longer than it was.
ReadyIsEarned ==
  [][\A r \in Requests :
       (request[r].at = "tracked" /\ Carries(r, "advised", "READY_TO_START")')
         => absenceRead = ReadyWindow]_vars

\* The reason given with READY_TO_START: "Player detected for configured ready
\* window".  It says that a player was counted within that window.
ReadyMeansDetected ==
  [][\A r \in Requests :
       (request[r].at = "tracked" /\ Carries(r, "advised", "READY_TO_START")')
         => playerShown # Never /\ playerShown <= ReadyWindow]_vars
=============================================================================
