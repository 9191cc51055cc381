---------------------------- MODULE InsightProofs ----------------------------
(***************************************************************************)
(* Proofs about Insight, for any number of requests and all timeouts: the   *)
(* states that need time have had it, although the requests share timers    *)
(* and interleave.                                                          *)
(***************************************************************************)
EXTENDS Insight, TLAPS

\* The engine's idle timer and the last sighting are one and the same: a play
\* or a prize stops neither.
PlayersOK ==
  /\ personSeen \in Ages(IdleTimeout)
  /\ playerShown = personSeen

\* A presence on record is not longer than the time without an absence.
PresenceOK ==
  /\ presentFor \in Ages(ReadyWindow)
  /\ absenceRead \in 0..ReadyWindow
  /\ presentFor # Never => presentFor <= absenceRead

RequestsOK == DOMAIN request = Requests

IInv == PlayersOK /\ PresenceOK /\ RequestsOK

-----------------------------------------------------------------------------
LEMMA Limits ==
  /\ IdleTimeout \in Nat \ {0} /\ ReadyWindow \in Nat \ {0}
  /\ Never \notin 0..IdleTimeout /\ Never \notin 0..ReadyWindow
BY TimeoutsAssumption, NeverAssumption

\* An age grows by one tick up to its limit, and None stays None.
LEMMA OlderLemma ==
  ASSUME NEW limit \in Nat, NEW age \in Ages(limit)
  PROVE  /\ Older(age, limit) \in Ages(limit)
         /\ Older(age, limit) = Never <=> age = Never
         /\ age # Never => Older(age, limit) = IF age < limit THEN age + 1 ELSE limit
<1>1. Never \notin Nat
  BY NeverAssumption
<1>2. CASE age = Never
  BY <1>1, <1>2 DEF Older, Ages
<1>3. CASE age # Never
  BY <1>1, <1>3 DEF Older, Ages
<1> QED BY <1>2, <1>3

LEMMA InitIInv == Init => IInv
<1> SUFFICES ASSUME Init PROVE IInv
  OBVIOUS
<1>1. PlayersOK /\ RequestsOK
  BY DEF Init, PlayersOK, RequestsOK, Ages
<1>2. PresenceOK
  BY Limits DEF Init, PresenceOK, Ages
<1> QED BY <1>1, <1>2 DEF IInv

LEMMA TickKeeps == ASSUME IInv, Tick PROVE IInv'
<1>1. PlayersOK'
  BY Limits, OlderLemma DEF IInv, PlayersOK, Tick
<1>2. PresenceOK'
  <2>1. presentFor' \in Ages(ReadyWindow) /\ (presentFor' # Never => presentFor # Never)
        /\ (presentFor # Never =>
              presentFor' = IF presentFor < ReadyWindow THEN presentFor + 1 ELSE ReadyWindow)
    BY Limits, OlderLemma DEF IInv, PresenceOK, Tick
  <2>2. absenceRead \in 0..ReadyWindow /\ absenceRead \in Ages(ReadyWindow)
        /\ absenceRead # Never
    BY Limits DEF IInv, PresenceOK, Ages
  <2>3. absenceRead' = IF absenceRead < ReadyWindow THEN absenceRead + 1 ELSE ReadyWindow
    BY <2>2, Limits, OlderLemma DEF Tick
  <2>4. presentFor # Never => presentFor \in 0..ReadyWindow
    BY DEF IInv, PresenceOK, Ages
  <2> QED BY <2>1, <2>2, <2>3, <2>4, Limits DEF IInv, PresenceOK
<1>3. RequestsOK'
  BY DEF IInv, RequestsOK, Tick
<1> QED BY <1>1, <1>2, <1>3 DEF IInv

LEMMA EvaluateStateKeeps ==
  ASSUME IInv, NEW r \in Requests, EvaluateState(r)
  PROVE  IInv'
<1>1. /\ UNCHANGED gameVars \/ (personSeen' = 0 /\ playerShown' = 0)
         \/ UNCHANGED << personSeen, playerShown >>
      /\ \E at, value : Goes(r, at, value)
      /\ UNCHANGED << hasDetection, gameState, timers, advice >>
  BY DEF EvaluateState, RuntimeRule, PrizeRule, PlayingRule, PlayerRule, IdleRule
<1>2. PlayersOK'
  <2>1. 0 \in Ages(IdleTimeout)
    BY Limits DEF Ages
  <2> QED BY <1>1, <2>1 DEF IInv, PlayersOK, gameVars
<1>3. PresenceOK' /\ RequestsOK'
  BY <1>1 DEF IInv, PresenceOK, RequestsOK, timers, Goes
<1> QED BY <1>2, <1>3 DEF IInv

LEMMA TrackDurationsKeeps ==
  ASSUME IInv, NEW r \in Requests, TrackDurations(r)
  PROVE  IInv'
<1> DEFINE state == request[r].value
<1>1. /\ presentFor' = PresentFor(state)
      /\ absenceRead' = IF state = "PLAYER_PRESENT" THEN absenceRead ELSE 0
      /\ Goes(r, "tracked", state)
      /\ UNCHANGED << hasDetection, gameVars, gameState, advice >>
  BY DEF TrackDurations
<1> HIDE DEF state
<1>2. PlayersOK' /\ RequestsOK'
  BY <1>1 DEF IInv, PlayersOK, RequestsOK, gameVars, Goes
<1>3. CASE state = "PLAYER_PRESENT"
  <2>1. presentFor' = IF presentFor = Never THEN 0 ELSE presentFor
    BY <1>1, <1>3 DEF PresentFor, Since
  <2> QED BY <1>1, <1>2, <1>3, <2>1, Limits DEF IInv, PresenceOK, Ages
<1>4. CASE state # "PLAYER_PRESENT"
  <2>1. presentFor' = Never /\ absenceRead' = 0
    BY <1>1, <1>4 DEF PresentFor, Since
  <2> QED BY <1>2, <2>1, Limits DEF IInv, PresenceOK, Ages
<1> QED BY <1>3, <1>4

\* The other steps of a request move the request only.
LEMMA RequestKeeps ==
  ASSUME IInv, NEW r \in Requests,
         \/ Transition(r) \/ ReadGameState(r) \/ EvaluationFails(r)
         \/ Advise(r) \/ UpdateAdvice(r)
  PROVE  IInv'
BY DEF Transition, ReadGameState, EvaluationFails, Advise, UpdateAdvice, Goes,
       gameVars, timers, IInv, PlayersOK, PresenceOK, RequestsOK

LEMMA NextKeeps == IInv /\ [Next]_vars => IInv'
<1> SUFFICES ASSUME IInv, [Next]_vars PROVE IInv'
  OBVIOUS
<1>1. CASE Tick
  BY <1>1, TickKeeps
<1>2. CASE FirstDetection
  BY <1>2 DEF FirstDetection, gameVars, timers, IInv, PlayersOK, PresenceOK, RequestsOK
<1>3. ASSUME NEW r \in Requests,
             \/ EvaluateState(r) \/ Transition(r) \/ ReadGameState(r) \/ TrackDurations(r)
             \/ EvaluationFails(r) \/ Advise(r) \/ UpdateAdvice(r)
      PROVE  IInv'
  BY <1>3, EvaluateStateKeeps, TrackDurationsKeeps, RequestKeeps
<1>4. CASE UNCHANGED vars
  BY <1>4 DEF vars, gameVars, timers, IInv, PlayersOK, PresenceOK, RequestsOK
<1> QED BY <1>1, <1>2, <1>3, <1>4 DEF Next

\* One idle timer per engine and one presence timer that no interleaving of
\* requests makes older than the presence.
THEOREM Inductive == Spec => []IInv
BY InitIInv, NextKeeps, PTL DEF Spec

-----------------------------------------------------------------------------
(***************************************************************************)
(* What a step may do to a request: each goes its own way.                  *)
(***************************************************************************)
\* Only EvaluateState turns an idle request into one that has selected IDLE.
LEMMA SelectsIdle ==
  ASSUME IInv, Next, NEW r \in Requests,
         request[r] = Idle, Carries(r, "selected", "IDLE")'
  PROVE  playerShown \in {Never, IdleTimeout}
<1>1. request'[r] = [at |-> "selected", value |-> "IDLE"] /\ request'[r] # request[r]
      /\ request'[r].at = "selected" /\ request'[r].value = "IDLE"
  BY DEF Carries, Idle
<1>2. PICK q \in Requests :
        \/ EvaluateState(q) \/ Transition(q) \/ ReadGameState(q) \/ TrackDurations(q)
        \/ EvaluationFails(q) \/ Advise(q) \/ UpdateAdvice(q)
  BY <1>1 DEF Next, Tick, FirstDetection
<1>3. \E new : request' = [request EXCEPT ![q] = new]
  BY <1>2 DEF EvaluateState, RuntimeRule, PrizeRule, PlayingRule, PlayerRule, IdleRule,
              Transition, ReadGameState, TrackDurations, EvaluationFails, Advise,
              UpdateAdvice, Goes
<1>4. q = r
  BY <1>1, <1>3 DEF IInv, RequestsOK
<1>5. \A at, value : Goes(r, at, value) => at = "selected" /\ value = "IDLE"
  <2> SUFFICES ASSUME NEW at, NEW value, Goes(r, at, value)
               PROVE  at = "selected" /\ value = "IDLE"
    OBVIOUS
  <2>1. request'[r] = [at |-> at, value |-> value]
    BY DEF Goes, IInv, RequestsOK
  <2>2. request'[r].at = at /\ request'[r].value = value
    BY <2>1
  <2> QED BY <1>1, <2>2
<1>6. EvaluateState(r)
  <2>1. request[r].at = "idle"
    BY DEF Idle
  <2>2. ~Transition(r) /\ ~TrackDurations(r) /\ ~EvaluationFails(r) /\ ~Advise(r)
        /\ ~UpdateAdvice(r)
    BY <2>1 DEF Transition, TrackDurations, EvaluationFails, Advise, UpdateAdvice
  <2>3. ~ReadGameState(r)
    BY <1>5 DEF ReadGameState
  <2> QED BY <1>2, <1>4, <2>2, <2>3
<1>7. PICK runtime \in Runtimes, scene \in Scenes : IdleRule(r, runtime, scene)
  <2>1. PICK runtime \in Runtimes, scene \in Scenes :
          \/ RuntimeRule(r, runtime) \/ PrizeRule(r, runtime, scene)
          \/ PlayingRule(r, runtime, scene) \/ PlayerRule(r, runtime, scene)
          \/ IdleRule(r, runtime, scene)
    BY <1>6 DEF EvaluateState
  <2>2. ~RuntimeRule(r, runtime) /\ ~PrizeRule(r, runtime, scene)
        /\ ~PlayingRule(r, runtime, scene)
    BY <1>5 DEF RuntimeRule, PrizeRule, PlayingRule
  <2>3. ~PlayerRule(r, runtime, scene)
    <3> DEFINE named == IF playerCount \notin {0, scene.players}
                        THEN "PLAYER_COUNT_CHANGED" ELSE "PLAYER_PRESENT"
    <3>1. named # "IDLE"
      OBVIOUS
    <3> HIDE DEF named
    <3>2. ~Goes(r, "selected", named)
      BY <1>5, <3>1
    <3> QED BY <3>2 DEF PlayerRule, named
  <2> QED BY <2>1, <2>2, <2>3
<1>8. ~RecentlySeen
  BY <1>5, <1>7 DEF IdleRule
<1> QED BY <1>8, Limits DEF RecentlySeen, IInv, PlayersOK, Ages

\* Only Advise turns a request that has tracked into one that has advised.
LEMMA AdvisesReady ==
  ASSUME IInv, Next, NEW r \in Requests,
         request[r].at = "tracked", Carries(r, "advised", "READY_TO_START")'
  PROVE  absenceRead = ReadyWindow
<1>1. request'[r] = [at |-> "advised", value |-> "READY_TO_START"]
      /\ request'[r].at = "advised" /\ request'[r].value = "READY_TO_START"
      /\ request'[r] # request[r]
  BY DEF Carries
<1>2. PICK q \in Requests :
        \/ EvaluateState(q) \/ Transition(q) \/ ReadGameState(q) \/ TrackDurations(q)
        \/ EvaluationFails(q) \/ Advise(q) \/ UpdateAdvice(q)
  BY <1>1 DEF Next, Tick, FirstDetection
<1>3. \E new : request' = [request EXCEPT ![q] = new]
  BY <1>2 DEF EvaluateState, RuntimeRule, PrizeRule, PlayingRule, PlayerRule, IdleRule,
              Transition, ReadGameState, TrackDurations, EvaluationFails, Advise,
              UpdateAdvice, Goes
<1>4. q = r
  BY <1>1, <1>3 DEF IInv, RequestsOK
<1>5. Advise(r)
  <2>1. request[r] # Idle
    BY DEF Idle
  <2>2. ~EvaluateState(r) /\ ~Transition(r) /\ ~ReadGameState(r) /\ ~TrackDurations(r)
        /\ ~EvaluationFails(r) /\ ~UpdateAdvice(r)
    BY <2>1 DEF EvaluateState, Transition, ReadGameState, TrackDurations,
                EvaluationFails, UpdateAdvice
  <2> QED BY <1>2, <1>4, <2>2
<1>6. PICK fault \in BOOLEAN : Goes(r, "advised", Advice(request[r].value, fault))
  BY <1>5 DEF Advise
<1>7. Advice(request[r].value, fault) = "READY_TO_START"
  <2> DEFINE a == Advice(request[r].value, fault)
  <2> HIDE DEF a
  <2>1. request'[r] = [at |-> "advised", value |-> a]
    BY <1>6 DEF Goes, IInv, RequestsOK, a
  <2>2. request'[r].value = a
    BY <2>1
  <2> QED BY <1>1, <2>2 DEF a
<1>8. Ripe(presentFor, ReadyWindow)
  BY <1>7 DEF Advice
<1> QED BY <1>8, Limits DEF Ripe, IInv, PresenceOK, Ages

-----------------------------------------------------------------------------
\* IDLE is selected only when every request that counted players for
\* idle_timeout_seconds found none.
THEOREM IdleEarned == Spec => IdleIsEarned
<1>1. IInv /\ [Next]_vars =>
        [\A r \in Requests :
           (request[r] = Idle /\ Carries(r, "selected", "IDLE")')
             => playerShown \in {Never, IdleTimeout}]_vars
  BY SelectsIdle
<1> QED BY <1>1, Inductive, PTL DEF Spec, IdleIsEarned

\* READY_TO_START is advised only when no evaluation has seen another state for
\* player_ready_seconds, whichever requests set and cleared the shared timer.
THEOREM ReadyEarned == Spec => ReadyIsEarned
<1>1. IInv /\ [Next]_vars =>
        [\A r \in Requests :
           (request[r].at = "tracked" /\ Carries(r, "advised", "READY_TO_START")')
             => absenceRead = ReadyWindow]_vars
  BY AdvisesReady
<1> QED BY <1>1, Inductive, PTL DEF Spec, ReadyIsEarned
=============================================================================
