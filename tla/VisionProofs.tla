---------------------------- MODULE VisionProofs ----------------------------
(***************************************************************************)
(* Proofs about Vision, for every number of threads, viewers and frames: a  *)
(* service has at most one running thread, only that thread's device is     *)
(* open, and neither results nor pictures go back in time.                  *)
(***************************************************************************)
EXTENDS Vision, TLAPS

Labels == {"dead", "loop", "open", "probe", "read", "reading", "failed", "release",
           "wait", "await", "pace", "detect", "publish"}

\* A capture thread whose device may be open; a detection thread with a frame.
Holding == {"probe", "read", "reading", "failed", "release"}
Working == {"pace", "detect", "publish"}

ThreadsOK ==
  /\ stop \in [Services -> BOOLEAN]
  /\ thread \in [Services -> Threads \union {NoThread}]
  /\ pc \in [Services -> [Threads -> Labels]]
  /\ \A s \in Services, t \in Threads : pc[s][t] # "dead" => t = thread[s]

CameraOK ==
  /\ stopper \in [at : {"idle", "join", "release"}, held : Captures]
  /\ capture \in Captures
  /\ open \subseteq Threads
  /\ status \in {"connected", "disconnected"}
  /\ \A t \in open : pc["camera"][t] \in Holding

FramesOK ==
  /\ latest \in 0..MaxFrames
  /\ detected \in 0..MaxFrames
  /\ seen \in [Threads -> 0..MaxFrames]
  /\ held \in [Threads -> 0..MaxFrames]
  /\ model \in {"unloaded", "loaded", "broken"}
  /\ shown \in [Viewers -> 0..MaxFrames]
  /\ detected <= latest
  /\ \A v \in Viewers : shown[v] <= latest
  /\ \A t \in Threads : held[t] <= latest
  /\ \A t \in Threads : pc["detection"][t] \in Working => detected <= held[t]

IInv == ThreadsOK /\ CameraOK /\ FramesOK

-----------------------------------------------------------------------------
LEMMA InitIInv == Init => IInv
<1> SUFFICES ASSUME Init PROVE IInv
  OBVIOUS
<1>1. ThreadsOK
  BY DEF Init, ThreadsOK, Services, Labels
<1>2. CameraOK
  BY DEF Init, CameraOK, Idle, Captures
<1>3. FramesOK
  <2>1. 0 \in 0..MaxFrames
    BY NothingAssumption
  <2>2. \A t \in Threads : pc["detection"][t] = "dead" /\ held[t] = 0
    BY DEF Init, Services
  <2>3. detected = 0 /\ latest = 0 /\ \A v \in Viewers : shown[v] = 0
    BY DEF Init
  <2> QED BY <2>1, <2>2, <2>3 DEF Init, FramesOK, Working
<1> QED BY <1>1, <1>2, <1>3 DEF IInv

(***************************************************************************)
(* A thread that runs moves on, and it is the one the service knows.        *)
(***************************************************************************)
LEMMA GoesLemma ==
  ASSUME ThreadsOK, NEW s \in Services, NEW t \in Threads, NEW label \in Labels,
         pc[s][t] # "dead", Goes(s, t, label), UNCHANGED << stop, thread >>
  PROVE  /\ ThreadsOK'
         /\ pc'[s][t] = label
         /\ \A u \in Threads : u # t => pc'[s][u] = pc[s][u]
         /\ \A r \in Services : r # s => pc'[r] = pc[r]
<1>1. pc' = [pc EXCEPT ![s] = [pc[s] EXCEPT ![t] = label]]
  BY DEF Goes
<1>2. pc[s] \in [Threads -> Labels]
  BY DEF ThreadsOK
<1>3. pc'[s] = [pc[s] EXCEPT ![t] = label] /\ \A r \in Services : r # s => pc'[r] = pc[r]
  BY <1>1 DEF ThreadsOK
<1>4. pc'[s] \in [Threads -> Labels] /\ pc'[s][t] = label
      /\ \A u \in Threads : u # t => pc'[s][u] = pc[s][u]
  BY <1>2, <1>3
<1>5. pc' \in [Services -> [Threads -> Labels]]
  BY <1>1, <1>3, <1>4 DEF ThreadsOK
<1>6. ASSUME NEW r \in Services, NEW u \in Threads, pc'[r][u] # "dead"
      PROVE  u = thread'[r]
  <2>1. CASE r = s
    BY <1>4, <1>6, <2>1 DEF ThreadsOK
  <2>2. CASE r # s
    BY <1>3, <1>6, <2>2 DEF ThreadsOK
  <2> QED BY <2>1, <2>2
<1> QED BY <1>3, <1>4, <1>5, <1>6 DEF ThreadsOK

LEMMA Names == "camera" \in Services /\ "detection" \in Services
BY DEF Services

\* A step of a capture thread that leaves the frames alone.
LEMMA FramesUntouched ==
  ASSUME FramesOK, UNCHANGED << latest, detectionVars, shown, pc["detection"] >>
  PROVE  FramesOK'
BY DEF FramesOK, detectionVars

-----------------------------------------------------------------------------
(***************************************************************************)
(* start() and stop().                                                      *)
(***************************************************************************)
LEMMA StartKeeps == ASSUME IInv, NEW s \in Services, Start(s) PROVE IInv'
<1> DEFINE t == CHOOSE t \in Threads \ Alive(s) : TRUE
<1>1. t \in Threads /\ pc[s][t] = "dead"
  BY DEF Start, Alive
<1>2. /\ thread' = [thread EXCEPT ![s] = t]
      /\ pc' = [pc EXCEPT ![s][t] = "loop"]
      /\ seen' = IF s = "detection" THEN [seen EXCEPT ![t] = 0] ELSE seen
  BY DEF Start
<1> HIDE DEF t
<1>3. \A u \in Threads : pc[s][u] = "dead"
  <2> SUFFICES ASSUME NEW u \in Threads, pc[s][u] # "dead" PROVE FALSE
    OBVIOUS
  <2>1. u = thread[s] /\ thread[s] # NoThread
    BY NothingAssumption DEF IInv, ThreadsOK
  <2> QED BY <2>1 DEF Start, IsAlive
<1>4. pc[s] \in [Threads -> Labels]
  BY DEF IInv, ThreadsOK
<1>5. /\ pc'[s] = [pc[s] EXCEPT ![t] = "loop"]
      /\ \A r \in Services : r # s => pc'[r] = pc[r]
  BY <1>2 DEF IInv, ThreadsOK
<1>6. /\ pc'[s] \in [Threads -> Labels] /\ pc'[s][t] = "loop"
      /\ \A u \in Threads : u # t => pc'[s][u] = "dead"
  BY <1>1, <1>3, <1>4, <1>5 DEF Labels
<1>7. ThreadsOK'
  <2>1. stop' \in [Services -> BOOLEAN]
    BY DEF Start, IInv, ThreadsOK
  <2>2. thread' \in [Services -> Threads \union {NoThread}] /\ thread'[s] = t
        /\ \A r \in Services : r # s => thread'[r] = thread[r]
    BY <1>1, <1>2 DEF IInv, ThreadsOK
  <2>3. pc' \in [Services -> [Threads -> Labels]]
    BY <1>2, <1>5, <1>6 DEF IInv, ThreadsOK
  <2>4. ASSUME NEW r \in Services, NEW u \in Threads, pc'[r][u] # "dead"
        PROVE  u = thread'[r]
    <3>1. CASE r = s
      BY <1>6, <2>2, <2>4, <3>1
    <3>2. CASE r # s
      BY <1>5, <2>2, <2>4, <3>2 DEF IInv, ThreadsOK
    <3> QED BY <3>1, <3>2
  <2> QED BY <2>1, <2>2, <2>3, <2>4 DEF ThreadsOK
<1>8. CameraOK'
  <2>1. UNCHANGED << stopper, cameraVars >>
    BY DEF Start
  <2>2. ASSUME NEW u \in open PROVE pc'["camera"][u] \in Holding
    <3>1. pc["camera"][u] \in Holding
      BY DEF IInv, CameraOK
    <3>2. s # "camera"
      BY <1>3, <3>1 DEF IInv, CameraOK, Holding
    <3>3. pc'["camera"] = pc["camera"]
      BY <1>5, <3>2, Names
    <3> QED BY <3>1, <3>3
  <2> QED BY <2>1, <2>2 DEF IInv, CameraOK, cameraVars
<1>9. FramesOK'
  <2>1. UNCHANGED << latest, detected, held, model, shown >>
    BY DEF Start, cameraVars
  <2>2. seen' \in [Threads -> 0..MaxFrames]
    <3>1. 0 \in 0..MaxFrames /\ seen \in [Threads -> 0..MaxFrames]
      BY NothingAssumption DEF IInv, FramesOK
    <3>2. [seen EXCEPT ![t] = 0] \in [Threads -> 0..MaxFrames]
      BY <3>1
    <3> QED BY <1>2, <3>1, <3>2
  <2>3. ASSUME NEW u \in Threads, pc'["detection"][u] \in Working
        PROVE  detected <= held[u]
    <3>1. s # "detection"
      BY <1>6, <2>3 DEF Working
    <3> QED BY <1>5, <2>3, <3>1, Names DEF IInv, FramesOK
  <2> QED BY <2>1, <2>2, <2>3 DEF IInv, FramesOK
<1> QED BY <1>7, <1>8, <1>9 DEF IInv

LEMMA StopKeeps ==
  ASSUME IInv, StopDetection \/ StopCamera \/ StopGoesOn
  PROVE  IInv'
<1>1. /\ UNCHANGED << thread, pc, status, latest, detectionVars, shown >>
      /\ stop' \in [Services -> BOOLEAN]
  BY DEF StopDetection, StopCamera, StopGoesOn, StopJoined, StopReleases, cameraVars,
         IInv, ThreadsOK
<1>2. ThreadsOK'
  BY <1>1 DEF IInv, ThreadsOK
<1>3. CameraOK'
  <2>1. CASE StopDetection
    BY <2>1 DEF StopDetection, cameraVars, IInv, CameraOK
  <2>2. CASE StopCamera
    <3>1. stopper' \in [at : {"idle", "join", "release"}, held : Captures]
      BY <2>2 DEF StopCamera, IInv, CameraOK
    <3> QED BY <2>2, <3>1 DEF StopCamera, cameraVars, IInv, CameraOK
  <2>3. CASE StopJoined
    BY <2>3 DEF StopJoined, cameraVars, IInv, CameraOK
  <2>4. CASE StopReleases
    <3>1. open' \subseteq open /\ capture' \in Captures
          /\ stopper' \in [at : {"idle", "join", "release"}, held : Captures]
      BY <2>4 DEF StopReleases, Idle, Captures
    <3> QED BY <1>1, <3>1 DEF IInv, CameraOK
  <2> QED BY <2>1, <2>2, <2>3, <2>4 DEF StopGoesOn
<1>4. FramesOK'
  BY <1>1, FramesUntouched DEF IInv
<1> QED BY <1>2, <1>3, <1>4 DEF IInv

-----------------------------------------------------------------------------
(***************************************************************************)
(* The capture thread.                                                      *)
(***************************************************************************)
\* Any step of a capture thread leaves the threads and, but for the frame it
\* adds, the frames in order; only it has to account for the devices.
LEMMA CaptureStep ==
  ASSUME IInv, NEW t \in Threads, NEW label \in Labels,
         pc["camera"][t] # "dead", Goes("camera", t, label),
         UNCHANGED << stop, thread, stopper, latest, detectionVars, shown >>,
         capture' \in Captures, status' \in {"connected", "disconnected"},
         open' \subseteq open \/ open' \subseteq {t} \cup open,
         t \in open' => label \in Holding
  PROVE  IInv'
<1>1. /\ ThreadsOK' /\ pc'["camera"][t] = label
      /\ \A u \in Threads : u # t => pc'["camera"][u] = pc["camera"][u]
      /\ pc'["detection"] = pc["detection"]
  BY Names, GoesLemma DEF IInv
<1>2. FramesOK'
  BY <1>1, FramesUntouched DEF IInv
<1>3. ASSUME NEW u \in open' PROVE u \in Threads /\ pc'["camera"][u] \in Holding
  BY <1>1, <1>3 DEF IInv, CameraOK
<1>4. CameraOK'
  BY <1>3 DEF IInv, CameraOK
<1> QED BY <1>1, <1>2, <1>4 DEF IInv

LEMMA LoopKeeps ==
  ASSUME IInv, NEW s \in Services, NEW t \in Threads, Loop(s, t)
  PROVE  IInv'
<1> DEFINE label == IF stop[s] THEN "dead" ELSE FirstStep[s]
<1>1. /\ pc[s][t] = "loop" /\ Goes(s, t, label)
      /\ UNCHANGED << stop, thread, stopper, cameraVars, detectionVars, shown >>
  BY DEF Loop, At
<1>2. label \in Labels /\ label \notin Working
  BY DEF FirstStep, Labels, Working, Services
<1> HIDE DEF label
<1>3. CASE s = "camera"
  <2>1. t \notin open
    BY <1>1, <1>3 DEF IInv, CameraOK, Holding
  <2> QED BY <1>1, <1>2, <1>3, <2>1, CaptureStep DEF cameraVars, IInv, CameraOK
<1>4. CASE s = "detection"
  <2>1. /\ ThreadsOK' /\ pc'["detection"][t] = label
        /\ \A u \in Threads : u # t => pc'["detection"][u] = pc["detection"][u]
        /\ pc'["camera"] = pc["camera"]
    BY <1>1, <1>2, <1>4, Names, GoesLemma DEF IInv
  <2>2. CameraOK'
    BY <1>1, <2>1 DEF cameraVars, IInv, CameraOK
  <2>3. FramesOK'
    BY <1>1, <1>2, <2>1 DEF cameraVars, detectionVars, IInv, FramesOK
  <2> QED BY <2>1, <2>2, <2>3 DEF IInv
<1> QED BY <1>3, <1>4 DEF Services

\* A frame has the next number, so nothing that refers to earlier ones changes.
LEMMA FrameArrivesKeeps ==
  ASSUME IInv, NEW t \in Threads, FrameArrives(t)
  PROVE  IInv'
<1>1. "read" \in Labels /\ pc["camera"][t] # "dead" /\ Goes("camera", t, "read")
  BY DEF FrameArrives, At, Labels
<1>2. /\ ThreadsOK' /\ pc'["camera"][t] = "read"
      /\ \A u \in Threads : u # t => pc'["camera"][u] = pc["camera"][u]
      /\ pc'["detection"] = pc["detection"]
  BY <1>1, Names, GoesLemma DEF IInv, FrameArrives
<1>3. CameraOK'
  <2>1. \A u \in open : pc'["camera"][u] \in Holding
    BY <1>2 DEF IInv, CameraOK, Holding
  <2> QED BY <2>1 DEF FrameArrives, IInv, CameraOK
<1>4. FramesOK'
  <2>1. latest \in Nat /\ latest' = latest + 1 /\ latest' \in 0..MaxFrames
    BY NothingAssumption DEF FrameArrives, IInv, FramesOK
  <2>2. UNCHANGED << detectionVars, shown >>
    BY DEF FrameArrives
  <2>3. detected \in Nat /\ (\A v \in Viewers : shown[v] \in Nat)
        /\ \A u \in Threads : held[u] \in Nat
    BY NothingAssumption DEF IInv, FramesOK
  <2>4. detected <= latest' /\ (\A v \in Viewers : shown[v] <= latest')
        /\ \A u \in Threads : held[u] <= latest'
    BY <2>1, <2>3 DEF IInv, FramesOK
  <2> QED BY <1>2, <2>1, <2>2, <2>4 DEF detectionVars, IInv, FramesOK
<1> QED BY <1>2, <1>3, <1>4 DEF IInv

LEMMA CaptureThreadKeeps ==
  ASSUME IInv, NEW t \in Threads, CaptureThread(t)
  PROVE  IInv'
<1>1. capture \in Captures /\ status \in {"connected", "disconnected"}
      /\ t \in Captures /\ NoCapture \in Captures
  BY DEF IInv, CameraOK, Captures
<1>2. CASE Loop("camera", t)
  BY <1>2, Names, LoopKeeps
<1>3. CASE OpenCapture(t)
  <2>1. pc["camera"][t] = "open" /\ t \notin open
    BY <1>3 DEF OpenCapture, At, IInv, CameraOK, Holding
  <2>2. "probe" \in Labels \cap Holding /\ "failed" \in Labels \cap Holding
    BY DEF Labels, Holding
  <2> QED BY <1>1, <1>3, <2>1, <2>2, CaptureStep DEF OpenCapture
<1>4. CASE ProbeCapture(t)
  <2>1. pc["camera"][t] = "probe"
    BY <1>4 DEF ProbeCapture, At
  <2>2. "read" \in Labels \cap Holding /\ "failed" \in Labels \cap Holding
    BY DEF Labels, Holding
  <2> QED BY <1>1, <1>4, <2>1, <2>2, CaptureStep DEF ProbeCapture
<1>5. CASE ReadBegins(t)
  <2> DEFINE label == CASE stop["camera"] -> "release"
                        [] ~stop["camera"] /\ capture = NoCapture -> "failed"
                        [] OTHER -> "reading"
  <2>1. pc["camera"][t] = "read" /\ Goes("camera", t, label)
        /\ UNCHANGED << stop, thread, stopper, cameraVars, detectionVars, shown >>
    BY <1>5 DEF ReadBegins, At
  <2>2. label \in {"release", "failed", "reading"}
    OBVIOUS
  <2> HIDE DEF label
  <2>3. label \in Labels \cap Holding
    BY <2>2 DEF Labels, Holding
  <2> QED BY <1>1, <2>1, <2>3, CaptureStep DEF cameraVars
<1>6. CASE FrameArrives(t)
  BY <1>6, FrameArrivesKeeps
<1>7. CASE ReadFails(t)
  <2>1. pc["camera"][t] = "reading" /\ "failed" \in Labels \cap Holding
    BY <1>7 DEF ReadFails, At, Labels, Holding
  <2> QED BY <1>1, <1>7, <2>1, CaptureStep DEF ReadFails, cameraVars
<1>8. CASE MarkDisconnected(t)
  <2>1. pc["camera"][t] = "failed" /\ "release" \in Labels \cap Holding
    BY <1>8 DEF MarkDisconnected, At, Labels, Holding
  <2> QED BY <1>1, <1>8, <2>1, CaptureStep DEF MarkDisconnected
<1>9. CASE ReleaseCapture(t)
  <2>1. pc["camera"][t] = "release" /\ "wait" \in Labels /\ t \notin open'
    BY <1>9 DEF ReleaseCapture, At, Labels
  <2>2. open' \subseteq open
    BY <1>9 DEF ReleaseCapture
  <2> QED BY <1>1, <1>9, <2>1, <2>2, CaptureStep DEF ReleaseCapture
<1>10. CASE Reconnect(t)
  <2>1. pc["camera"][t] = "wait" /\ "loop" \in Labels /\ t \notin open
    BY <1>10 DEF Reconnect, At, Labels, IInv, CameraOK, Holding
  <2> QED BY <1>1, <1>10, <2>1, CaptureStep DEF Reconnect, cameraVars
<1> QED
  BY <1>2, <1>3, <1>4, <1>5, <1>6, <1>7, <1>8, <1>9, <1>10 DEF CaptureThread

-----------------------------------------------------------------------------
(***************************************************************************)
(* The detection thread.  There is one, so what it holds is newer than any  *)
(* result it or an earlier thread has published.                            *)
(***************************************************************************)
LEMMA DetectionStep ==
  ASSUME IInv, NEW t \in Threads, NEW label \in Labels,
         pc["detection"][t] # "dead", Goes("detection", t, label),
         UNCHANGED << stop, thread, stopper, cameraVars, shown >>,
         seen' \in [Threads -> 0..MaxFrames],
         NEW n \in 0..MaxFrames, n <= latest, held' = [held EXCEPT ![t] = n],
         model' \in {"unloaded", "loaded", "broken"},
         detected' \in {detected, n} \cup {held[t]},
         detected' <= latest,
         label \in Working => detected' = detected /\ detected <= n
  PROVE  IInv'
<1>1. /\ ThreadsOK' /\ pc'["detection"][t] = label
      /\ \A u \in Threads : u # t => pc'["detection"][u] = pc["detection"][u]
      /\ pc'["camera"] = pc["camera"]
  BY Names, GoesLemma DEF IInv
<1>2. CameraOK'
  BY <1>1 DEF cameraVars, IInv, CameraOK
<1>3. \A u \in Threads : u # t => pc["detection"][u] = "dead"
  BY Names DEF IInv, ThreadsOK
<1>4. held' \in [Threads -> 0..MaxFrames] /\ held'[t] = n
      /\ \A u \in Threads : u # t => held'[u] = held[u]
  BY DEF IInv, FramesOK
<1>5. latest' = latest /\ shown' = shown
  BY DEF cameraVars
<1>6. \A u \in Threads : pc'["detection"][u] \in Working => detected' <= held'[u]
  <2> SUFFICES ASSUME NEW u \in Threads, pc'["detection"][u] \in Working
               PROVE  detected' <= held'[u]
    OBVIOUS
  <2>1. u = t
    BY <1>1, <1>3 DEF Working
  <2> QED BY <1>1, <1>4, <2>1
<1>7. detected' \in 0..MaxFrames
  BY DEF IInv, FramesOK
<1>8. \A u \in Threads : held'[u] <= latest
  BY <1>4 DEF IInv, FramesOK
<1>9. FramesOK'
  BY <1>4, <1>5, <1>6, <1>7, <1>8 DEF IInv, FramesOK
<1> QED BY <1>1, <1>2, <1>9 DEF IInv

LEMMA DetectionThreadKeeps ==
  ASSUME IInv, NEW t \in Threads, DetectionThread(t)
  PROVE  IInv'
<1>1. /\ latest \in 0..MaxFrames /\ held[t] \in 0..MaxFrames /\ 0 \in 0..MaxFrames
      /\ held[t] <= latest /\ detected <= latest /\ 0 <= latest
      /\ held = [held EXCEPT ![t] = held[t]]
      /\ seen \in [Threads -> 0..MaxFrames]
      /\ model \in {"unloaded", "loaded", "broken"}
      /\ latest <= latest
  BY NothingAssumption DEF IInv, FramesOK
<1>2. [seen EXCEPT ![t] = latest] \in [Threads -> 0..MaxFrames]
  BY <1>1
<1>3. {"loop", "dead", "pace", "detect", "publish"} \subseteq Labels
      /\ "loop" \notin Working /\ "dead" \notin Working
  BY DEF Labels, Working
<1>4. CASE Loop("detection", t)
  BY <1>4, Names, LoopKeeps
<1>5. CASE AwaitFrame(t)
  <2>1. /\ pc["detection"][t] = "await"
        /\ UNCHANGED << stop, thread, stopper, cameraVars, model, detected, shown >>
    BY <1>5 DEF AwaitFrame, At
  <2>2. CASE Goes("detection", t, "loop") /\ UNCHANGED << seen, held >>
    BY <1>1, <1>3, <2>1, <2>2, DetectionStep
  <2>3. CASE TakesLatest(t) /\ Goes("detection", t, "pace")
    BY <1>1, <1>2, <1>3, <2>1, <2>3, DetectionStep DEF TakesLatest
  <2> QED BY <1>5, <2>2, <2>3 DEF AwaitFrame
<1>6. CASE Pace(t)
  <2>1. /\ pc["detection"][t] = "pace"
        /\ UNCHANGED << stop, thread, stopper, cameraVars, model, detected, shown >>
    BY <1>6 DEF Pace, At
  <2>2. CASE Goes("detection", t, "detect") /\ UNCHANGED << seen, held >>
    <3>1. detected <= held[t]
      BY <2>1 DEF IInv, FramesOK, Working
    <3> QED BY <1>1, <1>3, <2>1, <2>2, <3>1, DetectionStep
  <2>3. CASE TakesLatest(t) /\ Goes("detection", t, "detect")
    BY <1>1, <1>2, <1>3, <2>1, <2>3, DetectionStep DEF TakesLatest
  <2>4. CASE /\ Goes("detection", t, "dead") /\ held' = [held EXCEPT ![t] = 0]
             /\ UNCHANGED seen
    BY <1>1, <1>3, <2>1, <2>4, DetectionStep
  <2> QED BY <1>6, <2>2, <2>3, <2>4 DEF Pace
<1>7. CASE Detect(t)
  <2>1. /\ pc["detection"][t] = "detect"
        /\ UNCHANGED << stop, thread, stopper, cameraVars, seen, detected, shown >>
        /\ model' \in {"unloaded", "loaded", "broken"}
    BY <1>1, <1>7 DEF Detect, At
  <2>2. CASE Goes("detection", t, "publish") /\ UNCHANGED held
    <3>1. detected <= held[t]
      BY <2>1 DEF IInv, FramesOK, Working
    <3> QED BY <1>1, <1>3, <2>1, <2>2, <3>1, DetectionStep
  <2>3. CASE Goes("detection", t, "loop") /\ held' = [held EXCEPT ![t] = 0]
    BY <1>1, <1>3, <2>1, <2>3, DetectionStep
  <2> QED BY <1>7, <2>2, <2>3 DEF Detect
<1>8. CASE Publish(t)
  <2>1. /\ pc["detection"][t] = "publish"
        /\ UNCHANGED << stop, thread, stopper, cameraVars, seen, model, shown >>
        /\ Goes("detection", t, "loop") /\ held' = [held EXCEPT ![t] = 0]
        /\ detected' = held[t]
    BY <1>8 DEF Publish, At
  <2> QED BY <1>1, <1>3, <2>1, DetectionStep
<1> QED BY <1>4, <1>5, <1>6, <1>7, <1>8 DEF DetectionThread

LEMMA ViewKeeps ==
  ASSUME IInv, NEW v \in Viewers, View(v)
  PROVE  IInv'
<1>1. UNCHANGED << stop, thread, pc, stopper, cameraVars, detectionVars >>
      /\ shown' = [shown EXCEPT ![v] = latest]
  BY DEF View
<1>2. ThreadsOK' /\ CameraOK'
  BY <1>1 DEF cameraVars, IInv, ThreadsOK, CameraOK
<1>3. latest \in Nat /\ latest <= latest
  BY NothingAssumption DEF IInv, FramesOK
<1>4. shown' \in [Viewers -> 0..MaxFrames] /\ \A w \in Viewers : shown'[w] <= latest
  BY <1>1, <1>3 DEF IInv, FramesOK
<1>5. FramesOK'
  BY <1>1, <1>4 DEF cameraVars, detectionVars, IInv, FramesOK
<1> QED BY <1>2, <1>5 DEF IInv

LEMMA NextKeeps == IInv /\ [Next]_vars => IInv'
<1> SUFFICES ASSUME IInv, [Next]_vars PROVE IInv'
  OBVIOUS
<1>1. CASE \E s \in Services : Start(s)
  BY <1>1, StartKeeps
<1>2. CASE StopDetection \/ StopCamera \/ StopGoesOn
  BY <1>2, StopKeeps
<1>3. CASE \E t \in Threads : CaptureThread(t) \/ DetectionThread(t)
  BY <1>3, CaptureThreadKeeps, DetectionThreadKeeps
<1>4. CASE \E v \in Viewers : View(v)
  BY <1>4, ViewKeeps
<1>5. CASE UNCHANGED vars
  BY <1>5 DEF vars, cameraVars, detectionVars, IInv, ThreadsOK, CameraOK, FramesOK
<1> QED BY <1>1, <1>2, <1>3, <1>4, <1>5 DEF Next

\* Each service has one thread, whose device alone is open, and whatever is
\* held, published or shown is no newer than the latest frame.
THEOREM Inductive == Spec => []IInv
BY InitIInv, NextKeeps, PTL DEF Spec

\* However start() and stop() overlap, even where stop() has given up waiting,
\* no second capture or detection thread runs beside the first.
THEOREM OneThread == Spec => []OneThreadPerService
<1>1. IInv => OneThreadPerService
  <2> SUFFICES ASSUME IInv PROVE OneThreadPerService
    OBVIOUS
  <2>1. TypeOK
    BY DEF IInv, ThreadsOK, CameraOK, FramesOK, TypeOK, Labels
  <2>2. \A s \in Services : Alive(s) \subseteq {thread[s]}
    BY DEF IInv, ThreadsOK, Alive
  <2>3. open \subseteq Alive("camera")
    BY DEF IInv, CameraOK, Alive, Holding
  <2> QED BY <2>1, <2>2, <2>3 DEF OneThreadPerService
<1> QED BY <1>1, Inductive, PTL

\* A detection result replaces an older one, and a viewer's next picture is
\* newer than its last.
THEOREM ForwardOnly == Spec => NothingGoesBack
<1>1. IInv /\ [Next]_vars =>
        [detected' >= detected /\ \A v \in Viewers : shown'[v] >= shown[v]]_vars
  <2> SUFFICES ASSUME IInv, Next
               PROVE  detected' >= detected /\ \A v \in Viewers : shown'[v] >= shown[v]
    OBVIOUS
  <2>1. detected \in Nat /\ \A v \in Viewers : shown[v] \in Nat /\ latest >= shown[v]
    BY NothingAssumption DEF IInv, FramesOK
  <2>2. CASE \E t \in Threads : Publish(t)
    <3>1. PICK t \in Threads : Publish(t)
      BY <2>2
    <3>2. held[t] >= detected
      BY <3>1, NothingAssumption DEF Publish, At, Working, IInv, FramesOK
    <3> QED BY <2>1, <3>1, <3>2 DEF Publish
  <2>3. CASE \E v \in Viewers : View(v)
    <3>1. PICK v \in Viewers : View(v)
      BY <2>3
    <3>2. detected' = detected /\ shown' = [shown EXCEPT ![v] = latest]
      BY <3>1 DEF View, detectionVars
    <3>3. \A w \in Viewers : shown'[w] = IF w = v THEN latest ELSE shown[w]
      BY <3>2 DEF IInv, FramesOK
    <3> QED BY <2>1, <3>2, <3>3
  <2>4. CASE UNCHANGED << detected, shown >>
    BY <2>1, <2>4
  <2>5. \/ UNCHANGED << detected, shown >>
        \/ \E t \in Threads : Publish(t)
        \/ \E v \in Viewers : View(v)
    <3>1. ASSUME NEW s \in Services, Start(s) PROVE UNCHANGED << detected, shown >>
      BY <3>1 DEF Start
    <3>2. CASE StopDetection \/ StopCamera \/ StopGoesOn
      BY <3>2 DEF StopDetection, StopCamera, StopGoesOn, StopJoined, StopReleases,
                  detectionVars
    <3>3. ASSUME NEW t \in Threads, CaptureThread(t) PROVE UNCHANGED << detected, shown >>
      BY <3>3 DEF CaptureThread, Loop, OpenCapture, ProbeCapture, ReadBegins, FrameArrives,
                  ReadFails, MarkDisconnected, ReleaseCapture, Reconnect, detectionVars
    <3>4. ASSUME NEW t \in Threads, DetectionThread(t)
          PROVE  Publish(t) \/ UNCHANGED << detected, shown >>
      BY <3>4 DEF DetectionThread, Loop, AwaitFrame, Pace, Detect, detectionVars
    <3> QED BY <3>1, <3>2, <3>3, <3>4 DEF Next
  <2> QED BY <2>2, <2>3, <2>4, <2>5
<1> QED BY <1>1, Inductive, PTL DEF Spec, NothingGoesBack
=============================================================================
