------------------------------- MODULE Vision -------------------------------
(***************************************************************************)
(* The vision service: a capture thread (CameraManager) that keeps the      *)
(* latest frame in FrameQueue, a detection thread (DetectionService with a  *)
(* YoloDetector) that keeps the latest result in DetectionCache, and the    *)
(* viewers of /vision/stream.  Both services are started and stopped by     *)
(* other threads: start() holds the service's lock, stop() holds nothing    *)
(* and gives up waiting for the thread after five seconds.                  *)
(*                                                                          *)
(* A frame is its sequence number; 0 is "no frame yet", and for a consumer  *)
(* "none seen yet".                                                         *)
(***************************************************************************)
EXTENDS Naturals, FiniteSets

CONSTANTS
  Threads,    \* thread identities; a thread that has ended may be reused
  Viewers,    \* clients of /vision/stream
  NoThread, NoCapture,
  MaxFrames   \* bound on the frames the camera delivers

ASSUME NothingAssumption ==
  NoThread \notin Threads /\ NoCapture \notin Threads /\ MaxFrames \in Nat

Services == {"camera", "detection"}

VARIABLES
  stop,      \* stop[s]: _stop_event of the service
  thread,    \* thread[s]: _thread of the service
  pc,        \* pc[s][t]: where thread t of the service is
  stopper,   \* the call of CameraManager.stop() in progress
  capture,   \* CameraManager._capture, named after the thread that opened it
  open,      \* the devices that are open
  status,    \* CameraManager._status
  latest,    \* FrameQueue._latest and _sequence
  seen,      \* last_sequence of each detection thread
  held,      \* the frame each detection thread works on
  model,     \* YoloDetector: _model and _load_error
  detected,  \* frame_id of DetectionCache's latest result
  shown      \* last_sequence of each viewer

cameraVars    == << capture, open, status, latest >>
detectionVars == << seen, held, model, detected >>
vars == << stop, thread, pc, stopper, cameraVars, detectionVars, shown >>

Captures == Threads \union {NoCapture}
Idle     == [at |-> "idle", held |-> NoCapture]

Init ==
  /\ stop = [s \in Services |-> FALSE]
  /\ thread = [s \in Services |-> NoThread]
  /\ pc = [s \in Services |-> [t \in Threads |-> "dead"]]
  /\ stopper = Idle
  /\ capture = NoCapture
  /\ open = {}
  /\ status = "disconnected"
  /\ latest = 0
  /\ seen = [t \in Threads |-> 0]
  /\ held = [t \in Threads |-> 0]
  /\ model = "unloaded"
  /\ detected = 0
  /\ shown = [v \in Viewers |-> 0]

Alive(s) == {t \in Threads : pc[s][t] # "dead"}

-----------------------------------------------------------------------------
(***************************************************************************)
(* start() and stop(), the same for both services; only the camera has a    *)
(* device to release.                                                       *)
(***************************************************************************)
\* Faulty variant: start() looks at the stop event instead of the thread.
IsAliveByEvent(s) == thread[s] # NoThread /\ ~stop[s] /\ pc[s][thread[s]] # "dead"

IsAlive(s) == thread[s] # NoThread /\ pc[s][thread[s]] # "dead"

Start(s) ==
  /\ ~IsAlive(s)
  /\ LET t == CHOOSE t \in Threads \ Alive(s) : TRUE
     IN  /\ Alive(s) # Threads
         /\ thread' = [thread EXCEPT ![s] = t]
         /\ pc' = [pc EXCEPT ![s][t] = "loop"]
         /\ seen' = IF s = "detection" THEN [seen EXCEPT ![t] = 0] ELSE seen
  /\ stop' = [stop EXCEPT ![s] = FALSE]
  /\ UNCHANGED << stopper, cameraVars, held, model, detected, shown >>

\* stop() of the detection service sets the event and waits, at most.
StopDetection ==
  /\ stop' = [stop EXCEPT !["detection"] = TRUE]
  /\ UNCHANGED << thread, pc, stopper, cameraVars, detectionVars, shown >>

StopCamera ==
  /\ stopper.at = "idle"
  /\ stop' = [stop EXCEPT !["camera"] = TRUE]
  /\ stopper' = [stopper EXCEPT !.at = "join"]
  /\ UNCHANGED << thread, pc, cameraVars, detectionVars, shown >>

\* join() returns because the thread has ended, or after its timeout.
StopJoined ==
  /\ stopper.at = "join"
  /\ stopper' = [at |-> "release", held |-> capture]
  /\ UNCHANGED << stop, thread, pc, cameraVars, detectionVars, shown >>

\* _release_capture in two steps: what it read may not be what it overwrites.
\* A device that nothing refers to any more is closed with its object.
StopReleases ==
  /\ stopper.at = "release"
  /\ stopper' = Idle
  /\ open' = open \ {stopper.held, capture}
  /\ capture' = NoCapture
  /\ UNCHANGED << stop, thread, pc, status, latest, detectionVars, shown >>

-----------------------------------------------------------------------------
At(s, t, label)   == pc[s][t] = label
Goes(s, t, label) == pc' = [pc EXCEPT ![s][t] = label]

FirstStep == [camera |-> "open", detection |-> "await"]

\* The head of the loop of either thread.
Loop(s, t) ==
  /\ At(s, t, "loop")
  /\ Goes(s, t, IF stop[s] THEN "dead" ELSE FirstStep[s])
  /\ UNCHANGED << stop, thread, stopper, cameraVars, detectionVars, shown >>

(***************************************************************************)
(* The capture thread: _run, _open_capture, _read_loop.  Every exception    *)
(* ends in "failed", whose handler marks the camera disconnected.           *)
(***************************************************************************)
\* Faulty variant: the frames are numbered from the start again.
OpenAnew(t) ==
  /\ At("camera", t, "open")
  /\ capture' = t
  /\ open' = open \union {t}
  /\ latest' = 0
  /\ Goes("camera", t, "probe")
  /\ UNCHANGED << stop, thread, stopper, status, detectionVars, shown >>

\* capture_factory opens the device, or raises.
OpenCapture(t) ==
  /\ At("camera", t, "open")
  /\ \/ /\ capture' = t
        /\ open' = open \union {t}
        /\ Goes("camera", t, "probe")
     \/ /\ Goes("camera", t, "failed")
        /\ UNCHANGED << capture, open >>
  /\ UNCHANGED << stop, thread, stopper, status, latest, detectionVars, shown >>

\* _capture.is_opened(): it may say no, and _capture may be None by now.
ProbeCapture(t) ==
  /\ At("camera", t, "probe")
  /\ \/ /\ capture # NoCapture
        /\ status' = "connected"
        /\ Goes("camera", t, "read")
     \/ /\ Goes("camera", t, "failed")
        /\ UNCHANGED status
  /\ UNCHANGED << stop, thread, stopper, capture, open, latest, detectionVars, shown >>

ReadBegins(t) ==
  /\ At("camera", t, "read")
  /\ Goes("camera", t, CASE stop["camera"] -> "release"
                         [] ~stop["camera"] /\ capture = NoCapture -> "failed"
                         [] OTHER -> "reading")
  /\ UNCHANGED << stop, thread, stopper, cameraVars, detectionVars, shown >>

\* read() gives a frame, which is encoded and put into the queue, ...
FrameArrives(t) ==
  /\ At("camera", t, "reading")
  /\ t \in open
  /\ latest < MaxFrames
  /\ latest' = latest + 1
  /\ Goes("camera", t, "read")
  /\ UNCHANGED << stop, thread, stopper, capture, open, status, detectionVars, shown >>

\* ... or nothing, or something that cannot be encoded.
ReadFails(t) ==
  /\ At("camera", t, "reading")
  /\ Goes("camera", t, "failed")
  /\ UNCHANGED << stop, thread, stopper, cameraVars, detectionVars, shown >>

MarkDisconnected(t) ==
  /\ At("camera", t, "failed")
  /\ status' = "disconnected"
  /\ Goes("camera", t, "release")
  /\ UNCHANGED << stop, thread, stopper, capture, open, latest, detectionVars, shown >>

\* Faulty variant: only a failed read releases the device.
ReleaseUnlessStopped(t) ==
  /\ At("camera", t, "release")
  /\ IF stop["camera"] THEN UNCHANGED << capture, open >>
     ELSE open' = open \ {capture, t} /\ capture' = NoCapture
  /\ Goes("camera", t, "wait")
  /\ UNCHANGED << stop, thread, stopper, status, latest, detectionVars, shown >>

\* The finally clause of _run.  One step: no other capture thread runs.
ReleaseCapture(t) ==
  /\ At("camera", t, "release")
  /\ open' = open \ {capture, t}
  /\ capture' = NoCapture
  /\ Goes("camera", t, "wait")
  /\ UNCHANGED << stop, thread, stopper, status, latest, detectionVars, shown >>

\* The reconnection delay ends, or the stop event cuts it short.
Reconnect(t) ==
  /\ At("camera", t, "wait")
  /\ Goes("camera", t, "loop")
  /\ UNCHANGED << stop, thread, stopper, cameraVars, detectionVars, shown >>

CaptureThread(t) ==
  \/ Loop("camera", t) \/ OpenCapture(t) \/ ProbeCapture(t) \/ ReadBegins(t)
  \/ FrameArrives(t) \/ ReadFails(t) \/ MarkDisconnected(t)
  \/ ReleaseCapture(t) \/ Reconnect(t)

-----------------------------------------------------------------------------
(***************************************************************************)
(* The detection thread.                                                    *)
(***************************************************************************)
IsNew(frame, last) == frame # 0 /\ frame # last

TakesLatest(t) ==
  /\ seen' = [seen EXCEPT ![t] = latest]
  /\ held' = [held EXCEPT ![t] = latest]

\* wait_for_next gives up after half a second, or finds a frame.
AwaitFrame(t) ==
  /\ At("detection", t, "await")
  /\ \/ Goes("detection", t, "loop") /\ UNCHANGED << seen, held >>
     \/ IsNew(latest, seen[t]) /\ TakesLatest(t) /\ Goes("detection", t, "pace")
  /\ UNCHANGED << stop, thread, stopper, cameraVars, model, detected, shown >>

\* Too early for the next inference: wait for it and take the newest frame
\* then, unless the stop event ends the wait.
Pace(t) ==
  /\ At("detection", t, "pace")
  /\ \/ Goes("detection", t, "detect") /\ UNCHANGED << seen, held >>
     \/ ~stop["detection"] /\ TakesLatest(t) /\ Goes("detection", t, "detect")
     \/ /\ stop["detection"] /\ Goes("detection", t, "dead")
        /\ held' = [held EXCEPT ![t] = 0]
        /\ UNCHANGED seen
  /\ UNCHANGED << stop, thread, stopper, cameraVars, model, detected, shown >>

\* The model is loaded by the first detection.  A failed load is remembered
\* and never tried again; decoding or predicting may fail for one frame.
Detect(t) ==
  /\ At("detection", t, "detect")
  /\ model' \in IF model = "unloaded" THEN {"loaded", "broken"} ELSE {model}
  /\ \/ model' = "loaded" /\ Goes("detection", t, "publish") /\ UNCHANGED held
     \/ Goes("detection", t, "loop") /\ held' = [held EXCEPT ![t] = 0]
  /\ UNCHANGED << stop, thread, stopper, cameraVars, seen, detected, shown >>

Publish(t) ==
  /\ At("detection", t, "publish")
  /\ detected' = held[t]
  /\ held' = [held EXCEPT ![t] = 0]
  /\ Goes("detection", t, "loop")
  /\ UNCHANGED << stop, thread, stopper, cameraVars, seen, model, shown >>

DetectionThread(t) ==
  Loop("detection", t) \/ AwaitFrame(t) \/ Pace(t) \/ Detect(t) \/ Publish(t)

\* mjpeg_frames: wait_for_next, then send the frame.
View(v) ==
  /\ IsNew(latest, shown[v])
  /\ shown' = [shown EXCEPT ![v] = latest]
  /\ UNCHANGED << stop, thread, pc, stopper, cameraVars, detectionVars >>

-----------------------------------------------------------------------------
StopGoesOn == StopJoined \/ StopReleases

Next ==
  \/ \E s \in Services : Start(s)
  \/ StopDetection \/ StopCamera \/ StopGoesOn
  \/ \E t \in Threads : CaptureThread(t) \/ DetectionThread(t)
  \/ \E v \in Viewers : View(v)

\* Threads run, and a read of the camera returns; nobody has to start or stop
\* anything.
Fairness ==
  /\ WF_vars(StopGoesOn)
  /\ \A t \in Threads : WF_vars(CaptureThread(t)) /\ WF_vars(DetectionThread(t))

Spec == Init /\ [][Next]_vars /\ Fairness

-----------------------------------------------------------------------------
(***************************************************************************)
(* Properties.                                                              *)
(***************************************************************************)
TypeOK ==
  /\ stop \in [Services -> BOOLEAN]
  /\ thread \in [Services -> Threads \union {NoThread}]
  /\ pc \in [Services -> [Threads ->
       {"dead", "loop", "open", "probe", "read", "reading", "failed", "release",
        "wait", "await", "pace", "detect", "publish"}]]
  /\ stopper \in [at : {"idle", "join", "release"}, held : Captures]
  /\ capture \in Captures /\ open \subseteq Threads
  /\ status \in {"connected", "disconnected"}
  /\ latest \in 0..MaxFrames /\ detected \in 0..MaxFrames
  /\ seen \in [Threads -> 0..MaxFrames] /\ held \in [Threads -> 0..MaxFrames]
  /\ model \in {"unloaded", "loaded", "broken"}
  /\ shown \in [Viewers -> 0..MaxFrames]

\* However start() and stop() overlap and whatever joins time out, a service
\* has at most one running thread, the one start() will look at next, and a
\* device is open only while that thread or a stop() has still to close it.
OneThreadPerService ==
  /\ TypeOK
  /\ \A s \in Services : Alive(s) \subseteq {thread[s]}
  /\ open \subseteq Alive("camera")

\* Results and pictures never go back in time: what is detected, and what a
\* viewer sees next, is never older than what came before.
NothingGoesBack ==
  [][detected' >= detected /\ \A v \in Viewers : shown'[v] >= shown[v]]_vars

\* A stopped camera is released: unless it is started again, its device ends
\* up closed and its thread dead, even when stop() has given up waiting.
StoppedCameraIsReleased ==
  <>[]stop["camera"] => <>[](open = {} /\ Alive("camera") = {})
=============================================================================
