SPECIFICATION Spec
CONSTANTS
  Threads = {t1, t2}
  Viewers = {v}
  NoThread = none
  NoCapture = noCapture
  MaxFrames = 3
INVARIANT OneThreadPerService
PROPERTIES
  NothingGoesBack
  StoppedCameraIsReleased
