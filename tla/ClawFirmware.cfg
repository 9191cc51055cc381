SPECIFICATION FairSpec
CONSTANTS
  PlayLimit = 7
  PulseInterval = 1
  YHomingTimeout = 6
  XHomingTimeout = 2
  XHomingEnabled = TRUE
  Inputs <- MCInputs
INVARIANTS
  StoppedIsStill
  PulseLocksControls
PROPERTIES
  FaultLatches
  StartPulsesThrice
  PlayIsBounded
