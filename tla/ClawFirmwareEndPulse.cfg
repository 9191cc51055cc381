SPECIFICATION Spec
CONSTANTS
  PlayLimit = 7
  PulseInterval = 1
  YHomingTimeout = 6
  XHomingTimeout = 2
  XHomingEnabled = FALSE
  Inputs <- MCInputs
PROPERTY
  EndPulsesThrice
