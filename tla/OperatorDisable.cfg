SPECIFICATION FairOperatorSpec
CONSTANTS
  Percents <- MCPercents
  InitialPercents <- MCInitialPercents
  Durations <- MCDurations
  Startups <- MCStartups
  MinDuration = 1
  MaxDuration = 3
  MaxStartup = 1
  MaxGeneration = 2
  Faults <- MCNoFaults
  PlayLimit = 3
  PulseInterval = 1
  YHomingTimeout = 2
  XHomingTimeout = 2
  XHomingEnabled = FALSE
  Inputs <- MCInputs
  KeepsUp <- MCBothKeepUp
INVARIANT
  StopsForceZero
