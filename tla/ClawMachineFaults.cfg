SPECIFICATION MachineSpec
CONSTANTS
  Percents <- MCOnePercent
  InitialPercents <- MCInitialPercents
  Durations <- MCDurations
  Startups <- MCNoStartup
  MinDuration = 1
  MaxDuration = 1
  MaxStartup = 0
  MaxGeneration = 2
  Faults <- MCFaults
  PlayLimit = 2
  PulseInterval = 1
  YHomingTimeout = 1
  XHomingTimeout = 2
  XHomingEnabled = FALSE
  Inputs <- MCHomeInputs
  KeepsUp <- MCNeitherKeepsUp
INVARIANTS
  EmergencyIsFinal
  NothingPlaysUnreported
  RunningMeansHeld
PROPERTY
  NothingAfterEmergency
