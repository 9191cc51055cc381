SPECIFICATION ControllerSpec
CONSTANTS
  Percents <- MCPercents
  InitialPercents <- MCInitialPercents
  Durations <- MCDurations
  Startups <- MCStartups
  MinDuration = 1
  MaxDuration = 2
  MaxStartup = 1
  MaxGeneration = 3
  Faults <- MCAllFaults
INVARIANTS
  TypeOK
  StoppedMeansReleased
  RunningIsSupervised
PROPERTIES
  GateOpensSafely
  NotCutShort
  ReleaseCarriesItsCode
  ImplementsBoundary
