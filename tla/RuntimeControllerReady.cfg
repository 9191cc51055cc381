SPECIFICATION ControllerSpec
CONSTANTS
  Percents <- MCPercents
  InitialPercents <- MCInitialPercents
  Durations <- MCDurations
  Startups <- MCStartups
  MinDuration = 1
  MaxDuration = 1
  MaxStartup = 1
  MaxGeneration = 3
  Faults <- MCWriteFaults
INVARIANT
  GateWaitsForReady
