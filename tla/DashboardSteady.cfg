SPECIFICATION FairSpec
CONSTANTS
  ann = ann
  Percents <- MCPercents
  InitialPercents <- MCInitialPercents
  Names = {ann}
  AiCounts <- MCAiCounts
  Targets <- MCOneTarget
  DefaultTarget = 1
  InitialModes <- MCEitherMode
  MaxPeople = 0
  MaxCredits = 1
  Faults <- MCNoFaults
INVARIANTS
  ManualPowerIsApplied
PROPERTIES
  ShownPlayEnds
