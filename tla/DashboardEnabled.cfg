SPECIFICATION Spec
CONSTANTS
  ann = ann
  Percents <- MCPercents
  InitialPercents <- MCInitialPercents
  Names = {ann}
  AiCounts <- MCOneAiCount
  Targets <- MCOneTarget
  DefaultTarget = 1
  InitialModes <- MCManual
  MaxPeople = 1
  MaxCredits = 1
  Faults <- MCNoFaults
PROPERTIES
  EnabledByOperatorOnly
