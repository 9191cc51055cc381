SPECIFICATION Spec
CONSTANTS
  ann = ann
  Percents <- MCPercents
  InitialPercents <- MCInitialPercents
  Names = {ann}
  AiCounts <- MCOneAiCount
  Targets <- MCTargets
  DefaultTarget = 1
  InitialModes <- MCManual
  MaxPeople = 2
  MaxCredits = 2
  Faults <- MCAllFaults
INVARIANTS
  TypeOK
  ShownPlayIsReal
  MaintenanceIsIdle
  SystemActionsFindItIdle
