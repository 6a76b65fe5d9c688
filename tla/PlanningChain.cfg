SPECIFICATION HotSpec
CHECK_DEADLOCK FALSE
CONSTANTS
  ProductSeq <- MCProducts
  MachineSeq <- MCMachines
  FamilySeq <- MCFamilies
  FamilyOf <- MCFamilyOf
  Cycle <- MCCycle
  LastWeek = 2
  Regular = 48
  MaxOvertime = 24
  TimeScale = 2
  UnitsPerBatch = 2
  InitialInventory <- MCInitialInventory
  Forecasts <- MCForecasts
  MaxBatches = 3
  MaxRounds = 2
  Materials <- MCMaterials
  Bom <- MCBom
  OnHand <- MCOnHand
  OrderLot <- MCOrderLot
  LeadDays <- MCLeadDays
  SafetyStocks = {2}
  MaterialDelays = {0, 60}
  DailyTime <- MCDailyTime
  MaxSubBatches = 3
  HotQuantities = {5}
INVARIANTS
  SplitIsFair
  PlanFitsCapacity
  PublishedFiguresAgree
  OrdersCoverPlan
  LotsWaitForMaterial
  LotsCarryPlan
  AuditsRebuildLots
  ReplayKeepsTasks
