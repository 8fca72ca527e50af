SPECIFICATION Spec
CONSTANTS
  PsModes = {"dynamic", "realtime", "time_slot"}
  PsDay = 4
  PsEnd = 5
  PsNegative = {2}
  PsWindow = {2, 3}
  PsQuota = 2
  PsMaxPlans = 2
  PpN = 4
  PpNets <- PlanNets
  PpPrices = {1, 2}
  PpCapacity = 4
  PpInitial = {0, 1}
  PpRequired = {2, 4}
  PpPower = 2
  PpBlock = 2
  PpHours = {0, 1, 2, 3, 5}
  AhN = 4
  AhPrices = {1, 2, 3}
  AhSuns = {0, 2}
  AhPower = 2
  AhNeeds = {1, 4}
  AhSpaces = {3}
  AhSaving = 1
  AhMaxUpsets = 1
  RpN = 4
  RpPrices = {1, 2, 3}
  RpNets <- ReserveNets
  RpCapacity = 3
  RpLevels = {2, 3}
  RpSaving = 0
  RpMaxUpsets = 1
  HxN = 4
  HxKinds <- SaleKinds
  HxTails = {2}
  HxFills <- RefillsToTry
  HxLevels = {2, 5}
  HxCapacity = 5
  HxPower = 3
  HxCeiling = 2
  HxCost = 0
  HxMargin = 0
  HxMaxUpsets = 1
  CuN = 4
  CuKinds <- CurtailKinds
  CuCapacity = 6
  CuFloor = 1
  CuCharge = 3
  CuDischarge = 3
  CuMargin = 0
  CuModes = {"self_consumption", "automatic", "custom"}
  CuExport = 1
  CuLevels = {2, 6}
  CuMaxUpsets = 1
  HbModes = {"power", "counter"}
  HbPowers <- ImportAndExport
  HbTicks = 4
  HbEnd = 7
  HbRamp = 2
  HbForce = 2
  HbMin = 1
  HbCap = 5
  HbHyst = 2
  HbDeadband = 0
  HbMaxUpsets = 2
  ShPhase <- PackPhase
  ShMax <- PackMost
  ShWeight <- PackWeight
  ShLimit <- PhaseLimit
  ShAct = 60
  ShJoin = 70
  ShDrop = 50
  ShHold = 1
  ShBases <- PhaseBases
  ShAsks = {0, 2, 5}
  ShMaxUpsets = 2
  DrBrands = {"marstek", "anker", "esphome"}
  DrSlots = {1, 2, 3}
  DrTries = 3
  DrZeros = 3
  DrStale = 2
  DrMaxUpsets = 3
  TcConfirm = 2
  TcWait = 2
  CdBatteries = {a, b}
  CdDays <- DaysToTry
  CdHours = 8
  CdDawn = 2
  CdFallback = 4
  CdNoon = 8
  CdMargin = 1
  CdLastDay = 1
  CdMaxUpsets = 1
INVARIANTS PlansKept PricesPay HourBalanced SharesSound RetriedOnce DelaySound ReadingsTrue
PROPERTY WaitingLosesNothing
CHECK_DEADLOCK FALSE
