SPECIFICATION Spec
CONSTANTS
  WkBatteries = {a, b}
  WkDeviceOwned = {b}
  WkCeilings = {8}
  WkTop = 10
  WkWeek = 2
  WkHandsOver = {a}
  WkMaxUpsets = 2
  WkEditsInLoop = FALSE
  GcLoads = {1, 4}
  GcCeiling = 2
  GcMargin = 1
  GcResume = 1
  GcMaxCharge = 2
  GcFloor = 1
  GcMaxDischarge = 3
  GcMaxUpsets = 3
  XlDevices = {1, 2}
  XlWithActivity = {2}
  XlCover = {2}
  XlPowers = {0, 2}
  XlSuns = {1, 4}
  XlHomes = {3}
  XlStep = 2
  XlHold = 3
  XlYield = 2
  XlReyield = 1
  XlProbe = 3
  XlEvPause = 2
  XlMaxUpsets = 2
  DdOrder <- LongDay
  DdDayAt <- LongDays
  DdActs = {"x"}
  DdPlans = {{"x"}}
  DdMaxUse = 1
  DdMaxUpsets = 2
INVARIANTS  SunShared HistoryIsTrue
PROPERTIES OneRunADay  HistoryIsKept 
CHECK_DEADLOCK FALSE
