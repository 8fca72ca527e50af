SPECIFICATION DevicesSpec
CONSTANTS
  RgLoads <- HouseLoads
  RgLimit = 4
  RgTaper = 2
  RgContract = 3
  RgPeak = 2
  RgDeadband = 1
  RgHyst = 2
  RgBand = 2
  RgRate = 3
  RgLeast = 0
  RgHoldPower = 1
  RgCross = 2
  RgDwell = 2
  RgShort = 2
  RgQuiet = 2
  RgMaxUpsets = 3
  DvBrands = {"marstek", "esphome", "zendure", "anker", "sessy", "hoymiles"}
  DvPowers <- CommandPowers
  DvMost = 2
  DvLess = 1
  DvLeast = 2
  DvWindows <- SocWindows
  DvMaxUpsets = 2
  HwSuns = {0, 2, 6}
  HwAsks <- SolarAsks
  HwPaths = {"direct", "service"}
  HwThreshold = 3
  HwHyst = 1
  HwDeadband = 5
  HwSettle = 1
  HwGap = 1
  HwProbe = 3
  HwWindow = 2
  HwRefresh = 4
  HwDuration = 6
  HwMaxUpsets = 2
INVARIANT DeviceObeys
  
CHECK_DEADLOCK FALSE
