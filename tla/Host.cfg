SPECIFICATION Spec
CONSTANTS
  CfUnits = {"u", "v"}
  CfMakes <- BrandPairs
  CfHosts = {1, 2, 3}
  CfTimes = {1, 2}
  CfMaxSlots = 2
  CfMaxDevs = 2
  CfMaxMoves = 1
  CfMaxFlows = 1
  ElUnits = 2
  ElSerial = {1}
  ElBackup = {2}
  ElMaxRecs = 2
  ElMaxUpsets = 3
  DmEntities = {"x", "y"}
  DmMaxNew = 3
  DmMaxKills = 3
  DtDays = 3
  DtWindow = 2
  DtMaxUpsets = 2
  EuVersions = {1, 8, 12}
  EuMaxUpsets = 2
INVARIANTS EntryConsistent DownIsAtRest MoveSound TallySound UpgradeSound
PROPERTIES RecordsDurable HostSettles
CHECK_DEADLOCK FALSE
