SPECIFICATION PsSpec
CONSTANTS
  PsModes = {"dynamic"}
  PsDay = 4
  PsEnd = 6
  PsNegative = {2}
  PsWindow = {2, 3}
  PsQuota = 2
  PsMaxPlans = 2
INVARIANT ChargeHasAnOwner
CHECK_DEADLOCK FALSE
