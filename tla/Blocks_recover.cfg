SPECIFICATION FairSpec
CONSTANTS
    a = a
    b = b
    Batteries = {a}
    Calls = {"u"}
    UserMay <- OnePair
    SlotMay <- OnePair
    GlobalMay = {}
    Unsteady = {a}
    MeterMayFail = TRUE
    MaxCrashes = 1
INVARIANT TurnOffHolds
PROPERTY DispatchRecovers
