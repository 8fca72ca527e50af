SPECIFICATION FairSpec
CONSTANTS
    a = a
    b = b
    Batteries = {a, b}
    Calls = {}
    UserMay <- NoPairs
    SlotMay <- AllPairs
    GlobalMay = {"charge", "discharge"}
    Unsteady = {}
    MeterMayFail = TRUE
    MaxCrashes = 0
INVARIANT OrdersTracked
PROPERTY BlockStops
