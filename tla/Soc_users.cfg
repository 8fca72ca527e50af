SPECIFICATION Spec
CONSTANTS
    Top = 5
    Lags = {0}
    Targets = {3, 5}
    Floors = {1, 2}
    Caps = {2, 5}
    SlotFloors = {3}
    Overrides = {"weekly"}
    Pct = 1
    Margin = 2
    Confirm = 2
    NearTop = 5
    Zone = 4
INVARIANT SeenEmptyStaysOut
PROPERTY NoLockout
