SPECIFICATION Spec
CONSTANTS
    Top = 6
    Lags = {0, 1}
    Targets = {5}
    Floors = {1}
    Caps = {}
    SlotFloors = {}
    Overrides = {"weekly", "recal", "tobms", "retry"}
    Pct = 2
    Margin = 2
    Confirm = 2
    NearTop = 6
    Zone = 4
PROPERTY RechargeNeedsDrop
