SPECIFICATION Spec
CONSTANTS
    NowcastInterval = 2
    ReplanInterval = 2
    Cost = 1
    PreRollTicks = 2
    Artefacts <- MCArtefacts
    Clean = Clean
    Other = Other
    Spoilt = Spoilt
    None = None
    MaxTick = 4
    MaxPrompts = 2
    MaxStops = 1
CHECK_DEADLOCK FALSE
INVARIANT FieldsAreSound
