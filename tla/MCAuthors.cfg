SPECIFICATION Spec
CONSTANTS
    NowcastInterval = 2
    ReplanInterval = 2
    Cost = 1
    PreRollTicks = 2
    Artefacts <- MCArtefacts
    Clean = Clean
    Other = Other
    Spoilt = Spoilt
    None = None
    MaxTick = 4
    MaxPrompts = 2
    MaxStops = 1
INVARIANT AuthorsTypeOK
INVARIANT NowcastIsFresh
INVARIANT ProvisionedOnce
INVARIANT InstanceIsForecast
INVARIANT PlanIsCurrent
PROPERTY StoreSpec
PROPERTY OpensOnArtefact
CHECK_DEADLOCK FALSE
