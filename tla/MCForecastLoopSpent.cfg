SPECIFICATION Spec
CONSTANTS
    MinInterval = 2
    MaxInterval = 3
    ReleaseMargin = 2
    Lifetime = 6
    MaxTick = 7
    None = None
    Cost = 2
    RestateEvery = 3
    MaxStops = 1
PROPERTY PublishedOnceSpent
CHECK_DEADLOCK FALSE
