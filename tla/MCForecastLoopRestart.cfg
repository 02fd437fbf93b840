SPECIFICATION Spec
CONSTANTS
    MinInterval = 2
    MaxInterval = 3
    ReleaseMargin = 1
    Lifetime = 6
    MaxTick = 7
    None = None
    Cost = 1
    RestateEvery = 3
    MaxStops = 1
PROPERTY IdentifiersMoveForward
CHECK_DEADLOCK FALSE
