SPECIFICATION Spec
CONSTANTS
    MinInterval = 3
    MaxInterval = 3
    ReleaseMargin = 1
    Lifetime = 4
    Costs <- MCCosts
    Dial <- MCDial
    MaxTick = 6
    None = None
PROPERTY NoTwoRunsCloser
