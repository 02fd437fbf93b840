SPECIFICATION Spec
CONSTANTS
    MinInterval = 2
    MaxInterval = 3
    ReleaseMargin = 2
    Lifetime = 7
    MaxTick = 9
    None = None
    Cost = 2
    RestateEvery = 3
    MaxStops = 2
INVARIANT LoopTypeOK
INVARIANT OutstandingIsAccountedFor
INVARIANT NeverLapses
PROPERTY SchedulerSpec
PROPERTY WatchdogSparesLiveRuns
INVARIANT SpreadMatchesBackground
PROPERTY ReplacedNeverReturns
CHECK_DEADLOCK FALSE
