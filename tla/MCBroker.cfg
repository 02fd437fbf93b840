SPECIFICATION Spec
CONSTANTS
    clock = clock
    planner = planner
    shell = shell
    Clients = {clock, planner, shell}
    MayPublish <- MCMayPublish
    MaySubscribe <- MCMaySubscribe
    Topics <- MCTopics
    Filters <- MCFilters
    None = None
    MaxPublished = 4
    MaxSubscriptions = 2
INVARIANT HeardInOrder
INVARIANT RulesAreKept
CHECK_DEADLOCK FALSE
