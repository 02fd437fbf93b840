SPECIFICATION Spec
CONSTANTS
    SkillCadence = 2
    AdvisoryCadence = 2
    FieldBytes = 2
    Bound = 3
    None = None
    MaxTick = 4
    MaxRun = 2
    MaxPrompts = 2
    MaxStops = 1
INVARIANT OutboundTypeOK
INVARIANT MeasuredOnce
INVARIANT LedgerIsWhole
INVARIANT AdvisoriesAreInSequence
PROPERTY RestatementIsInert
CHECK_DEADLOCK FALSE
