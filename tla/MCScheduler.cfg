SPECIFICATION Spec
CONSTANTS
    MinInterval = 2
    MaxInterval = 3
    ReleaseMargin = 1
    Lifetime = 4
    Costs <- MCCosts
    Dial <- MCDial
    MaxTick = 6
    None = None
INVARIANT TypeOK
PROPERTY IdentifiersUnique
PROPERTY IntervalKept
PROPERTY NeverBecalmed
PROPERTY HeldPromptAnswered
PROPERTY FloorYieldsToPrompt
