SPECIFICATION Spec
CONSTANTS
    MaxNumValidators = 2
    MaxRuns = 1
    Args <- MCTwoNodes
    AccStakingTokens = 5
    DefaultValTokens = 1
    None = None
    TornKey = TornKey
INVARIANTS
    FlagsTakeEffect
CHECK_DEADLOCK FALSE
