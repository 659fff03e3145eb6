SPECIFICATION Spec
CONSTANTS
    MaxNumValidators = 3
    MaxRuns = 3
    Args <- MCArgs
    AccStakingTokens = 5
    DefaultValTokens = 1
    None = None
    TornKey = TornKey
INVARIANTS
    GenesisMatchesKeys
    AppStatesAgree
    
    NodesCanConnect
CHECK_DEADLOCK FALSE
