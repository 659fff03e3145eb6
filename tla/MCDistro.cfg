CONSTANTS
    WordBits = 7
    MaxDurationDays = 400
    alice = alice
    bob = bob
    gov = gov
    distro = distro
    evm = evm
    ugnod = ugnod
    BadDenom = bad
    Accounts <- MCAccounts
    ModuleAccounts = {gov, distro, evm}
    Gov = gov
    DistroModule = distro
    Denoms = {ugnod}
    Genesis <- MCGenesis
    Signers <- MCSigners
    Amounts = {0, 1, 2}
    Proposals <- MCProposals
    OtherAmounts = {128}
    Dates <- MCDates
    MaxMsgs = 2
    SupplyBound = 130
SPECIFICATION Spec
INVARIANTS
    TypeOK
    ModuleAccountEmpty
PROPERTIES
    MintsObeyParams
    MintsFollowCurve
    ParamsChangeByGov
    ExportValidates
