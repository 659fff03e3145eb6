CONSTANTS
    n1 = n1
    n2 = n2
    minter = minter
    hop = hop
    escrow = escrow
    user = user
    evm = evm
    fees = fees
    Nodes = {n1, n2}
    Accounts <- MCAccounts
    ModuleAccounts = {evm, fees}
    EvmModule = evm
    FeeCollector = fees
    securityBurnAccounts <- MCBurnAccounts
    MinGasPriceHotfixHeight = 1
    SecurityBurnHeight = 2
    Balances <- MCBalances
    Inflation = 1
    Transfers <- MCTransfers
    LockedSets = {{}, {hop}}
    MaxHeight = 3
    MaxCrashes = 1
SPECIFICATION LiveSpec
INVARIANTS
    TypeOK
    Agreement
    BeginBlockerEffect
PROPERTIES
    SupplyLedger
    PanicsOnlyOnLocked
    EveryBlockCommitted
CHECK_DEADLOCK FALSE
