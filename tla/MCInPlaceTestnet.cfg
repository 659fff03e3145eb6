SPECIFICATION InPlaceSpec
CONSTANTS
    v1 = v1
    v2 = v2
    newcomer = newcomer
    alice = alice
    bob = bob
    gov = gov
    Accounts <- MCAccounts
    Unreadable = Unreadable
    Chains <- MCChains
    Operators <- MCOperators
    AccountLists <- MCAccountLists
    defaultCoins = 2
    MaxStarts = 3
INVARIANTS
    NeverHalts
    DiskStaysWhole
CHECK_DEADLOCK FALSE
