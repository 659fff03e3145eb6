CONSTANTS
    WordBits = 9
    MaxDurationDays = 400
    alice = alice
    bob = bob
    gov = gov
    distro = distro
    ugnod = ugnod
    BadDenom = bad
    Accounts <- MCAccounts
    ModuleAccounts = {gov, distro}
    Gov = gov
    DistroModule = distro
    Denoms = {ugnod}
    Genesis <- MCGenesis
    Signers <- MCSigners
    Amounts = {0, 1, 3}
    Proposals = {}
    OtherAmounts = {}
    Dates <- MCDates
    MaxMsgs = 2
    SupplyBound = 0
    Schedule <- MCSchedule
    Operator <- MCOperator
SPECIFICATION LiveSpec
PROPERTIES
    RefinesCappedIssuance
    ScheduleExhausted
