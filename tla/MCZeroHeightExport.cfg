CONSTANTS
    v1 = v1
    v2 = v2
    d1 = d1
    d2 = d2
    d3 = d3
    Validators = {v1, v2}
    Delegations = {d1, d2, d3}
    validatorOf <- MCValidatorOf
    Unit = 3
    jailAllowedAddrs = {}
    BadAddr = BadAddr
    MaxValidators = 2
    Chains <- MCChains
SPECIFICATION Spec
INVARIANTS
    ModuleAccountCovered
    RecordsConsistent
    ClaimsPaidFirst
CHECK_DEADLOCK FALSE
