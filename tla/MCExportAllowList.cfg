CONSTANTS
    v1 = v1
    v2 = v2
    d1 = d1
    d2 = d2
    d3 = d3
    Validators = {v1, v2}
    Delegations = {d1, d2, d3}
    validatorOf <- MCValidatorOf
    Unit = 3
    jailAllowedAddrs = {v1}
    BadAddr = BadAddr
    MaxValidators = 2
    Chains <- MCFewChains
SPECIFICATION LiveSpec
PROPERTIES
    ExportFinishes
CHECK_DEADLOCK FALSE
