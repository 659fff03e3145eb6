CONSTANTS
    n1 = n1
    n2 = n2
    submit = submit
    exec = exec
    reset = reset
    other = other
    Nodes = {n1, n2}
    groupMsgTypeURLs = {submit, exec}
    ResetMsg = reset
    OtherMsg = other
    UpgradeHeight = 2
    MaxHeight = 3
SPECIFICATION LiveSpec
INVARIANTS
    UpgradedByHeight
PROPERTIES
    RightBinaryCommits
    GroupStaysDisabled
    EveryNodePasses
