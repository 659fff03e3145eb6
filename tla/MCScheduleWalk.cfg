CONSTANTS
    WordBits = 14
    MaxDurationDays = 400
    Starts <- MCStarts
    Supplies = {1, 37, 40, 800}
    Periods = {1, 2, 12, 14}
    Horizon = 460
SPECIFICATION WalkSpec
INVARIANTS
    WalkTypeOK
    PeriodsAgree
    FollowsCurve
    NeverAheadOfCurve
PROPERTIES
    ReleasedNeverShrinks
CHECK_DEADLOCK FALSE
