---------------------------- MODULE MintSchedule ----------------------------
(***************************************************************************)
(* The halving schedule of x/distro: how many tokens may exist on a given  *)
(* day, as validateMintingLimits computes it.  Half of the maximum supply  *)
(* is released evenly over the days of the first period, half of the rest  *)
(* over the second, and so on.                                             *)
(***************************************************************************)
EXTENDS Calendar

CONSTANTS
    WordBits,         \* width of uint64 (64 in the code)
    MaxDurationDays   \* whole days in the longest time.Duration (106751)

ASSUME WidthAssumption ==
    /\ WordBits \in Nat \ {0}
    /\ MaxDurationDays \in Nat \ {0}

Word == 0 .. 2^WordBits - 1
Wrap(x) == x % 2^WordBits

\* uint64(b.Sub(a).Hours()/24) for two dates a <= b: Sub saturates.
DaysBetween(dayA, dayB) ==
    IF dayB - dayA > MaxDurationDays THEN MaxDurationDays ELSE dayB - dayA

\* A bug: the first period releases everything.
halvingPeriodLimit_unhalved(maxSupply, period) ==
    IF period = 0 \/ period > WordBits THEN 0 ELSE maxSupply \div 2^(period - 1)

\* Tokens released during one halving period; periods count from 1.
halvingPeriodLimit(maxSupply, period) ==
    IF period = 0 \/ period > WordBits THEN 0
    ELSE (maxSupply \div 2^(period - 1)) \div 2

\* A bug: the loop stops one period early.
EarlierPeriods_short(maxSupply, period) ==
    LET total[p \in 0 .. period - 1] ==
            IF p = 0 \/ p = period - 1 THEN 0
            ELSE Wrap(total[p - 1] + halvingPeriodLimit(maxSupply, p))
    IN  IF period < 2 THEN 0 ELSE total[period - 2]

\* The loop over the periods that have ended.
EarlierPeriods(maxSupply, period) ==
    LET total[p \in 0 .. period - 1] ==
            IF p = 0 THEN 0
            ELSE Wrap(total[p - 1] + halvingPeriodLimit(maxSupply, p))
    IN  total[period - 1]

currentHalvingPeriod(start, target, monthsInPeriod) ==
    1 + monthsBetween(start, target) \div monthsInPeriod

\* First day of a period.
periodStart(start, period, monthsInPeriod) ==
    addMonths(start, (period - 1) * monthsInPeriod)

\* A bug: the last day of the period is not counted.
daysInPeriod_short(start, period, monthsInPeriod) ==
    LET periodEnd == DayNumber(periodStart(start, period + 1, monthsInPeriod)) - 1
    IN  DaysBetween(DayNumber(periodStart(start, period, monthsInPeriod)), periodEnd)

\* periodEnd is the day before the next period starts.
daysInPeriod(start, period, monthsInPeriod) ==
    LET periodEnd == DayNumber(periodStart(start, period + 1, monthsInPeriod)) - 1
    IN  1 + DaysBetween(DayNumber(periodStart(start, period, monthsInPeriod)), periodEnd)

\* Before the clamp to daysInPeriod.
rawDaysElapsed(start, target, period, monthsInPeriod) ==
    DaysBetween(DayNumber(periodStart(start, period, monthsInPeriod)), DayNumber(target))

daysElapsed(start, target, period, monthsInPeriod) ==
    LET days == rawDaysElapsed(start, target, period, monthsInPeriod)
        all  == daysInPeriod(start, period, monthsInPeriod)
    IN  IF days > all THEN all ELSE days

\* The total of validateMintingLimits, for a target date that is not before
\* the start date and monthsInPeriod > 0.
totalDistributable(maxSupply, start, monthsInPeriod, target) ==
    LET period  == currentHalvingPeriod(start, target, monthsInPeriod)
        limit   == halvingPeriodLimit(maxSupply, period)
        elapsed == daysElapsed(start, target, period, monthsInPeriod)
        days    == daysInPeriod(start, period, monthsInPeriod)
        current == Wrap(limit * elapsed) \div days
    IN  IF days = 0 THEN EarlierPeriods(maxSupply, period)
        ELSE Wrap(EarlierPeriods(maxSupply, period) + current)

-----------------------------------------------------------------------------
(***************************************************************************)
(* The reference the code is compared with: the exact release curve, as a  *)
(* fraction.  Period boundaries are found by looking for them, not by      *)
(* counting months.                                                        *)
(***************************************************************************)

\* Target lies in period k: on or after its first day, before the next one's.
InPeriod(start, monthsInPeriod, target, k) ==
    /\ ~Before(target, periodStart(start, k, monthsInPeriod))
    /\ Before(target, periodStart(start, k + 1, monthsInPeriod))

\* No duration within period k is longer than time.Time.Sub can return.
PeriodFits(start, monthsInPeriod, k) ==
    DayNumber(periodStart(start, k + 1, monthsInPeriod))
        - DayNumber(periodStart(start, k, monthsInPeriod)) <= MaxDurationDays + 1

\* No product of the limit of period k and a number of its days wraps around.
ProductsFit(maxSupply, start, monthsInPeriod, k) ==
    halvingPeriodLimit(maxSupply, k) * daysInPeriod(start, k, monthsInPeriod) \in Word

\* amount tokens are no more than the curve has released on target, in
\* period k: amount <= maxSupply*(1 - 1/2^(k-1)) + maxSupply/2^k * elapsed/days.
WithinCurve(amount, maxSupply, start, monthsInPeriod, target, k) ==
    LET first == DayNumber(periodStart(start, k, monthsInPeriod))
        days  == DayNumber(periodStart(start, k + 1, monthsInPeriod)) - first
        gone  == DayNumber(target) - first
    IN  amount * 2^k * days <= maxSupply * ((2^k - 2) * days + gone)

=============================================================================
