---------------------------- MODULE ScheduleWalk ----------------------------
(***************************************************************************)
(* The schedule day by day: one behaviour per choice of parameters, one    *)
(* step per calendar day, starting on the distribution start date.         *)
(***************************************************************************)
EXTENDS MintSchedule

CONSTANTS
    Starts,     \* distribution start dates
    Supplies,   \* values of MaxSupply
    Periods,    \* values of MonthsInHalvingPeriod
    Horizon     \* bound: days walked

ASSUME WalkAssumption ==
    /\ Starts \subseteq Date
    /\ Supplies \subseteq Word \ {0}
    /\ Periods \subseteq Nat \ {0}
    /\ Horizon \in Nat

VARIABLES
    firstDay, maxSupply, halvingMonths,   \* the parameters of the schedule
    blockDate,                            \* date of the block
    released                              \* what validateMintingLimits computes on it

walkVars == <<firstDay, maxSupply, halvingMonths, blockDate, released>>

WalkInit ==
    /\ firstDay \in Starts
    /\ maxSupply \in Supplies
    /\ halvingMonths \in Periods
    /\ blockDate = firstDay
    /\ released = totalDistributable(maxSupply, firstDay, halvingMonths, blockDate)

\* Block time moves on to the next day.
Tomorrow ==
    /\ DayNumber(blockDate) - DayNumber(firstDay) < Horizon
    /\ LET t == NextDay(blockDate)
       IN  /\ blockDate' = t
           /\ released' = totalDistributable(maxSupply, firstDay, halvingMonths, t)
    /\ UNCHANGED <<firstDay, maxSupply, halvingMonths>>

WalkSpec == WalkInit /\ [][Tomorrow]_walkVars

-----------------------------------------------------------------------------
Period == currentHalvingPeriod(firstDay, blockDate, halvingMonths)

\* The walk visits calendar dates only, and validateMintingLimits never
\* allows more than MaxSupply.
WalkTypeOK ==
    /\ firstDay \in Date /\ blockDate \in Date
    /\ maxSupply \in Word /\ halvingMonths \in Nat
    /\ released \in 0 .. maxSupply

\* Counting months (monthsBetween) and adding months (addMonths) agree on
\* which halving period a day belongs to, for month-end start dates too; so
\* the clamp of daysElapsed in validateMintingLimits never applies.
PeriodsAgree ==
    /\ InPeriod(firstDay, halvingMonths, blockDate, Period)
    /\ rawDaysElapsed(firstDay, blockDate, Period, halvingMonths)
           < daysInPeriod(firstDay, Period, halvingMonths)

\* The total validateMintingLimits allows is the release curve rounded down:
\* as long as the products fit into uint64 it is below the curve by less than
\* one token per rounding step.
FollowsCurve ==
    (/\ PeriodFits(firstDay, halvingMonths, Period)
     /\ ProductsFit(maxSupply, firstDay, halvingMonths, Period)) =>
        ~WithinCurve(released + Period + 1, maxSupply, firstDay, halvingMonths, blockDate, Period)

\* What the schedule allows is never above the curve, even when the product
\* periodYearlyLimit * daysElapsed wraps around in uint64.  A period too long
\* for time.Time.Sub is the exception: it is counted as a shorter one.
NeverAheadOfCurve ==
    PeriodFits(firstDay, halvingMonths, Period) =>
        WithinCurve(released, maxSupply, firstDay, halvingMonths, blockDate, Period)

\* A day later never allows less, as long as the products fit: minted supply
\* cannot come to exceed the total because time passes.
ReleasedNeverShrinks ==
    [][ProductsFit(maxSupply, firstDay, halvingMonths, Period) => released' >= released]_walkVars

=============================================================================
