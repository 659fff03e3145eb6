------------------------------ MODULE Calendar ------------------------------
(***************************************************************************)
(* Calendar dates, as x/distro/keeper/msg_server_mint.go computes with     *)
(* them.  Every date the module handles is parsed from the layout          *)
(* "2006-01-02", so a time.Time is always midnight UTC and is modelled by  *)
(* its civil date.                                                         *)
(*                                                                         *)
(* addMonths and monthsBetween are translated from the source.  The other  *)
(* operators stand for what the code takes from Go's time package.         *)
(***************************************************************************)
EXTENDS Integers

IsLeap(y) == y % 4 = 0 /\ (y % 100 # 0 \/ y % 400 = 0)

\* time.Date(y, m+1, 0, ...).Day(): day 0 of the month after m.
LastDay(y, m) ==
    IF m = 2 THEN (IF IsLeap(y) THEN 29 ELSE 28)
    ELSE IF m \in {4, 6, 9, 11} THEN 30 ELSE 31

Date == {t \in [year : Nat, month : 1..12, day : 1..31] :
            t.day <= LastDay(t.year, t.month)}

\* a.Before(b)
Before(a, b) ==
    \/ a.year < b.year
    \/ a.year = b.year /\ a.month < b.month
    \/ a.year = b.year /\ a.month = b.month /\ a.day < b.day

\* Days from 0000-01-01 to the first of January of year y.
DaysBeforeYear(y) ==
    365 * y + (y + 3) \div 4 - (y + 99) \div 100 + (y + 399) \div 400

\* Days from the first of January to the first of month m.
DaysBeforeMonth(y, m) ==
    (367 * m - 362) \div 12
        - (IF m <= 2 THEN 0 ELSE IF IsLeap(y) THEN 1 ELSE 2)

\* Position of a date on the time line: b.Sub(a).Hours()/24 is the
\* difference of two day numbers.
DayNumber(t) ==
    DaysBeforeYear(t.year) + DaysBeforeMonth(t.year, t.month) + t.day - 1

\* t.AddDate(0, 0, 1): the day after t.
NextDay(t) ==
    IF t.day < LastDay(t.year, t.month) THEN [t EXCEPT !.day = @ + 1]
    ELSE IF t.month < 12
         THEN [year |-> t.year, month |-> t.month + 1, day |-> 1]
         ELSE [year |-> t.year + 1, month |-> 1, day |-> 1]

-----------------------------------------------------------------------------
(***************************************************************************)
(* The two date computations of the distro keeper.                         *)
(***************************************************************************)

\* Go's / and % on int truncate toward zero.
Quo(a, b) == IF a >= 0 THEN a \div b ELSE -((-a) \div b)
Rem(a, b) == a - b * Quo(a, b)

\* A bug: the day overflows into the next month, as in time.AddDate.
addMonths_overflow(t, months) ==
    LET index == t.month + months - 1
        y     == t.year + Quo(index, 12)
        m     == Rem(index, 12) + 1
        last  == LastDay(y, m)
    IN  IF t.day <= last THEN [year |-> y, month |-> m, day |-> t.day]
        ELSE [year |-> y, month |-> m + 1, day |-> t.day - last]

\* Add months calendar months to t; a day that the target month does not
\* have becomes that month's last day.
addMonths(t, months) ==
    LET index == t.month + months - 1
        m0    == Rem(index, 12) + 1
        y     == t.year + Quo(index, 12) - (IF m0 < 1 THEN 1 ELSE 0)
        m     == IF m0 < 1 THEN m0 + 12 ELSE m0
        last  == LastDay(y, m)
    IN  [year |-> y, month |-> m, day |-> IF t.day > last THEN last ELSE t.day]

\* A bug: the last day of a short month does not complete a month.
monthsBetween_noMonthEnd(start, end) ==
    LET months == (end.year - start.year) * 12 + end.month - start.month
        full   == IF end.day < start.day THEN months - 1 ELSE months
    IN  IF Before(end, start) THEN -1
        ELSE IF full < 0 THEN 0 ELSE full

\* Full calendar months from start to end, -1 when end lies before start.
monthsBetween(start, end) ==
    LET months       == (end.year - start.year) * 12 + end.month - start.month
        endIsLastDay == end.day = LastDay(end.year, end.month)
        full         == IF end.day < start.day /\ ~endIsLastDay
                        THEN months - 1 ELSE months
    IN  IF Before(end, start) THEN -1
        ELSE IF full < 0 THEN 0 ELSE full

=============================================================================
