--------------------------- MODULE MCScheduleWalk ---------------------------
EXTENDS ScheduleWalk

D(y, m, d) == [year |-> y, month |-> m, day |-> d]

\* Month ends of every length before a leap and a common February, a leap
\* day, a year end, and the default of x/distro/types/params.go.
MCStarts == {D(2023, 8, 31), D(2023, 11, 30), D(2024, 1, 29), D(2024, 1, 31),
             D(2024, 2, 29), D(2024, 12, 31), D(2025, 1, 30), D(2025, 7, 22)}

=============================================================================
