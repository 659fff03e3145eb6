-------------------------- MODULE MCDistroSchedule --------------------------
EXTENDS DistroSchedule

CONSTANTS alice, bob, gov, distro, ugnod

D(y, m, d) == [year |-> y, month |-> m, day |-> d]

MCAccounts == {alice, bob, gov, distro}

MCSchedule ==
    [MintingAddress        |-> [form |-> "bech32", acct |-> alice],
     ReceivingAddress      |-> [form |-> "bech32", acct |-> bob],
     Denom                 |-> ugnod,
     MaxSupply             |-> 10,
     DistributionStartDate |-> [wellFormed |-> TRUE, date |-> D(2024, 12, 31)],
     MonthsInHalvingPeriod |-> 2]

\* The chain starts with nothing, or with three tokens sold beforehand.
MCGenesis ==
    {[params  |-> MCSchedule,
      supply  |-> [d \in {ugnod} |-> n],
      balance |-> [a \in MCAccounts |-> [d \in {ugnod} |-> IF a = bob THEN n ELSE 0]]] :
        n \in {0, 3}}

MCOperator == [form |-> "hex", acct |-> alice]

MCSigners == {MCOperator, [form |-> "bech32", acct |-> bob]}

\* The day before the start, the start, the middle and both sides of the
\* first boundary (February has no 31st), and the second boundary.
MCDates == {D(2024, 12, 30), D(2024, 12, 31), D(2025, 1, 30), D(2025, 2, 27),
            D(2025, 2, 28), D(2025, 4, 29), D(2025, 4, 30)}

ASSUME MCFixedSchedule == FixedSchedule

=============================================================================
