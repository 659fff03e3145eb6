------------------------------ MODULE MCDistro ------------------------------
EXTENDS Distro

CONSTANTS alice, bob, gov, distro, evm, ugnod

D(y, m, d) == [year |-> y, month |-> m, day |-> d]

Addr(f, a) == [form |-> f, acct |-> a]

On(y, m, d) == [wellFormed |-> TRUE, date |-> D(y, m, d)]

BadDate == [wellFormed |-> FALSE, date |-> D(2025, 1, 31)]

P(minter, receiver, denom, max, start, months) ==
    [MintingAddress        |-> minter,
     ReceivingAddress      |-> receiver,
     Denom                 |-> denom,
     MaxSupply             |-> max,
     DistributionStartDate |-> start,
     MonthsInHalvingPeriod |-> months]

MCAccounts == {alice, bob, gov, distro, evm}

NoCoins(params) ==
    [params  |-> params,
     supply  |-> [d \in {ugnod} |-> 0],
     balance |-> [a \in MCAccounts |-> [d \in {ugnod} |-> 0]]]

Good == P(Addr("bech32", alice), Addr("bech32", bob), ugnod, 8, On(2025, 1, 31), 1)

\* Tokens that were there before the module minted any.
Allocated(params, n) ==
    [NoCoins(params) EXCEPT !.supply[ugnod] = n, !.balance[bob][ugnod] = n]

\* Genesis files that allocate tokens, ones that leave an address empty, which
\* validates, and ones that were never validated.
MCGenesis ==
    {Allocated(Good, 1)} \cup
    {NoCoins(p) : p \in
        {Good,
         [Good EXCEPT !.MintingAddress = Addr("empty", alice)],
         [Good EXCEPT !.ReceivingAddress = Addr("empty", bob)],
         [Good EXCEPT !.MintingAddress = Addr("hex", alice),
                      !.MonthsInHalvingPeriod = 0],
         [Good EXCEPT !.Denom = BadDenom],
         [Good EXCEPT !.DistributionStartDate = BadDate]}}

\* A lower maximum, a blocked receiver, governance as the minter, a later
\* start, and two proposals Validate refuses.
MCProposals ==
    {Good,
     [Good EXCEPT !.MaxSupply = 3],
     [Good EXCEPT !.ReceivingAddress = Addr("bech32", evm)],
     [Good EXCEPT !.MintingAddress = Addr("bech32", gov),
                  !.DistributionStartDate = On(2025, 2, 14)],
     [Good EXCEPT !.MaxSupply = 0],
     [Good EXCEPT !.ReceivingAddress = Addr("hex", bob)]}

MCSigners == {Addr("bech32", gov), Addr("hex", alice), Addr("bech32", bob),
              Addr("malformed", alice)}

MCDates == {D(2025, 1, 30), D(2025, 2, 14), D(2025, 2, 28)}

=============================================================================
