-------------------------- MODULE MCBlockExecution --------------------------
EXTENDS BlockExecution

CONSTANTS n1, n2, minter, hop, escrow, user, evm, fees

MCAccounts == {minter, hop, escrow, user, evm, fees}

\* The second listed account may be empty; the escrow never is.
MCBalances ==
    {[a \in MCAccounts |->
        IF a = minter THEN 3 ELSE IF a = hop THEN h ELSE IF a \in {escrow, user} THEN 1 ELSE 0] :
        h \in {0, 2}}

MCBurnAccounts == <<minter, hop>>

T(from, to) == [from |-> from, to |-> to, amount |-> 1]

\* Coins leave a listed account, or reach one, before, in and after the block
\* of the burn; the transfer to a module account is refused.
MCTransfers == {T(minter, hop), T(user, hop), T(hop, escrow), T(user, evm)}

=============================================================================
