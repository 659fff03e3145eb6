-------------------------- MODULE MCInPlaceTestnet --------------------------
(***************************************************************************)
(* Chains with bonded, unbonding and jailed validators; the new operator   *)
(* is one of them or nobody yet.                                           *)
(***************************************************************************)
EXTENDS InPlaceTestnet

CONSTANTS v1, v2, newcomer, alice, bob, gov

Chain(validators, power, queue) ==
    [validators |-> validators, powerIndex |-> power, lastValidators |-> power,
     queue |-> queue, byConsAddr |-> validators, pubkeys |-> validators,
     signingInfos |-> validators, rewardRecords |-> validators,
     supply |-> 3, mintAccount |-> 0, balances |-> [a \in Accounts |-> IF a = bob THEN 3 ELSE 0]]

MCChains == {Chain({v1}, {v1}, {}), Chain({v1, v2}, {v1, v2}, {}), Chain({v1, v2}, {v1}, {v2})}

MCAccounts == {alice, bob}
MCOperators == {v1, v2, newcomer, Unreadable}

\* gov is a blocked address.
MCAccountLists ==
    {<< >>, <<alice>>, <<alice, bob>>, <<bob, bob>>, <<alice, Unreadable>>, <<gov, alice>>}

=============================================================================
