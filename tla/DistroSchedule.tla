--------------------------- MODULE DistroSchedule ---------------------------
(***************************************************************************)
(* Distro while governance leaves the parameters alone and no other module *)
(* mints: the supply follows the schedule.  Holds the refinement of        *)
(* CappedIssuance and the liveness of an operator who keeps minting.       *)
(***************************************************************************)
EXTENDS Distro

CONSTANTS
    Schedule,   \* the parameters, valid and the same in every genesis state
    Operator    \* the address string the operator signs with

\* The parameters are valid, governance changes none of them, and no other
\* module mints, burns or sends.
FixedSchedule ==
    /\ Schedule \in Params /\ Validate(Schedule)
    /\ \A g \in Genesis : g.params = Schedule
    /\ Proposals = {} /\ OtherAmounts = {}
    /\ Operator \in Signers /\ 1 \in Amounts

\* What may exist on a date.
Ceiling ==
    [t \in Dates |->
        IF Before(t, Schedule.DistributionStartDate.date) THEN 0
        ELSE totalDistributable(Schedule.MaxSupply, Schedule.DistributionStartDate.date,
                                Schedule.MonthsInHalvingPeriod, t)]

\* The supply only grows, never above the ceiling of the day, and the
\* ceiling never falls: several mints in one transaction, or in one block,
\* cannot get ahead of the schedule together.
Abstract == INSTANCE CappedIssuance
                WITH issued <- store.supply[Schedule.Denom], ceiling <- Ceiling[today]

RefinesCappedIssuance == Abstract!Spec

-----------------------------------------------------------------------------
\* One token minted by the operator, and the commit of a transaction that
\* minted something.
OperatorMints == Mint(Operator, 1) /\ tx'.status = "running"

CommitMint == EndTx /\ store'.supply # store.supply

\* What baseapp does with a transaction it has begun.
TxStep ==
    \/ \E s \in Signers, n \in Amounts : Mint(s, n)
    \/ OutOfGas
    \/ EndTx

\* Every transaction ends, blocks keep being produced, and the operator keeps
\* sending transactions that mint one token, not all of which run out of gas.
Fairness ==
    /\ WF_vars(TxStep)
    /\ SF_vars(\E t \in Dates : NextBlock(t))
    /\ SF_vars(BeginTx(Operator.acct))
    /\ SF_vars(OperatorMints)
    /\ SF_vars(CommitMint)

LiveSpec == Spec /\ Fairness

\* Everything the schedule releases by the last date is eventually minted:
\* the checks in Mint leave no part of it out of reach, whichever notation
\* the operator's address is written in.
ScheduleExhausted ==
    <>(\A t \in Dates : store.supply[Schedule.Denom] >= Ceiling[t])

=============================================================================
