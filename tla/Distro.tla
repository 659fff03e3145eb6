------------------------------- MODULE Distro -------------------------------
(***************************************************************************)
(* The x/distro module on a running chain: its parameters, the MsgMint and *)
(* MsgUpdateParams handlers, and the bank balances they work on.           *)
(*                                                                         *)
(* A transaction runs its messages one after the other on a branch of the  *)
(* store; the branch is written back only if every message succeeded.  A   *)
(* governance proposal is executed the same way, with the gov module as    *)
(* its origin.  A Go panic inside a handler and an error it returns have   *)
(* the same outcome: the transaction fails.                                *)
(***************************************************************************)
EXTENDS MintSchedule

CONSTANTS
    Accounts,        \* every bank account
    ModuleAccounts,  \* the keys of maccPerms
    Gov,             \* the gov module account, the keeper's authority
    DistroModule,    \* the distro module account
    Denoms,          \* well-formed denominations
    BadDenom,        \* a string sdk.ValidateDenom refuses
    Genesis,         \* stores the chain may start from
    Signers,         \* address strings put into MsgMint and MsgUpdateParams
    Amounts,         \* amounts put into MsgMint
    Proposals,       \* parameters put into MsgUpdateParams
    OtherAmounts,    \* amounts other modules mint, burn and send
    Dates,           \* dates blocks are produced on
    MaxMsgs,         \* bound: messages in a transaction
    SupplyBound      \* bound: supply other modules mint up to

VARIABLES
    store,   \* committed state: the distro parameters and the bank's records
    branch,  \* what the running transaction sees; the store when none runs
    tx,      \* the running transaction
    today    \* date of the block, ctx.BlockTime() as "2006-01-02"

vars == <<store, branch, tx, today>>

-----------------------------------------------------------------------------
(***************************************************************************)
(* Types.  An address string is its notation and the account it stands     *)
(* for; a date string is whether it parses and what it parses to.          *)
(***************************************************************************)
AddressString == [form : {"bech32", "hex", "malformed", "empty"}, acct : Accounts]

DateString == [wellFormed : BOOLEAN, date : Date]

Params ==
    [MintingAddress        : AddressString,
     ReceivingAddress      : AddressString,
     Denom                 : Denoms \cup {BadDenom},
     MaxSupply             : Word,
     DistributionStartDate : DateString,
     MonthsInHalvingPeriod : Word]

Store ==
    [params  : Params,
     supply  : [Denoms -> Nat],
     balance : [Accounts -> [Denoms -> Nat]]]

\* Module accounts cannot receive coins, the gov account excepted.
blockedAddrs == ModuleAccounts \ {Gov}

\* Who can start a transaction: a key holder, or governance.
Origins == (Accounts \ ModuleAccounts) \cup {Gov}

ASSUME DistroAssumption ==
    /\ ModuleAccounts \subseteq Accounts
    /\ Gov \in ModuleAccounts /\ DistroModule \in ModuleAccounts \ {Gov}
    /\ BadDenom \notin Denoms
    /\ Signers \subseteq AddressString
    /\ Amounts \subseteq Word
    /\ Proposals \subseteq Params
    /\ OtherAmounts \subseteq Nat
    /\ Dates \subseteq Date
    /\ MaxMsgs \in Nat \ {0} /\ SupplyBound \in Nat
    /\ Genesis \subseteq Store
    /\ \A g \in Genesis, d \in Denoms : g.balance[DistroModule][d] = 0

-----------------------------------------------------------------------------
(***************************************************************************)
(* Addresses and parameter validation.                                     *)
(***************************************************************************)

\* addressCodec.StringToBytes succeeds: the EVM codec reads both notations.
StringToBytes(a) == a.form \in {"bech32", "hex"}

\* sdk.AccAddressFromBech32 succeeds.
AccAddressFromBech32(a) == a.form = "bech32"

\* A bug: an address that does not decode matches everybody.
IsAuthorized_open(p, signerBytes) ==
    StringToBytes(p.MintingAddress) => p.MintingAddress.acct = signerBytes

IsAuthorized(p, signerBytes) ==
    StringToBytes(p.MintingAddress) /\ p.MintingAddress.acct = signerBytes

\* Params.Validate
Validate(p) ==
    /\ AccAddressFromBech32(p.MintingAddress)
    /\ AccAddressFromBech32(p.ReceivingAddress)
    /\ p.Denom \in Denoms
    /\ p.MaxSupply # 0
    /\ p.DistributionStartDate.wellFormed
    /\ p.MonthsInHalvingPeriod # 0

\* GenesisState.Validate: addresses may be empty, MaxSupply is not looked at.
ValidateGenesis(p) ==
    /\ p.MintingAddress.form \in {"empty", "bech32"}
    /\ p.ReceivingAddress.form \in {"empty", "bech32"}
    /\ p.Denom \in Denoms
    /\ p.DistributionStartDate.wellFormed
    /\ p.MonthsInHalvingPeriod # 0

-----------------------------------------------------------------------------
(***************************************************************************)
(* The bank, as the distro keeper uses it.                                 *)
(***************************************************************************)
MintCoins(s, denom, amount) ==
    [s EXCEPT !.supply[denom] = @ + amount,
              !.balance[DistroModule][denom] = @ + amount]

SendCoins(s, from, to, denom, amount) ==
    LET debited == [s EXCEPT !.balance[from][denom] = @ - amount]
    IN  [debited EXCEPT !.balance[to][denom] = @ + amount]

-----------------------------------------------------------------------------
(***************************************************************************)
(* The handlers.                                                           *)
(***************************************************************************)

\* A malformed start date and a target before it are errors; a zero
\* MonthsInHalvingPeriod divides by zero, which panics.
validateMintingLimits(p, currentSupply, amount) ==
    LET start == p.DistributionStartDate.date
    IN  /\ p.DistributionStartDate.wellFormed
        /\ ~Before(today, start)
        /\ p.MonthsInHalvingPeriod # 0
        /\ currentSupply + amount <=
               totalDistributable(p.MaxSupply, start, p.MonthsInHalvingPeriod, today)

\* Bugs: the supply is read from the committed state and misses the mints of
\* this transaction; address strings are compared instead of accounts.
mintAllowed_staleSupply(s, signer, amount) ==
    LET p == s.params
    IN  /\ StringToBytes(signer)
        /\ IsAuthorized(p, signer.acct)
        /\ p.Denom \in Denoms
        /\ store.supply[p.Denom] \in Word
        /\ store.supply[p.Denom] + amount <= p.MaxSupply
        /\ validateMintingLimits(p, store.supply[p.Denom], amount)
mintAllowed_comparesStrings(s, signer, amount) ==
    LET p == s.params
    IN  /\ p.MintingAddress = signer
        /\ p.Denom \in Denoms
        /\ s.supply[p.Denom] \in Word
        /\ s.supply[p.Denom] + amount <= p.MaxSupply
        /\ validateMintingLimits(p, s.supply[p.Denom], amount)

\* Everything Mint checks before it creates coins.  GetSupply panics on an
\* invalid denomination, Amount.Uint64() on a supply wider than a word.
mintAllowed(s, signer, amount) ==
    LET p == s.params
    IN  /\ StringToBytes(signer)
        /\ IsAuthorized(p, signer.acct)
        /\ p.Denom \in Denoms
        /\ s.supply[p.Denom] \in Word
        /\ s.supply[p.Denom] + amount <= p.MaxSupply
        /\ validateMintingLimits(p, s.supply[p.Denom], amount)

\* depositCoins succeeds: the receiving address decodes and is not blocked,
\* and the module account holds what the bank is asked to send.
depositAccepted(s, p, amount) ==
    /\ StringToBytes(p.ReceivingAddress)
    /\ p.ReceivingAddress.acct \notin blockedAddrs
    /\ amount <= s.balance[DistroModule][p.Denom]

depositCoins(s, p, amount) ==
    SendCoins(s, DistroModule, p.ReceivingAddress.acct, p.Denom, amount)

Running == tx.status = "running" /\ tx.msgs < MaxMsgs

\* The ante handler has checked the signature for the message's signer.
SignedBy(signer) == StringToBytes(signer) => signer.acct = tx.origin

Continue(s) == branch' = s /\ tx' = [tx EXCEPT !.msgs = @ + 1]

Fail(s) == branch' = s /\ tx' = [tx EXCEPT !.status = "failed"]

\* A bug: the error of depositCoins is dropped.
Mint_ignoresDepositError(signer, amount) ==
    LET p      == branch.params
        minted == MintCoins(branch, p.Denom, amount)
    IN  /\ Running /\ SignedBy(signer)
        /\ mintAllowed(branch, signer, amount)
        /\ Continue(IF depositAccepted(minted, p, amount)
                    THEN depositCoins(minted, p, amount) ELSE minted)
        /\ UNCHANGED <<store, today>>

Mint(signer, amount) ==
    LET p      == branch.params
        minted == MintCoins(branch, p.Denom, amount)
    IN  /\ Running /\ SignedBy(signer)
        /\ \/ ~mintAllowed(branch, signer, amount) /\ Fail(branch)
           \/ /\ mintAllowed(branch, signer, amount)
              /\ IF depositAccepted(minted, p, amount)
                 THEN Continue(depositCoins(minted, p, amount))
                 ELSE Fail(minted)
        /\ UNCHANGED <<store, today>>

\* Bugs: anyone may update the parameters; they are not validated.
UpdateParams_anyone(authority, p) ==
    /\ Running /\ SignedBy(authority)
    /\ IF StringToBytes(authority) /\ Validate(p)
       THEN Continue([branch EXCEPT !.params = p])
       ELSE Fail(branch)
    /\ UNCHANGED <<store, today>>
UpdateParams_unchecked(authority, p) ==
    /\ Running /\ SignedBy(authority)
    /\ IF StringToBytes(authority) /\ authority.acct = Gov
       THEN Continue([branch EXCEPT !.params = p])
       ELSE Fail(branch)
    /\ UNCHANGED <<store, today>>

UpdateParams(authority, p) ==
    /\ Running /\ SignedBy(authority)
    /\ IF StringToBytes(authority) /\ authority.acct = Gov /\ Validate(p)
       THEN Continue([branch EXCEPT !.params = p])
       ELSE Fail(branch)
    /\ UNCHANGED <<store, today>>

-----------------------------------------------------------------------------
(***************************************************************************)
(* The chain around the handlers.                                          *)
(***************************************************************************)
Idle == [status |-> "idle", origin |-> Gov, msgs |-> 0]

BeginTx(origin) ==
    /\ tx.status = "idle"
    /\ tx' = [status |-> "running", origin |-> origin, msgs |-> 0]
    /\ UNCHANGED <<store, branch, today>>

\* The gas limit can stop a transaction after any of its messages.
OutOfGas ==
    /\ tx.status = "running"
    /\ Fail(branch)
    /\ UNCHANGED <<store, today>>

EndTx ==
    /\ \/ tx.status = "running" /\ tx.msgs > 0 /\ store' = branch /\ branch' = branch
       \/ tx.status = "failed" /\ store' = store /\ branch' = store
    /\ tx' = Idle
    /\ UNCHANGED today

Write(s) ==
    /\ tx.status = "idle"
    /\ store' = s /\ branch' = s
    /\ UNCHANGED <<tx, today>>

\* Inflation and the other modules that hold the minter permission.
OtherMint(a, denom, amount) ==
    /\ store.supply[denom] + amount <= SupplyBound
    /\ Write([store EXCEPT !.supply[denom] = @ + amount,
                           !.balance[a][denom] = @ + amount])

\* Slashing, deposits burnt by governance, the security burn.  The bank
\* refuses to take a balance or the supply below zero.
OtherBurn(a, denom, amount) ==
    /\ amount <= store.balance[a][denom] /\ amount <= store.supply[denom]
    /\ Write([store EXCEPT !.supply[denom] = @ - amount,
                           !.balance[a][denom] = @ - amount])

\* bank.MsgSend between accounts.
Send(from, to, denom, amount) ==
    /\ from # to /\ to \notin blockedAddrs
    /\ amount <= store.balance[from][denom]
    /\ Write(SendCoins(store, from, to, denom, amount))

NextBlock(date) ==
    /\ tx.status = "idle"
    /\ Before(today, date)
    /\ today' = date
    /\ UNCHANGED <<store, branch, tx>>

\* A bug: InitGenesis does not write the parameters.
Init_noParams ==
    /\ store \in {[g EXCEPT !.params = << >>] : g \in Genesis}
    /\ branch = store
    /\ tx = Idle
    /\ today \in Dates

\* x/distro InitGenesis writes the genesis parameters without validating them.
Init ==
    /\ store \in Genesis
    /\ branch = store
    /\ tx = Idle
    /\ today \in Dates

Next ==
    \/ \E o \in Origins : BeginTx(o)
    \/ \E s \in Signers, n \in Amounts : Mint(s, n)
    \/ \E s \in Signers, p \in Proposals : UpdateParams(s, p)
    \/ OutOfGas
    \/ EndTx
    \/ \E a \in Accounts \ {DistroModule}, d \in Denoms, n \in OtherAmounts :
           OtherMint(a, d, n) \/ OtherBurn(a, d, n)
    \/ \E a \in Origins, b \in Accounts, d \in Denoms, n \in OtherAmounts : Send(a, b, d, n)
    \/ \E t \in Dates : NextBlock(t)

Spec == Init /\ [][Next]_vars

-----------------------------------------------------------------------------
(***************************************************************************)
(* Properties.                                                             *)
(***************************************************************************)
\* Stores, transaction and date are well formed, no balance of the branch is
\* negative, and without a running transaction the branch is the store.
TypeOK ==
    /\ store \in Store /\ branch \in Store
    /\ tx \in [status : {"idle", "running", "failed"}, origin : Origins, msgs : 0 .. MaxMsgs]
    /\ today \in Date
    /\ tx.status = "idle" => branch = store

\* Minted coins never stay behind in the distro module account: not in the
\* committed state, and not between two messages of one transaction.
ModuleAccountEmpty ==
    \A d \in Denoms :
        /\ store.balance[DistroModule][d] = 0
        /\ tx.status # "failed" => branch.balance[DistroModule][d] = 0

MintsCoins(d) ==
    tx.status = "running" /\ tx'.status = "running" /\ branch'.supply[d] > branch.supply[d]

ObeysParams(d) ==
    LET p == branch.params
        start == p.DistributionStartDate.date
    IN  /\ d = p.Denom
        /\ p.MintingAddress.acct = tx.origin
        /\ branch'.supply[d] <= p.MaxSupply
        /\ InPeriod(start, p.MonthsInHalvingPeriod, today,
                    currentHalvingPeriod(start, today, p.MonthsInHalvingPeriod))

\* A message that creates coins comes from the minting address in force when
\* it runs, whatever notation either address is written in, on or after the
\* start date in force, and leaves the supply within the maximum in force,
\* however many messages of the transaction ran before it.
MintsObeyParams ==
    [][\A d \in Denoms : MintsCoins(d) => ObeysParams(d)]_vars

ObeysCurve(d) ==
    LET p == branch.params
        start == p.DistributionStartDate.date
        months == p.MonthsInHalvingPeriod
        period == currentHalvingPeriod(start, today, months)
    IN  PeriodFits(start, months, period) =>
            WithinCurve(branch'.supply[d], p.MaxSupply, start, months, today, period)

\* It also leaves the supply on or below the exact release curve of today:
\* roundings and several mints in a row never add up to a token too many.
MintsFollowCurve ==
    [][\A d \in Denoms : MintsCoins(d) => ObeysCurve(d)]_vars

\* Committed parameters change only through governance and only to valid
\* ones: a store that InitGenesis filled with unchecked parameters can be
\* repaired, and a repaired one cannot be broken again.
ParamsChangeByGov ==
    [][store'.params # store.params => tx.origin = Gov /\ Validate(store'.params)]_vars

\* A chain whose genesis file passes GenesisState.Validate goes on to export
\* one that does: whatever governance stores afterwards passes the genesis
\* checks too, although UpdateParams runs others (Params.Validate) on it.
ExportValidates ==
    [][ValidateGenesis(store.params) => ValidateGenesis(store'.params)]_vars

=============================================================================
