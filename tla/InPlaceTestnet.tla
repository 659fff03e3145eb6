--------------------------- MODULE InPlaceTestnet ---------------------------
(***************************************************************************)
(* The in-place-testnet command of cmd/gnodid/cmd/testnet.go: the state of *)
(* a running chain is rewritten for a testnet with a single validator.     *)
(* initAppForTestnet works on the uncached state, which is on disk only    *)
(* after the first block of the testnet was committed; every error ends    *)
(* the process, which may also be stopped at any time.                     *)
(***************************************************************************)
EXTENDS Integers, Sequences, FiniteSetsExt

CONSTANTS
    Accounts,          \* accounts that can be funded
    Unreadable,        \* a text that is no address
    Chains,            \* states the chain may be in
    Operators,         \* operator addresses the command may be given
    AccountLists,      \* values of --accounts-to-fund, as lists
    defaultCoins,      \* coins each account is given
    MaxStarts          \* bound: runs of the command

VARIABLES
    committed,   \* the state on disk
    working,     \* the state in the process
    pc,          \* the place in the code; "serving": the node runs
    valArgs,     \* arguments of the command
    runs

inPlaceVars == <<committed, working, pc, valArgs, runs>>

validator == valArgs.newOperatorAddress
key == "new key"       \* consensus key of the new validator

\* The records of x/staking, x/slashing, x/distribution and the bank that the
\* command touches.
IsState(t) ==
    /\ t = [validators |-> t.validators, powerIndex |-> t.powerIndex,
            lastValidators |-> t.lastValidators, queue |-> t.queue,
            byConsAddr |-> t.byConsAddr, pubkeys |-> t.pubkeys,
            signingInfos |-> t.signingInfos, rewardRecords |-> t.rewardRecords,
            supply |-> t.supply, mintAccount |-> t.mintAccount, balances |-> t.balances]
    /\ t.supply \in Nat /\ t.mintAccount \in Nat /\ t.balances \in [Accounts -> Nat]

\* Either all validators of before or only the new one, no coins left with the
\* minter, and a supply that the accounts hold.
Whole(t) ==
    /\ t.mintAccount = 0
    /\ t.supply = SumFunctionOnSet(t.balances, Accounts)
    /\ t.powerIndex \cup t.lastValidators \cup t.queue \subseteq t.validators
    /\ key \in t.signingInfos => Cardinality(t.validators) = 1 /\ t.queue = {}

ASSUME InPlaceAssumption ==
    /\ IsFiniteSet(Accounts) /\ Unreadable \notin Accounts
    /\ defaultCoins \in Nat \ {0} /\ MaxStarts \in Nat
    /\ \A c \in Chains : IsState(c) /\ Whole(c)

-----------------------------------------------------------------------------
(***************************************************************************)
(* The node that starts on the rewritten state.                            *)
(***************************************************************************)

\* The hooks of a block fail unless all validators that are indexed or queued
\* are there, and the one that signs has its records in x/staking, x/slashing
\* and x/distribution.
CanExecuteBlock(t) ==
    /\ t.powerIndex \cup t.lastValidators \cup t.queue \subseteq t.validators
    /\ key \in t.byConsAddr \cap t.pubkeys \cap t.signingInfos
    /\ validator \in t.powerIndex \cap t.rewardRecords

Block ==
    /\ pc = "serving"
    /\ IF CanExecuteBlock(working)
       THEN /\ committed' = [working EXCEPT !.lastValidators = working.powerIndex]
            /\ working' = committed'
            /\ pc' = pc
       ELSE pc' = "halted" /\ UNCHANGED <<committed, working>>
    /\ UNCHANGED <<valArgs, runs>>

Stop ==
    /\ pc \notin {"stopped", "halted"}
    /\ pc' = "stopped"
    /\ UNCHANGED <<committed, working, valArgs, runs>>

-----------------------------------------------------------------------------
(***************************************************************************)
(* The command.                                                            *)
(***************************************************************************)

\* strings.Split of an empty flag is a list with one empty text.
getCommandArgs(operator, accounts) ==
    [newOperatorAddress |-> operator,
     accountsToFund |-> IF accounts = << >> THEN <<Unreadable>> ELSE accounts]

\* The process starts on the state on disk.
newTestnetApp(operator, accounts) ==
    /\ pc = "stopped" /\ runs < MaxStarts
    /\ working' = committed
    /\ valArgs' = getCommandArgs(operator, accounts)
    /\ pc' = "staking"
    /\ runs' = runs + 1
    /\ UNCHANGED committed

Continue(next, t) == pc' = next /\ working' = t /\ UNCHANGED <<committed, valArgs, runs>>

Exit == Continue("stopped", working)

\* A bug: the queue of unbonding validators is kept.
RemoveValidators_keepsQueue ==
    /\ pc = "staking"
    /\ IF validator = Unreadable THEN Exit
       ELSE Continue("validator", [working EXCEPT !.powerIndex = {}, !.lastValidators = {},
                                                  !.validators = {}])

\* Nothing is removed before the operator address was read.
RemoveValidators ==
    /\ pc = "staking"
    /\ IF validator = Unreadable THEN Exit
       ELSE Continue("validator", [working EXCEPT !.powerIndex = {}, !.lastValidators = {},
                                                  !.validators = {}, !.queue = {}])

\* The new validator, with the hooks of x/slashing and x/distribution.
AddValidator ==
    /\ pc = "validator"
    /\ Continue("slashing", [working EXCEPT
           !.validators = @ \cup {validator}, !.byConsAddr = @ \cup {key},
           !.powerIndex = @ \cup {validator}, !.lastValidators = @ \cup {validator},
           !.pubkeys = @ \cup {key}, !.rewardRecords = @ \cup {validator}])

SetSigningInfo ==
    /\ pc = "slashing"
    /\ Continue("mint", [working EXCEPT !.signingInfos = @ \cup {key}])

\* The loop over the accounts: the coins are minted first.
MintToFund ==
    /\ pc = "mint"
    /\ IF valArgs.accountsToFund = << >> THEN Continue("serving", working)
       ELSE Continue("send", [working EXCEPT !.supply = @ + defaultCoins,
                                             !.mintAccount = @ + defaultCoins])

\* The head of the list is done.
Funded == valArgs' = [valArgs EXCEPT !.accountsToFund = Tail(@)]

\* A bug: an account that cannot be funded is passed over.
SendFunds_goesOn ==
    /\ pc = "send"
    /\ LET account == Head(valArgs.accountsToFund)
       IN  working' = IF account \in Accounts
                      THEN [working EXCEPT !.mintAccount = @ - defaultCoins,
                                           !.balances[account] = @ + defaultCoins]
                      ELSE working
    /\ pc' = "mint" /\ Funded
    /\ UNCHANGED <<committed, runs>>

\* An account that cannot be read, or is blocked, ends the process.
SendFunds ==
    /\ pc = "send"
    /\ LET account == Head(valArgs.accountsToFund)
       IN  IF account \notin Accounts THEN Exit
           ELSE /\ working' = [working EXCEPT !.mintAccount = @ - defaultCoins,
                                              !.balances[account] = @ + defaultCoins]
                /\ pc' = "mint" /\ Funded
                /\ UNCHANGED <<committed, runs>>

InPlaceInit ==
    /\ committed \in Chains /\ working = committed
    /\ pc = "stopped"
    /\ valArgs = [newOperatorAddress |-> Unreadable, accountsToFund |-> << >>]
    /\ runs = 0

Step ==
    \/ \E operator \in Operators, accounts \in AccountLists : newTestnetApp(operator, accounts)
    \/ RemoveValidators \/ AddValidator \/ SetSigningInfo \/ MintToFund \/ SendFunds
    \/ Block

InPlaceNext == Step \/ Stop

InPlaceSpec == InPlaceInit /\ [][InPlaceNext]_inPlaceVars

-----------------------------------------------------------------------------
\* A testnet that is served can execute its blocks, whichever chain it was
\* made of: no index or queue refers to a removed validator, and the records
\* for the new one's signatures and rewards are complete.
NeverHalts == pc # "halted"

\* An error or a stop at any point leaves on disk a whole chain: either all
\* validators of before or only the new one, no coins left with the minter,
\* and a supply that the accounts hold.
DiskStaysWhole == Whole(committed)

=============================================================================
