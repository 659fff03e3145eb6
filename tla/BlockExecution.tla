--------------------------- MODULE BlockExecution ---------------------------
(***************************************************************************)
(* The begin-block logic of app/app.go on several nodes: the MinGasPrice   *)
(* hotfix and the security burn, each tied to one block height.            *)
(*                                                                         *)
(* Consensus decides the blocks.  Every node executes them in order on a   *)
(* working copy of its state, which Commit makes permanent; a crash loses  *)
(* the working copy, and after the restart the node executes the same      *)
(* block again from the start.                                             *)
(***************************************************************************)
EXTENDS Integers, Sequences, FiniteSets, Functions

CONSTANTS
    Nodes,
    Accounts,               \* every bank account
    ModuleAccounts,         \* module accounts, which receive no transfers
    EvmModule,              \* the x/vm module account
    FeeCollector,           \* where the inflation of a block goes
    securityBurnAccounts,   \* the accounts to clear, in the code's order
    MinGasPriceHotfixHeight,
    SecurityBurnHeight,
    Balances,               \* balances the accounts may start with
    Inflation,              \* what x/mint creates in a block
    Transfers,              \* contents of a block: transfers of one account's coins
    LockedSets,             \* sets of accounts whose coins may be vesting
    MaxHeight,              \* bound: blocks decided
    MaxCrashes              \* bound: crashes of a node

VARIABLES
    blocks,      \* the decided blocks: a sequence of transfers
    locked,      \* accounts whose coins are vesting and cannot be spent
    committed,   \* state of each node at its last commit
    working,     \* state of each node in the block it executes
    phase,       \* where each node is in the block
    burn,        \* the locals of applySecurityBurn: loop index and balances
    crashes      \* crashes of each node so far

vars == <<blocks, locked, committed, working, phase, burn, crashes>>

BurnSet == Range(securityBurnAccounts)

State ==
    [height : Nat, supply : Nat, balance : [Accounts -> Nat], minGasPrice : Nat]

Phases == {"idle", "begin", "burn", "collected", "modules", "txs", "end", "down"}

ASSUME BlockAssumption ==
    /\ IsFiniteSet(Accounts) /\ ModuleAccounts \subseteq Accounts
    /\ EvmModule \in ModuleAccounts /\ FeeCollector \in ModuleAccounts
    /\ EvmModule # FeeCollector
    /\ securityBurnAccounts \in Seq(Accounts \ ModuleAccounts)
    /\ Balances \subseteq [Accounts -> Nat]
    /\ \A b \in Balances : b[EvmModule] = 0
    /\ Inflation \in Nat /\ MaxHeight \in Nat /\ MaxCrashes \in Nat
    /\ MinGasPriceHotfixHeight \in Nat /\ SecurityBurnHeight \in Nat
    /\ Transfers \subseteq [from : Accounts \ ModuleAccounts, to : Accounts, amount : Nat]
    /\ \A l \in LockedSets : l \subseteq Accounts

Total(balance) == SumFunctionOnSet(balance, Accounts)

NoBurn == [next |-> 1, balances |-> 0]

Enter(n, ph) == phase' = [phase EXCEPT ![n] = ph]

Work(n, s) == working' = [working EXCEPT ![n] = s]

-----------------------------------------------------------------------------
\* Consensus decides the next block once a node has committed the last one.
Decide(t) ==
    /\ Len(blocks) < MaxHeight
    /\ \E n \in Nodes : committed[n].height = Len(blocks)
    /\ blocks' = Append(blocks, t)
    /\ UNCHANGED <<locked, committed, working, phase, burn, crashes>>

\* FinalizeBlock of the next decided block begins.
StartBlock(n) ==
    /\ phase[n] = "idle"
    /\ committed[n].height < Len(blocks)
    /\ Work(n, [committed[n] EXCEPT !.height = @ + 1])
    /\ Enter(n, "begin")
    /\ burn' = [burn EXCEPT ![n] = NoBurn]
    /\ UNCHANGED <<blocks, locked, committed, crashes>>

\* BeginBlocker, first part.
ApplyHotfix(n) ==
    /\ phase[n] = "begin"
    /\ IF working[n].height = MinGasPriceHotfixHeight
       THEN Work(n, [working[n] EXCEPT !.minGasPrice = 0])
       ELSE UNCHANGED working
    /\ Enter(n, "burn")
    /\ UNCHANGED <<blocks, locked, committed, burn, crashes>>

\* A panic in BeginBlocker stops the node; the working state is gone.
Stop(n) ==
    /\ Enter(n, "down")
    /\ Work(n, committed[n])

\* Bugs: the burn runs at every height from SecurityBurnHeight on; a marker
\* kept outside the store says it has been done, although a crash undid it.
burnDue_always(n) ==
    working[n].height >= SecurityBurnHeight /\ burn[n].next <= Len(securityBurnAccounts)
burnDue_marker(n) ==
    /\ working[n].height = SecurityBurnHeight /\ burn[n].next <= Len(securityBurnAccounts)
    /\ crashes[n] = 0

burnDue(n) ==
    working[n].height = SecurityBurnHeight /\ burn[n].next <= Len(securityBurnAccounts)

\* SendCoinsFromAccountToModule of everything an account has.
ToEvmModule(balance, acct) ==
    [balance EXCEPT ![acct] = 0, ![EvmModule] = @ + balance[acct]]

\* A bug: a loop by index whose continue advances it once too often at an
\* account without coins.
CollectBurn_skipsTwo(n) ==
    LET acct   == securityBurnAccounts[burn[n].next]
        amount == working[n].balance[acct]
    IN  /\ phase[n] = "burn" /\ burnDue(n)
        /\ IF amount = 0
           THEN burn' = [burn EXCEPT ![n].next = @ + 2] /\ UNCHANGED <<working, phase>>
           ELSE /\ acct \notin locked
                /\ Work(n, [working[n] EXCEPT !.balance = ToEvmModule(@, acct)])
                /\ Enter(n, "collected")
                /\ burn' = [burn EXCEPT ![n].balances = amount]
        /\ UNCHANGED <<blocks, locked, committed, crashes>>

\* applySecurityBurn, one account: its whole balance moves to the x/vm module
\* account.  The bank refuses when coins of the account are locked, and the
\* error becomes a panic.
CollectBurn(n) ==
    LET acct   == securityBurnAccounts[burn[n].next]
        amount == working[n].balance[acct]
    IN  /\ phase[n] = "burn" /\ burnDue(n)
        /\ \/ /\ amount = 0
              /\ burn' = [burn EXCEPT ![n].next = @ + 1]
              /\ UNCHANGED <<working, phase>>
           \/ /\ amount # 0 /\ acct \in locked
              /\ Stop(n)
              /\ UNCHANGED burn
           \/ /\ amount # 0 /\ acct \notin locked
              /\ Work(n, [working[n] EXCEPT !.balance = ToEvmModule(@, acct)])
              /\ Enter(n, "collected")
              /\ burn' = [burn EXCEPT ![n].balances = amount]
        /\ UNCHANGED <<blocks, locked, committed, crashes>>

\* BurnCoins on the x/vm module account and the rest of the loop body.  The
\* bank refuses to burn more than the account holds, which is a panic again.
BurnCoins(n, coins) ==
    /\ phase[n] = "collected"
    /\ IF coins <= working[n].balance[EvmModule]
       THEN /\ Work(n, [working[n] EXCEPT !.supply = @ - coins, !.balance[EvmModule] = @ - coins])
            /\ Enter(n, "burn")
            /\ burn' = [burn EXCEPT ![n].next = @ + 1]
       ELSE Stop(n) /\ UNCHANGED burn
    /\ UNCHANGED <<blocks, locked, committed, crashes>>

\* Bugs: the collected coins are not burnt; the running total `burned' is
\* burnt in place of the account's own balances.
BurnCollected_omitted(n) == BurnCoins(n, 0)
BurnCollected_total(n) ==
    LET passed == Range(SubSeq(securityBurnAccounts, 1, burn[n].next))
    IN  BurnCoins(n, SumFunctionOnSet(committed[n].balance, passed))

\* applySecurityBurn, one account: the coins that were collected are burnt.
BurnCollected(n) == BurnCoins(n, burn[n].balances)

BurnDone(n) ==
    /\ phase[n] = "burn" /\ ~burnDue(n)
    /\ Enter(n, "modules")
    /\ UNCHANGED <<blocks, locked, committed, working, burn, crashes>>

\* ModuleManager.BeginBlock: of the modules' begin-blockers only x/mint's
\* inflation changes what is modelled.
ModulesBeginBlock(n) ==
    /\ phase[n] = "modules"
    /\ Work(n, [working[n] EXCEPT !.supply = @ + Inflation,
                                  !.balance[FeeCollector] = @ + Inflation])
    /\ Enter(n, "txs")
    /\ UNCHANGED <<blocks, locked, committed, burn, crashes>>

\* The balances after a transfer.
Paid(balance, t) ==
    [[balance EXCEPT ![t.from] = @ - t.amount] EXCEPT ![t.to] = @ + t.amount]

\* The transactions of the block; a transfer the bank refuses changes nothing.
DeliverTxs(n) ==
    LET t  == blocks[working[n].height]
        ok == /\ t.to \notin ModuleAccounts /\ t.from \notin locked
              /\ t.amount <= working[n].balance[t.from]
    IN  /\ phase[n] = "txs"
        /\ IF ok
           THEN Work(n, [working[n] EXCEPT !.balance = Paid(@, t)])
           ELSE UNCHANGED working
        /\ Enter(n, "end")
        /\ UNCHANGED <<blocks, locked, committed, burn, crashes>>

Commit(n) ==
    /\ phase[n] = "end"
    /\ committed' = [committed EXCEPT ![n] = working[n]]
    /\ Enter(n, "idle")
    /\ UNCHANGED <<blocks, locked, working, burn, crashes>>

Crash(n) ==
    /\ phase[n] # "down" /\ crashes[n] < MaxCrashes
    /\ Stop(n)
    /\ crashes' = [crashes EXCEPT ![n] = @ + 1]
    /\ UNCHANGED <<blocks, locked, committed, burn>>

Restart(n) ==
    /\ phase[n] = "down"
    /\ Enter(n, "idle")
    /\ UNCHANGED <<blocks, locked, committed, working, burn, crashes>>

\* A wrong, non-zero MinGasPrice is in force before the hotfix.
Init ==
    /\ blocks = <<>>
    /\ locked \in LockedSets
    /\ \E b \in Balances :
           committed = [n \in Nodes |->
               [height |-> 0, supply |-> Total(b), balance |-> b, minGasPrice |-> 1]]
    /\ working = committed
    /\ phase = [n \in Nodes |-> "idle"]
    /\ burn = [n \in Nodes |-> NoBurn]
    /\ crashes = [n \in Nodes |-> 0]

\* What a running node does with a block.
Execute(n) ==
    \/ StartBlock(n) \/ ApplyHotfix(n) \/ CollectBurn(n) \/ BurnCollected(n) \/ BurnDone(n)
    \/ ModulesBeginBlock(n) \/ DeliverTxs(n) \/ Commit(n)

Next ==
    \/ \E t \in Transfers : Decide(t)
    \/ \E n \in Nodes : Execute(n) \/ Crash(n) \/ Restart(n)

Spec == Init /\ [][Next]_vars

\* Consensus goes on, a node that is up executes, a node that is down is
\* started again.
Fairness ==
    /\ WF_vars(\E t \in Transfers : Decide(t))
    /\ \A n \in Nodes : WF_vars(Execute(n)) /\ WF_vars(Restart(n))

LiveSpec == Spec /\ Fairness

-----------------------------------------------------------------------------
\* Well-formed node states; no balance and no supply goes below zero.
TypeOK ==
    /\ blocks \in Seq(Transfers) /\ Len(blocks) <= MaxHeight
    /\ locked \subseteq Accounts
    /\ committed \in [Nodes -> State] /\ working \in [Nodes -> State]
    /\ phase \in [Nodes -> Phases]
    /\ burn \in [Nodes -> [next : 1 .. Len(securityBurnAccounts) + 1, balances : Nat]]
    /\ crashes \in [Nodes -> 0 .. MaxCrashes]

\* Nodes that have committed the same height have the same state, whatever
\* crashes and repeated executions lie behind it.
Agreement ==
    \A m, n \in Nodes :
        committed[m].height = committed[n].height => committed[m] = committed[n]

\* What BeginBlocker has done before the modules run: it has emptied the
\* listed accounts at SecurityBurnHeight and set MinGasPrice to zero at the
\* hotfix height, and touched nothing else; in particular no escrow account,
\* and no coins stay in the x/vm module account.
BeginBlockerEffect ==
    \A n \in Nodes : phase[n] = "modules" =>
        LET old == committed[n]
            new == working[n]
        IN  /\ \A a \in Accounts : new.balance[a] =
                   IF new.height = SecurityBurnHeight /\ a \in BurnSet THEN 0 ELSE old.balance[a]
            /\ new.minGasPrice =
                   IF new.height = MinGasPriceHotfixHeight THEN 0 ELSE old.minGasPrice

\* From one commit to the next the supply grows by the inflation of a block,
\* except at SecurityBurnHeight, where it also loses exactly what the listed
\* accounts held: the burn happens once, never twice, never in part.
SupplyLedger ==
    [][\A n \in Nodes : committed'[n] # committed[n] =>
        /\ committed'[n].height = committed[n].height + 1
        /\ committed'[n].supply = committed[n].supply + Inflation
               - (IF committed'[n].height = SecurityBurnHeight
                  THEN SumFunctionOnSet(committed[n].balance, BurnSet) ELSE 0)]_vars

\* The burn panics only over locked coins: an account that is empty, or listed
\* twice, or fewer coins in the x/vm module account than BurnCoins is asked
\* for never take a node down.
PanicsOnlyOnLocked ==
    [][\A n \in Nodes :
        phase[n] # "down" /\ phase'[n] = "down" /\ UNCHANGED crashes
            => locked \cap BurnSet # {}]_vars

\* Crashes delay a node and do not stop it: every node commits every block,
\* unless a burn of locked coins panics on all of them.
EveryBlockCommitted ==
    (locked \cap BurnSet = {}) => <>(\A n \in Nodes : committed[n].height = MaxHeight)

=============================================================================
