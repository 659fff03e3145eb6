---------------------------- MODULE TestnetProofs ----------------------------
(***************************************************************************)
(* Proofs about the two testnet commands: the chain that is rewritten in   *)
(* place, and the directories of a testnet with several nodes.             *)
(***************************************************************************)
EXTENDS TestnetFiles, InPlaceTestnet, ArithmeticProofs

-----------------------------------------------------------------------------
(***************************************************************************)
(* The chain that is rewritten in place.                                   *)
(***************************************************************************)

Held(t) == SumFunctionOnSet(t.balances, Accounts)

\* The coins that were minted for an account are its own at the next step.
CoinsInv ==
    pc \notin {"stopped", "halted"} =>
        /\ working.mintAccount = IF pc = "send" THEN defaultCoins ELSE 0
        /\ working.supply = Held(working) + working.mintAccount

\* All records of the old validators are gone before the new one is added.
ValidatorsInv ==
    /\ pc = "validator" =>
           /\ working.validators = {} /\ working.powerIndex = {}
           /\ working.lastValidators = {} /\ working.queue = {}
    /\ pc \in {"slashing", "mint", "send", "serving"} =>
           /\ working.validators = {validator} /\ working.powerIndex = {validator}
           /\ working.lastValidators = {validator} /\ working.queue = {}
           /\ key \in working.byConsAddr /\ key \in working.pubkeys
           /\ validator \in working.rewardRecords
    /\ pc \in {"mint", "send", "serving"} => key \in working.signingInfos

ArgsForm ==
    valArgs = [newOperatorAddress |-> valArgs.newOperatorAddress,
               accountsToFund |-> valArgs.accountsToFund]

InPlaceInv ==
    /\ IsState(committed) /\ Whole(committed)
    /\ IsState(working)
    /\ ArgsForm
    /\ pc # "halted"
    /\ CoinsInv
    /\ ValidatorsInv

\* A chain is a state that can be rewritten, and so is the result of running
\* the command on it.
LEMMA InPlaceStarts == InPlaceInit => InPlaceInv
<1> SUFFICES ASSUME InPlaceInit PROVE InPlaceInv
  OBVIOUS
<1>1. IsState(committed) /\ Whole(committed) /\ IsState(working)
  BY InPlaceAssumption DEF InPlaceInit
<1>2. ArgsForm /\ pc = "stopped"
  BY DEF InPlaceInit, ArgsForm
<1>3. CoinsInv /\ ValidatorsInv
  BY <1>2 DEF CoinsInv, ValidatorsInv
<1> QED
  BY <1>1, <1>2, <1>3 DEF InPlaceInv

\* The records of a state after its balances were replaced.
LEMMA ReplaceRecord ==
    ASSUME NEW t, NEW b, NEW u,
           t = [validators |-> t.validators, powerIndex |-> t.powerIndex,
                lastValidators |-> t.lastValidators, queue |-> t.queue,
                byConsAddr |-> t.byConsAddr, pubkeys |-> t.pubkeys,
                signingInfos |-> t.signingInfos, rewardRecords |-> t.rewardRecords,
                supply |-> t.supply, mintAccount |-> t.mintAccount, balances |-> t.balances],
           u = [t EXCEPT !.mintAccount = 0, !.balances = b]
    PROVE  /\ u.mintAccount = 0 /\ u.supply = t.supply /\ u.balances = b
           /\ u = [validators |-> u.validators, powerIndex |-> u.powerIndex,
                   lastValidators |-> u.lastValidators, queue |-> u.queue,
                   byConsAddr |-> u.byConsAddr, pubkeys |-> u.pubkeys,
                   signingInfos |-> u.signingInfos, rewardRecords |-> u.rewardRecords,
                   supply |-> u.supply, mintAccount |-> u.mintAccount, balances |-> u.balances]
<1> QED
  OBVIOUS

\* It is a state again.
LEMMA ReplaceBalances ==
    ASSUME NEW t, IsState(t), NEW b \in [Accounts -> Nat], NEW u,
           u = [t EXCEPT !.mintAccount = 0, !.balances = b]
    PROVE  u.mintAccount = 0 /\ u.supply = t.supply /\ u.balances = b /\ IsState(u)
<1>1. t.supply \in Nat
  BY DEF IsState
<1>2. /\ u.mintAccount = 0 /\ u.supply = t.supply /\ u.balances = b
      /\ u = [validators |-> u.validators, powerIndex |-> u.powerIndex,
              lastValidators |-> u.lastValidators, queue |-> u.queue,
              byConsAddr |-> u.byConsAddr, pubkeys |-> u.pubkeys,
              signingInfos |-> u.signingInfos, rewardRecords |-> u.rewardRecords,
              supply |-> u.supply, mintAccount |-> u.mintAccount, balances |-> u.balances]
  BY ReplaceRecord, Zenon DEF IsState
<1> QED
  BY <1>1, <1>2 DEF IsState

\* Funding an account moves the minted coins to it: the supply is held again.
LEMMA FundingConserves ==
    ASSUME NEW t, IsState(t), NEW a \in Accounts, t.mintAccount = defaultCoins,
           t.supply = Held(t) + t.mintAccount, NEW u,
           u = [t EXCEPT !.mintAccount = @ - defaultCoins, !.balances[a] = @ + defaultCoins]
    PROVE  IsState(u) /\ u.mintAccount = 0 /\ u.supply = Held(u)
<1>0. defaultCoins \in Nat /\ IsFiniteSet(Accounts)
  BY InPlaceAssumption
<1>1. /\ t.balances \in [Accounts -> Nat] /\ t.supply \in Nat
      /\ u.mintAccount = 0 /\ u.supply = t.supply
      /\ u.balances = [t.balances EXCEPT ![a] = t.balances[a] + defaultCoins]
      /\ IsState(u)
  <2>1. /\ t.balances \in [Accounts -> Nat] /\ t.supply \in Nat
        /\ t.mintAccount - defaultCoins = 0
    BY <1>0 DEF IsState
  <2> DEFINE b == [t.balances EXCEPT ![a] = t.balances[a] + defaultCoins]
  <2>2. b \in [Accounts -> Nat]
    BY <1>0, <2>1
  <2>3. u = [t EXCEPT !.mintAccount = 0, !.balances = b]
    BY <2>1
  <2> HIDE DEF b
  <2>4. u.mintAccount = 0 /\ u.supply = t.supply /\ u.balances = b /\ IsState(u)
    BY <2>2, <2>3, ReplaceBalances
  <2> QED
    BY <2>1, <2>4 DEF b
<1> DEFINE f == t.balances
           g == u.balances
<1>2. /\ \A x \in Accounts : f[x] \in Int /\ g[x] \in Int
      /\ \A x \in Accounts \ {a} : g[x] = f[x]
      /\ g[a] = f[a] + defaultCoins
  BY <1>0, <1>1
<1>3. SumFunctionOnSet(f, Accounts) \in Int
  BY <1>0, <1>2, SumType
<1> HIDE DEF f, g
<1>4. SumFunctionOnSet(g, Accounts) = SumFunctionOnSet(f, Accounts) - f[a] + g[a]
  BY <1>0, <1>2, SumUpdate
<1>5. SumFunctionOnSet(g, Accounts) = SumFunctionOnSet(f, Accounts) + defaultCoins
  BY <1>0, <1>2, <1>3, <1>4
<1> QED
  BY <1>1, <1>5 DEF Held, f, g

\* Every step of the command, every block, and a stop at any point keep the
\* invariant.
LEMMA InPlaceStep == InPlaceInv /\ [InPlaceNext]_inPlaceVars => InPlaceInv'
<1> SUFFICES ASSUME InPlaceInv, [InPlaceNext]_inPlaceVars PROVE InPlaceInv'
  OBVIOUS
<1>0. /\ IsState(committed) /\ Whole(committed) /\ IsState(working)
      /\ ArgsForm /\ pc # "halted" /\ CoinsInv /\ ValidatorsInv
  BY DEF InPlaceInv
<1>n. defaultCoins \in Nat
  BY InPlaceAssumption
<1>1. ASSUME NEW operator \in Operators, NEW accounts \in AccountLists,
             newTestnetApp(operator, accounts)
      PROVE  InPlaceInv'
  <2>1. /\ committed' = committed /\ working' = committed /\ pc' = "staking"
        /\ valArgs' = getCommandArgs(operator, accounts)
    BY <1>1 DEF newTestnetApp
  <2>2. ArgsForm'
    BY <2>1 DEF ArgsForm, getCommandArgs
  <2>3. CoinsInv' /\ ValidatorsInv'
    <3>1. /\ committed.mintAccount = 0
          /\ committed.supply = SumFunctionOnSet(committed.balances, Accounts)
          /\ committed.supply \in Nat
      BY <1>0 DEF Whole, IsState
    <3> QED
      BY <2>1, <3>1 DEF CoinsInv, ValidatorsInv, Held
  <2> QED
    BY <1>0, <2>1, <2>2, <2>3 DEF InPlaceInv
<1>2. CASE Exit \/ Stop
  <2>1. /\ committed' = committed /\ working' = working /\ pc' = "stopped"
        /\ valArgs' = valArgs
    BY <1>2 DEF Exit, Continue, Stop
  <2> QED
    BY <1>0, <2>1 DEF InPlaceInv, CoinsInv, ValidatorsInv, ArgsForm
<1>3. CASE RemoveValidators
  <2>1. CASE validator = Unreadable
    BY <1>2, <1>3, <2>1 DEF RemoveValidators
  <2>2. CASE validator # Unreadable
    <3>1. /\ committed' = committed /\ valArgs' = valArgs /\ pc = "staking" /\ pc' = "validator"
          /\ working' = [working EXCEPT !.powerIndex = {}, !.lastValidators = {},
                                        !.validators = {}, !.queue = {}]
      BY <1>3, <2>2 DEF RemoveValidators, Continue
    <3>2. /\ IsState(working')
          /\ working'.supply = working.supply /\ working'.mintAccount = working.mintAccount
          /\ working'.balances = working.balances
          /\ working'.validators = {} /\ working'.powerIndex = {}
          /\ working'.lastValidators = {} /\ working'.queue = {}
      BY <1>0, <3>1 DEF IsState
    <3> QED
      BY <1>0, <3>1, <3>2 DEF InPlaceInv, CoinsInv, ValidatorsInv, ArgsForm, Held
  <2> QED
    BY <2>1, <2>2
<1>4. CASE AddValidator
  <2>1. /\ committed' = committed /\ valArgs' = valArgs /\ pc = "validator" /\ pc' = "slashing"
        /\ working' = [working EXCEPT
               !.validators = @ \cup {validator}, !.byConsAddr = @ \cup {key},
               !.powerIndex = @ \cup {validator}, !.lastValidators = @ \cup {validator},
               !.pubkeys = @ \cup {key}, !.rewardRecords = @ \cup {validator}]
    BY <1>4 DEF AddValidator, Continue
  <2>2. /\ working.validators = {} /\ working.powerIndex = {}
        /\ working.lastValidators = {} /\ working.queue = {}
    BY <1>0, <2>1 DEF ValidatorsInv
  <2>3. /\ IsState(working')
        /\ working'.supply = working.supply /\ working'.mintAccount = working.mintAccount
        /\ working'.balances = working.balances
        /\ working'.validators = {validator} /\ working'.powerIndex = {validator}
        /\ working'.lastValidators = {validator} /\ working'.queue = {}
        /\ key \in working'.byConsAddr /\ key \in working'.pubkeys
        /\ validator \in working'.rewardRecords
    BY <1>0, <2>1, <2>2 DEF IsState
  <2>4. CoinsInv'
    BY <1>0, <2>1, <2>3 DEF CoinsInv, Held
  <2>5. ValidatorsInv' /\ ArgsForm'
    BY <1>0, <2>1, <2>3 DEF ValidatorsInv, ArgsForm, validator, key
  <2> QED
    BY <1>0, <2>1, <2>3, <2>4, <2>5 DEF InPlaceInv
<1>5. CASE SetSigningInfo
  <2>1. /\ committed' = committed /\ valArgs' = valArgs /\ pc = "slashing" /\ pc' = "mint"
        /\ working' = [working EXCEPT !.signingInfos = @ \cup {key}]
    BY <1>5 DEF SetSigningInfo, Continue
  <2>2. /\ IsState(working')
        /\ working'.supply = working.supply /\ working'.mintAccount = working.mintAccount
        /\ working'.balances = working.balances
        /\ working'.validators = working.validators /\ working'.powerIndex = working.powerIndex
        /\ working'.lastValidators = working.lastValidators /\ working'.queue = working.queue
        /\ working'.byConsAddr = working.byConsAddr /\ working'.pubkeys = working.pubkeys
        /\ working'.rewardRecords = working.rewardRecords
        /\ key \in working'.signingInfos
    BY <1>0, <2>1 DEF IsState
  <2>3. CoinsInv'
    BY <1>0, <2>1, <2>2 DEF CoinsInv, Held
  <2>4. ValidatorsInv' /\ ArgsForm'
    BY <1>0, <2>1, <2>2 DEF ValidatorsInv, ArgsForm, validator, key
  <2> QED
    BY <1>0, <2>1, <2>2, <2>3, <2>4 DEF InPlaceInv
<1>6. CASE MintToFund
  <2>1. CASE valArgs.accountsToFund = << >>
    <3>1. /\ committed' = committed /\ valArgs' = valArgs /\ working' = working
          /\ pc = "mint" /\ pc' = "serving"
      BY <1>6, <2>1 DEF MintToFund, Continue
    <3>2. CoinsInv'
      BY <1>0, <3>1 DEF CoinsInv
    <3>3. ValidatorsInv' /\ ArgsForm'
      BY <1>0, <3>1 DEF ValidatorsInv, ArgsForm, validator, key
    <3> QED
      BY <1>0, <3>1, <3>2, <3>3 DEF InPlaceInv
  <2>2. CASE valArgs.accountsToFund # << >>
    <3>1. /\ committed' = committed /\ valArgs' = valArgs /\ pc = "mint" /\ pc' = "send"
          /\ working' = [working EXCEPT !.supply = @ + defaultCoins,
                                        !.mintAccount = @ + defaultCoins]
      BY <1>6, <2>2 DEF MintToFund, Continue
    <3>2. /\ IsState(working')
          /\ working'.supply = working.supply + defaultCoins
          /\ working'.mintAccount = working.mintAccount + defaultCoins
          /\ working'.balances = working.balances
          /\ working'.validators = working.validators /\ working'.powerIndex = working.powerIndex
          /\ working'.lastValidators = working.lastValidators /\ working'.queue = working.queue
          /\ working'.byConsAddr = working.byConsAddr /\ working'.pubkeys = working.pubkeys
          /\ working'.rewardRecords = working.rewardRecords
          /\ working'.signingInfos = working.signingInfos
      <4> DEFINE supply == working.supply + defaultCoins
                 minted == working.mintAccount + defaultCoins
      <4>1. supply \in Nat /\ minted \in Nat
        BY <1>0, <1>n DEF IsState
      <4>2. working' = [working EXCEPT !.supply = supply, !.mintAccount = minted]
        BY <3>1
      <4> HIDE DEF supply, minted
      <4>3. /\ IsState(working') /\ working'.supply = supply /\ working'.mintAccount = minted
            /\ working'.balances = working.balances
        BY <1>0, <4>1, <4>2 DEF IsState
      <4> QED
        BY <1>0, <4>2, <4>3 DEF IsState, supply, minted
    <3>3. CoinsInv'
      <4>1. /\ working.mintAccount = 0 /\ working.supply = Held(working) + 0
            /\ working.supply \in Nat
        BY <1>0, <3>1 DEF CoinsInv, IsState
      <4>2. working.balances \in [Accounts -> Nat]
        BY <1>0 DEF IsState
      <4>3. Held(working) \in Int
        BY <4>2, SumType, InPlaceAssumption DEF Held
      <4>4. working'.supply = Held(working) + defaultCoins /\ working'.mintAccount = defaultCoins
        BY <1>n, <3>2, <4>1, <4>3
      <4> QED
        BY <3>1, <3>2, <4>4 DEF CoinsInv, Held
    <3>4. ValidatorsInv' /\ ArgsForm'
      BY <1>0, <3>1, <3>2 DEF ValidatorsInv, ArgsForm, validator, key
    <3> QED
      BY <1>0, <3>1, <3>2, <3>3, <3>4 DEF InPlaceInv
  <2> QED
    BY <2>1, <2>2
<1>7. CASE SendFunds
  <2> DEFINE account == Head(valArgs.accountsToFund)
  <2>1. CASE account \notin Accounts
    BY <1>2, <1>7, <2>1 DEF SendFunds
  <2>2. CASE account \in Accounts
    <3>1. /\ committed' = committed /\ Funded /\ pc = "send" /\ pc' = "mint"
          /\ working' = [working EXCEPT !.mintAccount = @ - defaultCoins,
                                        !.balances[account] = @ + defaultCoins]
      BY <1>7, <2>2 DEF SendFunds
    <3>2. /\ valArgs' = [valArgs EXCEPT !.accountsToFund = Tail(valArgs.accountsToFund)]
          /\ ArgsForm' /\ validator' = validator
      BY <1>0, <3>1 DEF Funded, ArgsForm, validator
    <3>3. working.mintAccount = defaultCoins /\ working.supply = Held(working) + working.mintAccount
      BY <1>0, <3>1 DEF CoinsInv
    <3>4. /\ working'.validators = working.validators /\ working'.powerIndex = working.powerIndex
          /\ working'.lastValidators = working.lastValidators /\ working'.queue = working.queue
          /\ working'.byConsAddr = working.byConsAddr /\ working'.pubkeys = working.pubkeys
          /\ working'.rewardRecords = working.rewardRecords
          /\ working'.signingInfos = working.signingInfos
      BY <1>0, <3>1 DEF IsState
    <3>5. IsState(working') /\ working'.mintAccount = 0 /\ working'.supply = Held(working')
      <4> HIDE DEF account
      <4> QED
        BY <1>0, <2>2, <3>1, <3>3, FundingConserves
    <3>6. CoinsInv'
      <4>1. working'.supply = Held(working') + 0
        BY <3>5 DEF IsState
      <4> QED
        BY <3>1, <3>5, <4>1 DEF CoinsInv, Held
    <3>7. ValidatorsInv'
      BY <1>0, <3>1, <3>2, <3>4 DEF ValidatorsInv, key
    <3> QED
      BY <1>0, <3>1, <3>2, <3>5, <3>6, <3>7 DEF InPlaceInv
  <2> QED
    BY <2>1, <2>2
<1>8. CASE Block
  <2>1. /\ pc = "serving"
        /\ working.validators = {validator} /\ working.powerIndex = {validator}
        /\ working.lastValidators = {validator} /\ working.queue = {}
        /\ key \in working.byConsAddr /\ key \in working.pubkeys /\ key \in working.signingInfos
        /\ validator \in working.rewardRecords
        /\ working.mintAccount = 0 /\ working.supply = Held(working) + 0
    BY <1>0, <1>8 DEF Block, ValidatorsInv, CoinsInv
  <2>2. CanExecuteBlock(working)
    BY <2>1 DEF CanExecuteBlock
  <2>3. /\ working' = [working EXCEPT !.lastValidators = working.powerIndex]
        /\ committed' = working' /\ pc' = pc /\ valArgs' = valArgs
    BY <1>8, <2>2 DEF Block
  <2>4. working' = working
    BY <1>0, <2>1, <2>3 DEF IsState
  <2>5. Whole(working)
    <3>1. working.supply = Held(working)
      BY <1>0, <2>1, SumType, InPlaceAssumption DEF IsState, Held
    <3>2. Cardinality(working.validators) = 1
      BY <2>1, FS_Singleton
    <3> QED
      BY <2>1, <3>1, <3>2 DEF Whole, Held
  <2> QED
    BY <1>0, <2>1, <2>3, <2>4, <2>5
    DEF InPlaceInv, CoinsInv, ValidatorsInv, ArgsForm, validator, key
<1>9. CASE UNCHANGED inPlaceVars
  BY <1>0, <1>9 DEF inPlaceVars, InPlaceInv, CoinsInv, ValidatorsInv, ArgsForm, validator, key
<1> QED
  BY <1>1, <1>2, <1>3, <1>4, <1>5, <1>6, <1>7, <1>8, <1>9 DEF InPlaceNext, Step

\* The invariant of the command that rewrites a chain.
LEMMA InPlaceInvariant == InPlaceSpec => []InPlaceInv
<1> QED
  BY InPlaceStarts, InPlaceStep, PTL DEF InPlaceSpec

\* A testnet that is served executes all its blocks, whatever chain it was
\* made of, and however often the command was stopped and run again before.
THEOREM TestnetNeverHalts == InPlaceSpec => []NeverHalts
<1>1. InPlaceInv => NeverHalts
  BY DEF InPlaceInv, NeverHalts
<1> QED
  BY InPlaceInvariant, <1>1, PTL

\* No error and no stop leaves half a conversion, or coins that nobody holds,
\* on disk.
THEOREM TestnetDiskStaysWhole == InPlaceSpec => []DiskStaysWhole
<1>1. InPlaceInv => DiskStaysWhole
  BY DEF InPlaceInv, DiskStaysWhole
<1> QED
  BY InPlaceInvariant, <1>1, PTL

-----------------------------------------------------------------------------
(***************************************************************************)
(* The directories of a testnet with several nodes.                        *)
(***************************************************************************)

\* The loop that makes keys and genesis transactions.
Early == {"node", "key", "gentx"}

\* The command is on its way, or has succeeded.
Active == Running \/ cmd.pc = "done"

\* The nodes whose identity, account key, and genesis transaction were made.
Inited == {l \in Nodes : cmd.pc \in Early => l < here \/ (l = here /\ cmd.pc # "node")}
Keyed == {l \in Nodes : cmd.pc \in Early => l < here \/ (l = here /\ cmd.pc = "gentx")}
Signed == {l \in Nodes : cmd.pc \in Early => l < here}

\* The nodes with a genesis file without transactions, those whose
\* transaction node k has got, and those with all their files.
Blanks == {l \in Nodes : \/ cmd.pc = "genesis" /\ l < here
                         \/ cmd.pc = "copy"
                         \/ cmd.pc = "collect" /\ here <= l}
Copied(k) == {l \in Nodes : \/ cmd.pc = "copy" /\ (k < here \/ (k = here /\ l < cmd.file))
                            \/ cmd.pc \in {"collect", "done"}}
Final == {l \in Nodes : cmd.pc = "done" \/ (cmd.pc = "collect" /\ l < here)}

\* The genesis transaction of node l in this run.
Own(l) == [memo |-> memo(cmd.nodeIDs[l], l), account |-> <<run, l>>, tokens |-> valTokens(l)]

HasTx(k, l) ==
    /\ cmd.nodeIDs[l] \in DOMAIN disk[k].gentx
    /\ disk[k].gentx[cmd.nodeIDs[l]] = Own(l)

IsDir(d) == d = [node |-> d.node, key |-> d.key, gentx |-> d.gentx, genesis |-> d.genesis,
                 config |-> d.config, app |-> d.app]

IsCmd(c) ==
    c = [pc |-> c.pc, i |-> c.i, file |-> c.file, args |-> c.args, faulty |-> c.faulty,
         nodeIDs |-> c.nodeIDs, genBalances |-> c.genBalances,
         persistentPeers |-> c.persistentPeers, appState |-> c.appState]

Places == {"idle", "node", "key", "gentx", "genesis", "copy", "collect", "done", "failed"}

Form ==
    /\ run \in Nat
    /\ IsCmd(cmd) /\ cmd.args \in Args /\ cmd.pc \in Places
    /\ here \in Nodes /\ cmd.file \in Nodes
    /\ cmd.nodeIDs = [k \in Index |-> cmd.nodeIDs[k]]
    /\ disk = [k \in Index |-> disk[k]]
    /\ \A k \in Index : IsDir(disk[k])

\* What can be read in a directory is of a run that has begun.
IdsInv ==
    \A k \in Index :
        /\ disk[k].node \in {None, TornKey} \cup ((1..run) \X {k})
        /\ \A f \in DOMAIN disk[k].gentx :
               disk[k].gentx[f].account \in {None} \cup ((1..run) \X Index)

NodesInv ==
    /\ \A l \in Inited : cmd.nodeIDs[l] \in (1..run) \X {l} /\ disk[l].node = cmd.nodeIDs[l]
    /\ cmd.persistentPeers = {memo(cmd.nodeIDs[l], l) : l \in Inited}

KeysInv ==
    /\ cmd.genBalances = {<<run, l>> : l \in Keyed}
    /\ \A l \in Keyed : disk[l].key = <<run, l>>

SignedInv == \A l \in Signed : HasTx(l, l) /\ disk[l].app = appConfig(l)

\* Whatever its name, a transaction with an account of this run is the one
\* that this run made for the account's node.
CurrentInv ==
    \A k, l \in Index : \A f \in DOMAIN disk[k].gentx :
        disk[k].gentx[f].account = <<run, l>> => l \in Signed /\ disk[k].gentx[f] = Own(l)

CopiedInv == \A k \in Nodes : \A l \in Copied(k) : HasTx(k, l)

BlankInv == \A l \in Blanks : disk[l].genesis.balances = cmd.genBalances

\* The state that everyone's genesis file gets.
State0 == [balances |-> cmd.genBalances, gentxs |-> {Own(j) : j \in Nodes}]

FinalInv ==
    /\ \A l \in Final :
           /\ disk[l].genesis = [chain |-> run, time |-> run, balances |-> State0.balances,
                                 gentxs |-> State0.gentxs]
           /\ disk[l].config = nodeConfig(l, cmd.persistentPeers)
    /\ cmd.appState = IF Final = {} THEN None ELSE State0

\* The loop over the files begins with the first one.
FileInv == cmd.pc \in Early \cup {"genesis"} => cmd.file = 0

RunInv ==
    /\ run > 0 /\ FileInv
    /\ NodesInv /\ KeysInv /\ SignedInv /\ CurrentInv
    /\ CopiedInv /\ BlankInv /\ FinalInv

FilesInv == Form /\ IdsInv /\ (Active => RunInv) /\ FailsForCause

\* The sizes of things.
LEMMA NodesFit ==
    ASSUME Form
    PROVE  /\ numValidators \in Nat \ {0} /\ Nodes \subseteq Index /\ Index \subseteq Nat
           /\ here \in Nodes /\ here \in Index /\ here \in Nat
           /\ cmd.file \in Nodes /\ cmd.file \in Index /\ cmd.file \in Nat
           /\ \A l \in Nodes : l \in Nat /\ l < numValidators
<1>1. numValidators \in 1..MaxNumValidators /\ MaxNumValidators \in Nat
  BY TestnetAssumption DEF Form, numValidators, args
<1>2. Nodes \subseteq Index /\ Index \subseteq Nat
  BY <1>1 DEF Nodes, Index
<1>3. \A l \in Nodes : l \in Nat /\ l < numValidators
  BY <1>1 DEF Nodes
<1> QED
  BY <1>1, <1>2, <1>3 DEF Form

\* What the arguments determine stays the same during a run.
LEMMA RunFrame ==
    ASSUME cmd'.args = cmd.args
    PROVE  /\ args' = args /\ numValidators' = numValidators /\ Nodes' = Nodes
           /\ \A k : valTokens(k)' = valTokens(k)
           /\ \A x, k : memo(x, k)' = memo(x, k)
           /\ \A k, x : nodeConfig(k, x)' = nodeConfig(k, x)
<1>1. args' = args /\ numValidators' = numValidators /\ Nodes' = Nodes
  BY DEF args, numValidators, Nodes
<1>2. \A k : valTokens(k)' = valTokens(k)
  BY <1>1 DEF valTokens, validatorsStakesAmount
<1>3. \A x, k : memo(x, k)' = memo(x, k)
  BY <1>1 DEF memo
<1>4. \A k, x : nodeConfig(k, x)' = nodeConfig(k, x)
  BY <1>1 DEF nodeConfig, rpcPort
<1> QED
  BY <1>1, <1>2, <1>3, <1>4

\* A transaction stays as it was signed.
LEMMA OwnFrame ==
    ASSUME cmd'.args = cmd.args, run' = run, NEW l, cmd'.nodeIDs[l] = cmd.nodeIDs[l]
    PROVE  Own(l)' = Own(l)
<1>1. valTokens(l)' = valTokens(l) /\ memo(cmd.nodeIDs[l], l)' = memo(cmd'.nodeIDs[l], l)
  BY RunFrame DEF memo
<1> QED
  BY <1>1, RunFrame DEF Own

\* Identities of different nodes differ, whatever run they are of.
LEMMA IdsDiffer ==
    ASSUME NodesInv, NEW j \in Inited, NEW l \in Inited, cmd.nodeIDs[j] = cmd.nodeIDs[l]
    PROVE  j = l
<1>1. cmd.nodeIDs[j] \in (1..run) \X {j} /\ cmd.nodeIDs[l] \in (1..run) \X {l}
  BY DEF NodesInv
<1> QED
  BY <1>1

\* A transaction of this run can be read.
LEMMA OwnReadable ==
    ASSUME Form, NEW l \in Nodes
    PROVE  Own(l) # Torn /\ Own(l).account = <<run, l>> /\ Own(l).tokens = valTokens(l)
<1>1. run \in Nat /\ l \in Nat
  BY NodesFit DEF Form
<1>2. None # <<run, l>>
  BY <1>1, TestnetAssumption
<1> QED
  BY <1>2 DEF Own, Torn

\* The directories D are those on disk, but for node h.
Differs(D, h, d) ==
    /\ D = [k \in Index |-> D[k]] /\ \A k \in Index : IsDir(D[k])
    /\ D[h] = d /\ \A k \in Index \ {h} : D[k] = disk[k]

\* One directory changes.
LEMMA OneDir ==
    ASSUME Form, NEW h \in Index, NEW d, IsDir(d), NEW D, D = [disk EXCEPT ![h] = d]
    PROVE  Differs(D, h, d)
<1>1. disk = [k \in Index |-> disk[k]] /\ \A k \in Index : IsDir(disk[k])
  BY DEF Form
<1>2. /\ D = [k \in Index |-> D[k]]
      /\ D[h] = d /\ \A k \in Index \ {h} : D[k] = disk[k]
  BY <1>1
<1> QED
  BY <1>1, <1>2 DEF Differs

\* A step that ends the command with an error of its own, or after it removed
\* everything, leaves directories that another run can start from.
LEMMA FailureKeeps ==
    ASSUME FilesInv, run' = run, NEW own \in BOOLEAN, cmd' = [Failed EXCEPT !.faulty = own],
           own \/ \A k \in Index : disk'[k] = EmptyDir,
           disk' = [k \in Index |-> disk'[k]],
           \A k \in Index : IsDir(disk'[k]),
           IdsInv'
    PROVE  FilesInv'
<1>0. Form /\ IsCmd(cmd)
  BY DEF FilesInv, Form
<1>1. /\ cmd'.pc = "failed" /\ cmd'.faulty = own /\ cmd'.args = cmd.args
      /\ cmd'.i = cmd.i /\ cmd'.file = cmd.file /\ cmd'.nodeIDs = cmd.nodeIDs
      /\ IsCmd(cmd')
  BY <1>0 DEF IsCmd, Failed
<1>2. Nodes' = Nodes
  BY <1>1, RunFrame
<1>3. Form'
  BY <1>0, <1>1, <1>2 DEF Form, here, Places
<1>4. ~Active' /\ FailsForCause'
  BY <1>1 DEF Active, Running, FailsForCause
<1> QED
  BY <1>3, <1>4 DEF FilesInv

\* A file is added or replaced.
LEMMA WriteFile ==
    ASSUME NEW files, NEW name, NEW contents
    PROVE  /\ DOMAIN Write(files, name, contents) = DOMAIN files \cup {name}
           /\ Write(files, name, contents)[name] = contents
           /\ \A f \in DOMAIN files \ {name} : Write(files, name, contents)[f] = files[f]
<1> QED
  BY DEF Write

\* A file that is torn in one directory.
LEMMA TearKeepsIds ==
    ASSUME Form, IdsInv, run' = run, NEW h \in Index, NEW name,
           \/ disk' = [disk EXCEPT ![h].gentx = Write(@, name, Torn)]
           \/ disk' = [disk EXCEPT ![h].genesis = Torn]
           \/ disk' = [disk EXCEPT ![h].node = TornKey]
           \/ disk' = [disk EXCEPT ![h].key = TornKey]
    PROVE  /\ disk' = [k \in Index |-> disk'[k]] /\ \A k \in Index : IsDir(disk'[k])
           /\ IdsInv'
<1>0. IsDir(disk[h])
  BY DEF Form
<1>1. CASE disk' = [disk EXCEPT ![h].gentx = Write(@, name, Torn)]
  <2> DEFINE files == Write(disk[h].gentx, name, Torn)
             d == [disk[h] EXCEPT !.gentx = files]
  <2>1. IsDir(d) /\ d.node = disk[h].node /\ d.gentx = files
    <3> HIDE DEF files
    <3> QED
      BY <1>0 DEF IsDir
  <2>2. disk' = [disk EXCEPT ![h] = d]
    BY <1>1
  <2>3. \A f \in DOMAIN files :
            f = name \/ (f \in DOMAIN disk[h].gentx /\ files[f] = disk[h].gentx[f])
    BY DEF Write
  <2>4. files[name].account = None
    BY DEF Write, Torn
  <2> HIDE DEF d, files
  <2>5. /\ disk' = [k \in Index |-> disk'[k]] /\ \A k \in Index : IsDir(disk'[k])
        /\ disk'[h] = d /\ \A k \in Index \ {h} : disk'[k] = disk[k]
    <3>1. Differs(disk', h, d)
      BY <2>1, <2>2, OneDir, Zenon
    <3> QED
      BY <3>1, Zenon DEF Differs
  <2>6. IdsInv'
    BY <2>1, <2>3, <2>4, <2>5 DEF IdsInv
  <2> QED
    BY <2>5, <2>6
<1>2. CASE disk' = [disk EXCEPT ![h].genesis = Torn]
  <2> DEFINE d == [disk[h] EXCEPT !.genesis = Torn]
  <2>1. IsDir(d) /\ d.node = disk[h].node /\ d.gentx = disk[h].gentx
    BY <1>0 DEF IsDir
  <2>2. disk' = [disk EXCEPT ![h] = d]
    BY <1>2
  <2> HIDE DEF d
  <2>3. /\ disk' = [k \in Index |-> disk'[k]] /\ \A k \in Index : IsDir(disk'[k])
        /\ disk'[h] = d /\ \A k \in Index \ {h} : disk'[k] = disk[k]
    <3>1. Differs(disk', h, d)
      BY <2>1, <2>2, OneDir, Zenon
    <3> QED
      BY <3>1, Zenon DEF Differs
  <2>4. IdsInv'
    BY <2>1, <2>3 DEF IdsInv
  <2> QED
    BY <2>3, <2>4
<1>3. CASE \/ disk' = [disk EXCEPT ![h].node = TornKey]
           \/ disk' = [disk EXCEPT ![h].key = TornKey]
  <2> DEFINE n == [disk[h] EXCEPT !.node = TornKey]
             y == [disk[h] EXCEPT !.key = TornKey]
  <2>1. /\ IsDir(n) /\ n.node = TornKey /\ n.gentx = disk[h].gentx
        /\ IsDir(y) /\ y.node = disk[h].node /\ y.gentx = disk[h].gentx
    BY <1>0 DEF IsDir
  <2>2. disk' = [disk EXCEPT ![h] = n] \/ disk' = [disk EXCEPT ![h] = y]
    BY <1>3
  <2> HIDE DEF n, y
  <2>3. PICK d \in {n, y} : disk' = [disk EXCEPT ![h] = d]
    BY <2>2
  <2>4. IsDir(d) /\ d.node \in {TornKey, disk[h].node} /\ d.gentx = disk[h].gentx
    BY <2>1, <2>3
  <2>5. /\ disk' = [k \in Index |-> disk'[k]] /\ \A k \in Index : IsDir(disk'[k])
        /\ disk'[h] = d /\ \A k \in Index \ {h} : disk'[k] = disk[k]
    <3>1. Differs(disk', h, d)
      BY <2>3, <2>4, OneDir, Zenon
    <3> QED
      BY <3>1, Zenon DEF Differs
  <2>6. IdsInv'
    BY <2>4, <2>5 DEF IdsInv
  <2> QED
    BY <2>5, <2>6
<1> QED
  BY <1>1, <1>2, <1>3

\* A stop or an error at any step, with a file torn or not.
LEMMA StopKeeps ==
    ASSUME FilesInv, StopInPlace
    PROVE  FilesInv'
<1>0. Form /\ IdsInv /\ here \in Index
  BY NodesFit DEF FilesInv
<1>1. cmd' = [Failed EXCEPT !.faulty = TRUE] /\ run' = run
  BY DEF StopInPlace
<1>2. /\ disk' = [k \in Index |-> disk'[k]] /\ \A k \in Index : IsDir(disk'[k])
      /\ IdsInv'
  <2>1. CASE disk' = disk
    BY <1>0, <1>1, <2>1 DEF Form, IdsInv
  <2>2. CASE TearFile
    BY <1>0, <1>1, <2>2, TearKeepsIds DEF TearFile
  <2> QED
    BY <2>1, <2>2 DEF StopInPlace
<1> QED
  BY <1>1, <1>2, FailureKeeps

\* An error in the first steps removes directories, all of them if that
\* meets no error of its own.
LEMMA RemoveKeeps ==
    ASSUME FilesInv, FailAndRemove \/ TornKeyRefused
    PROVE  FilesInv'
<1>0. Form /\ IdsInv
  BY DEF FilesInv
<1>1. run' = run
  BY DEF FailAndRemove, TornKeyRefused
<1>2. PICK survivors \in SUBSET Index, own \in BOOLEAN :
          /\ disk' = [k \in Index |-> IF k \in survivors THEN disk[k] ELSE EmptyDir]
          /\ cmd' = [Failed EXCEPT !.faulty = own]
          /\ own \/ survivors = {}
  <2>1. CASE FailAndRemove
    BY <2>1 DEF FailAndRemove, RemoveAll
  <2>2. CASE TornKeyRefused
    <3>1. PICK survivors \in SUBSET Index :
              /\ disk' = [k \in Index |-> IF k \in survivors THEN disk[k] ELSE EmptyDir]
              /\ cmd' = [Failed EXCEPT !.faulty = (survivors # {})]
      BY <2>2 DEF TornKeyRefused, RemoveAll
    <3>2. (survivors # {}) \in BOOLEAN
      OBVIOUS
    <3> QED
      BY <3>1, <3>2
  <2> QED
    BY <2>1, <2>2
<1>3. /\ IsDir(EmptyDir) /\ EmptyDir.node = None /\ DOMAIN EmptyDir.gentx = {}
  BY DEF IsDir, EmptyDir
<1>4. \A k \in Index : disk'[k] = disk[k] \/ disk'[k] = EmptyDir
  BY <1>2
<1>5. disk' = [k \in Index |-> disk'[k]] /\ \A k \in Index : IsDir(disk'[k])
  BY <1>0, <1>2, <1>3, <1>4 DEF Form
<1>6. IdsInv'
  BY <1>0, <1>1, <1>3, <1>4 DEF IdsInv
<1>7. own \/ \A k \in Index : disk'[k] = EmptyDir
  BY <1>2
<1> QED
  BY <1>1, <1>2, <1>5, <1>6, <1>7, FailureKeeps

\* The command is in its initial state after it was started, and nothing on
\* disk can be taken for a result of the new run.
LEMMA StartKeeps ==
    ASSUME FilesInv, NEW a \in Args, Start(a)
    PROVE  FilesInv'
<1>0. Form /\ IdsInv
  BY DEF FilesInv
<1>r. run \in Nat
  BY <1>0 DEF Form
<1>1. run' = run + 1 /\ disk' = disk
  BY DEF Start
<1>2. /\ cmd'.pc = IF \E k \in DOMAIN a.stakes : a.stakes[k] # None /\ a.stakes[k] < 0
                   THEN "failed" ELSE "node"
      /\ cmd'.args = a /\ cmd'.i = 0 /\ cmd'.file = 0
      /\ cmd'.nodeIDs = [k \in Index |-> None]
      /\ cmd'.genBalances = {} /\ cmd'.persistentPeers = {} /\ cmd'.appState = None
      /\ IsCmd(cmd')
  BY DEF Start, Locals, IsCmd
<1>3. 0 \in Nodes' /\ \A l \in Nodes' : l \in Nat
  BY <1>2, TestnetAssumption DEF Nodes, numValidators, args
<1>4. Form'
  BY <1>0, <1>r, <1>1, <1>2, <1>3 DEF Form, here, Places
<1>5. IdsInv'
  BY <1>0, <1>r, <1>1 DEF IdsInv
<1>6. CASE cmd'.pc = "failed"
  <2>1. ~Active'
    BY <1>6 DEF Active, Running
  <2>2. FailsForCause'
    BY <1>2, <1>6 DEF FailsForCause, args
  <2> QED
    BY <1>4, <1>5, <2>1, <2>2 DEF FilesInv
<1>7. CASE cmd'.pc = "node"
  <2>1. /\ Inited' = {} /\ Keyed' = {} /\ Signed' = {}
        /\ Blanks' = {} /\ Final' = {} /\ \A k : Copied(k)' = {}
    BY <1>2, <1>3, <1>7 DEF Inited, Keyed, Signed, Blanks, Final, Copied, here, Early
  <2>2. NodesInv' /\ KeysInv' /\ SignedInv' /\ BlankInv' /\ CopiedInv' /\ FinalInv'
    BY <1>2, <2>1 DEF NodesInv, KeysInv, SignedInv, BlankInv, CopiedInv, FinalInv
  <2>3. CurrentInv'
    <3> SUFFICES ASSUME NEW k \in Index, NEW l \in Index, NEW f \in DOMAIN disk[k].gentx,
                        disk[k].gentx[f].account = <<run + 1, l>>
                 PROVE  FALSE
      BY <1>1 DEF CurrentInv
    <3>1. disk[k].gentx[f].account = None \/ disk[k].gentx[f].account \in (1..run) \X Index
      BY <1>0 DEF IdsInv
    <3>2. None # <<run + 1, l>>
      BY <1>r, TestnetAssumption DEF Index
    <3>3. <<run + 1, l>> \notin (1..run) \X Index
      BY <1>r
    <3> QED
      BY <3>1, <3>2, <3>3
  <2>4. FailsForCause' /\ FileInv'
    BY <1>2, <1>7 DEF FailsForCause, FileInv
  <2> QED
    BY <1>r, <1>1, <1>4, <1>5, <2>2, <2>3, <2>4 DEF FilesInv, RunInv
<1> QED
  BY <1>2, <1>6, <1>7

\* Before the first run the directories are empty.
LEMMA FilesStart == Init => FilesInv
<1> SUFFICES ASSUME Init PROVE FilesInv
  OBVIOUS
<1>1. PICK a \in Args : cmd = [Locals(a) EXCEPT !.pc = "idle"]
  BY DEF Init
<1>2. /\ cmd.pc = "idle" /\ cmd.args = a /\ cmd.i = 0 /\ cmd.file = 0
      /\ cmd.nodeIDs = [k \in Index |-> None] /\ IsCmd(cmd)
  BY <1>1 DEF Locals, IsCmd
<1>3. 0 \in Nodes
  BY <1>2, TestnetAssumption DEF Nodes, numValidators, args
<1>4. /\ IsDir(EmptyDir) /\ EmptyDir.node = None /\ DOMAIN EmptyDir.gentx = {}
  BY DEF IsDir, EmptyDir
<1>5. run = 0 /\ disk = [k \in Index |-> disk[k]] /\ \A k \in Index : disk[k] = EmptyDir
  BY DEF Init
<1>6. Form
  BY <1>2, <1>3, <1>4, <1>5 DEF Form, here, Places
<1>7. IdsInv
  BY <1>4, <1>5 DEF IdsInv
<1>8. ~Active /\ FailsForCause
  BY <1>2 DEF Active, Running, FailsForCause
<1> QED
  BY <1>6, <1>7, <1>8 DEF FilesInv

\* A node gets its identity, or keeps one of an earlier run.
LEMMA InitializeNodeKeeps ==
    ASSUME FilesInv, InitializeNode
    PROVE  FilesInv'
<1> DEFINE node == IF disk[here].node = None THEN <<run, here>> ELSE disk[here].node
           d == [disk[here] EXCEPT !.node = node]
<1>0. /\ Form /\ IdsInv /\ cmd.pc = "node" /\ RunInv /\ here \in Index /\ here \in Nodes
      /\ IsCmd(cmd) /\ IsDir(disk[here])
  BY NodesFit DEF FilesInv, InitializeNode, Active, Running, Form
<1>1. node \in (1..run) \X {here}
  <2>1. disk[here].node \in {None} \cup ((1..run) \X {here})
    BY <1>0 DEF IdsInv, InitializeNode
  <2>2. run \in 1..run
    <3>1. run \in Nat
      BY <1>0 DEF Form
    <3>2. run > 0
      BY <1>0 DEF RunInv
    <3> QED
      BY <3>1, <3>2
  <2> QED
    BY <2>1, <2>2
<1> HIDE DEF node
<1>2. /\ cmd'.pc = "key" /\ cmd'.i = cmd.i /\ cmd'.file = cmd.file /\ cmd'.args = cmd.args
      /\ cmd'.nodeIDs = [cmd.nodeIDs EXCEPT ![here] = node]
      /\ cmd'.persistentPeers = cmd.persistentPeers \cup {memo(node, here)}
      /\ cmd'.genBalances = cmd.genBalances /\ cmd'.appState = cmd.appState
      /\ IsCmd(cmd')
  <2> DEFINE ids == [cmd.nodeIDs EXCEPT ![here] = node]
             peers == cmd.persistentPeers \cup {memo(node, here)}
  <2>1. cmd' = [Goto("key", here) EXCEPT !.nodeIDs = ids, !.persistentPeers = peers]
    BY DEF InitializeNode, Goto, node
  <2> HIDE DEF ids, peers
  <2>2. /\ cmd'.pc = "key" /\ cmd'.i = cmd.i /\ cmd'.file = cmd.file /\ cmd'.args = cmd.args
        /\ cmd'.nodeIDs = ids /\ cmd'.persistentPeers = peers
        /\ cmd'.genBalances = cmd.genBalances /\ cmd'.appState = cmd.appState
        /\ IsCmd(cmd')
    BY <1>0, <2>1 DEF Goto, here, IsCmd
  <2> QED
    BY <2>2 DEF ids, peers
<1>3. run' = run /\ disk' = [disk EXCEPT ![here] = d]
  BY DEF InitializeNode, node
<1>4. /\ IsDir(d) /\ d.node = node /\ d.gentx = disk[here].gentx /\ d.key = disk[here].key
      /\ d.app = disk[here].app
  BY <1>0 DEF IsDir
<1> HIDE DEF d
<1>5. Differs(disk', here, d)
  BY <1>0, <1>3, <1>4, OneDir, Zenon
<1>6. \A k \in Index : /\ disk'[k].gentx = disk[k].gentx /\ disk'[k].key = disk[k].key
                       /\ disk'[k].app = disk[k].app
  BY <1>4, <1>5 DEF Differs
<1>7. /\ Nodes' = Nodes /\ here' = here /\ Nodes \subseteq Index
      /\ \A l \in Nodes : l \in Nat /\ here \in Nat
  BY <1>0, <1>2, RunFrame, NodesFit DEF here
<1>8. /\ Inited' = Inited \cup {here} /\ here \notin Inited /\ Inited \subseteq Nodes
      /\ Keyed' = Keyed /\ Keyed \subseteq Inited /\ Signed' = Signed /\ Signed \subseteq Inited
      /\ Blanks' = {} /\ Final' = {} /\ Final = {} /\ \A k : Copied(k)' = {}
  BY <1>0, <1>2, <1>7 DEF Inited, Keyed, Signed, Blanks, Final, Copied, Early
<1>9. /\ cmd'.nodeIDs[here] = node
      /\ \A l \in Inited : cmd'.nodeIDs[l] = cmd.nodeIDs[l] /\ Own(l)' = Own(l)
  <2>1. cmd'.nodeIDs[here] = node /\ \A l \in Inited : cmd'.nodeIDs[l] = cmd.nodeIDs[l]
    BY <1>0, <1>2, <1>7, <1>8 DEF Form
  <2> QED
    BY <1>2, <1>3, <2>1, OwnFrame
<1>10. Form'
  <2>1. cmd'.nodeIDs = [k \in Index |-> cmd'.nodeIDs[k]]
    BY <1>0, <1>2 DEF Form
  <2> QED
    BY <1>0, <1>2, <1>3, <1>5, <1>7, <2>1 DEF Form, Differs, Places
<1>11. IdsInv'
  BY <1>0, <1>1, <1>3, <1>4, <1>5, <1>6 DEF IdsInv, Differs
<1>12. NodesInv'
  <2>1. \A l \in Inited' : cmd'.nodeIDs[l] \in (1..run') \X {l} /\ disk'[l].node = cmd'.nodeIDs[l]
    BY <1>0, <1>1, <1>3, <1>4, <1>5, <1>7, <1>8, <1>9 DEF NodesInv, RunInv, Differs
  <2>2. cmd'.persistentPeers = {memo(cmd'.nodeIDs[l], l) : l \in Inited'}
    <3>1. cmd.persistentPeers = {memo(cmd.nodeIDs[l], l) : l \in Inited}
      BY <1>0 DEF RunInv, NodesInv
    <3> QED
      BY <1>2, <1>8, <1>9, <3>1
  <2>3. \A x, l : memo(x, l)' = memo(x, l)
    BY <1>2, RunFrame
  <2>4. cmd'.persistentPeers = {memo(cmd.nodeIDs[l], l) : l \in Inited}'
    BY <2>2, <2>3, <1>2, RunFrame DEF memo
  <2> QED
    BY <2>1, <2>4 DEF NodesInv
<1>13. KeysInv'
  BY <1>0, <1>2, <1>3, <1>6, <1>7, <1>8 DEF KeysInv, RunInv
<1>14. SignedInv'
  BY <1>0, <1>3, <1>6, <1>7, <1>8, <1>9 DEF SignedInv, RunInv, HasTx
<1>15. CurrentInv'
  BY <1>0, <1>3, <1>6, <1>8, <1>9 DEF CurrentInv, RunInv
<1>16. CopiedInv' /\ BlankInv' /\ FinalInv'
  BY <1>0, <1>2, <1>8 DEF CopiedInv, BlankInv, FinalInv, RunInv
<1>17. FailsForCause' /\ run' > 0 /\ FileInv'
  BY <1>0, <1>2, <1>3 DEF FailsForCause, RunInv, FileInv, Early
<1> QED
  BY <1>10, <1>11, <1>12, <1>13, <1>14, <1>15, <1>16, <1>17 DEF FilesInv, RunInv

\* The account key of a node is new, and so is its account at genesis.
LEMMA GenerateKeyKeeps ==
    ASSUME FilesInv, GenerateKey
    PROVE  FilesInv'
<1> DEFINE d == [disk[here] EXCEPT !.key = <<run, here>>]
<1>0. /\ Form /\ IdsInv /\ cmd.pc = "key" /\ RunInv /\ here \in Index /\ here \in Nodes
      /\ IsCmd(cmd) /\ IsDir(disk[here])
  BY NodesFit DEF FilesInv, GenerateKey, Active, Running, Form
<1>2. /\ cmd'.pc = "gentx" /\ cmd'.i = cmd.i /\ cmd'.file = cmd.file /\ cmd'.args = cmd.args
      /\ cmd'.nodeIDs = cmd.nodeIDs /\ cmd'.persistentPeers = cmd.persistentPeers
      /\ cmd'.genBalances = cmd.genBalances \cup {<<run, here>>}
      /\ cmd'.appState = cmd.appState /\ IsCmd(cmd')
  <2> DEFINE balances == cmd.genBalances \cup {<<run, here>>}
  <2>1. cmd' = [Goto("gentx", here) EXCEPT !.genBalances = balances]
    BY DEF GenerateKey, Goto
  <2> HIDE DEF balances
  <2>2. /\ cmd'.pc = "gentx" /\ cmd'.i = cmd.i /\ cmd'.file = cmd.file /\ cmd'.args = cmd.args
        /\ cmd'.nodeIDs = cmd.nodeIDs /\ cmd'.persistentPeers = cmd.persistentPeers
        /\ cmd'.genBalances = balances
        /\ cmd'.appState = cmd.appState /\ IsCmd(cmd')
    BY <1>0, <2>1 DEF Goto, here, IsCmd
  <2> QED
    BY <2>2 DEF balances
<1>3. run' = run /\ disk' = [disk EXCEPT ![here] = d]
  BY DEF GenerateKey
<1>4. /\ IsDir(d) /\ d.key = <<run, here>> /\ d.gentx = disk[here].gentx
      /\ d.node = disk[here].node /\ d.app = disk[here].app
  BY <1>0 DEF IsDir
<1> HIDE DEF d
<1>5. Differs(disk', here, d)
  BY <1>0, <1>3, <1>4, OneDir, Zenon
<1>6. \A k \in Index : /\ disk'[k].gentx = disk[k].gentx /\ disk'[k].node = disk[k].node
                       /\ disk'[k].app = disk[k].app
  BY <1>4, <1>5 DEF Differs
<1>7. /\ Nodes' = Nodes /\ here' = here /\ Nodes \subseteq Index
      /\ \A l \in Nodes : l \in Nat /\ here \in Nat
  BY <1>0, <1>2, RunFrame, NodesFit DEF here
<1>8. /\ Inited' = Inited /\ Inited \subseteq Nodes
      /\ Keyed' = Keyed \cup {here} /\ here \notin Keyed /\ Keyed \subseteq Nodes
      /\ Signed' = Signed /\ Signed \subseteq Inited
      /\ Blanks' = {} /\ Final' = {} /\ Final = {} /\ \A k : Copied(k)' = {}
  BY <1>0, <1>2, <1>7 DEF Inited, Keyed, Signed, Blanks, Final, Copied, Early
<1>9. \A l : Own(l)' = Own(l)
  BY <1>2, <1>3, OwnFrame
<1>10. Form'
  BY <1>0, <1>2, <1>3, <1>5, <1>7 DEF Form, Differs, Places
<1>11. IdsInv'
  BY <1>0, <1>3, <1>6 DEF IdsInv
<1>12. NodesInv'
  BY <1>0, <1>2, <1>3, <1>6, <1>7, <1>8, RunFrame DEF NodesInv, RunInv, memo
<1>13. KeysInv'
  <2>1. cmd.genBalances = {<<run, l>> : l \in Keyed} /\ \A l \in Keyed : disk[l].key = <<run, l>>
    BY <1>0 DEF KeysInv, RunInv
  <2>2. cmd'.genBalances = {<<run, l>> : l \in Keyed \cup {here}}
    BY <1>2, <2>1
  <2>3. \A l \in Keyed \cup {here} : disk'[l].key = <<run, l>>
    BY <1>4, <1>5, <1>7, <1>8, <2>1 DEF Differs
  <2> QED
    BY <1>3, <1>8, <2>2, <2>3 DEF KeysInv
<1>14. SignedInv'
  BY <1>0, <1>2, <1>3, <1>6, <1>7, <1>8, <1>9 DEF SignedInv, RunInv, HasTx
<1>15. CurrentInv'
  BY <1>0, <1>3, <1>6, <1>8, <1>9 DEF CurrentInv, RunInv
<1>16. CopiedInv' /\ BlankInv' /\ FinalInv'
  BY <1>0, <1>2, <1>8 DEF CopiedInv, BlankInv, FinalInv, RunInv
<1>17. FailsForCause' /\ run' > 0 /\ FileInv'
  BY <1>0, <1>2, <1>3 DEF FailsForCause, RunInv, FileInv, Early
<1> QED
  BY <1>10, <1>11, <1>12, <1>13, <1>14, <1>15, <1>16, <1>17 DEF FilesInv, RunInv

\* The command goes on at the next node, and nothing else of it changes.
Turns(c, place, next) ==
    /\ c.file = cmd.file /\ c.args = cmd.args /\ c.faulty = cmd.faulty
    /\ c.nodeIDs = cmd.nodeIDs /\ c.genBalances = cmd.genBalances
    /\ c.persistentPeers = cmd.persistentPeers /\ c.appState = cmd.appState
    /\ IsCmd(c) /\ c.i \in Nodes
    /\ \/ here + 1 < numValidators /\ c.pc = place /\ c.i = here + 1
       \/ here + 1 = numValidators /\ c.pc = next /\ c.i = 0

\* The next turn of a loop over the nodes.
LEMMA NextNodeTurns ==
    ASSUME Form, NEW place, NEW next, NEW c, c = NextNode(place, next)
    PROVE  Turns(c, place, next)
<1>0. /\ IsCmd(cmd) /\ here \in Nat /\ numValidators \in Nat \ {0} /\ here < numValidators
  BY NodesFit DEF Form
<1>1. CASE here + 1 < numValidators
  <2>1. c = [cmd EXCEPT !.pc = place, !.i = here + 1]
    BY <1>1 DEF NextNode, Goto
  <2>2. here + 1 \in Nodes
    BY <1>0, <1>1 DEF Nodes
  <2>3. /\ c.file = cmd.file /\ c.args = cmd.args /\ c.faulty = cmd.faulty
        /\ c.nodeIDs = cmd.nodeIDs /\ c.genBalances = cmd.genBalances
        /\ c.persistentPeers = cmd.persistentPeers /\ c.appState = cmd.appState
        /\ IsCmd(c) /\ c.pc = place /\ c.i = here + 1
    BY <1>0, <2>1 DEF IsCmd
  <2> QED
    BY <1>1, <2>2, <2>3 DEF Turns
<1>2. CASE here + 1 = numValidators
  <2>1. c = [cmd EXCEPT !.pc = next, !.i = 0]
    BY <1>0, <1>2 DEF NextNode, Goto
  <2>2. 0 \in Nodes
    BY <1>0 DEF Nodes
  <2>3. /\ c.file = cmd.file /\ c.args = cmd.args /\ c.faulty = cmd.faulty
        /\ c.nodeIDs = cmd.nodeIDs /\ c.genBalances = cmd.genBalances
        /\ c.persistentPeers = cmd.persistentPeers /\ c.appState = cmd.appState
        /\ IsCmd(c) /\ c.pc = next /\ c.i = 0
    BY <1>0, <2>1 DEF IsCmd
  <2> QED
    BY <1>2, <2>2, <2>3 DEF Turns
<1> QED
  BY <1>0, <1>1, <1>2

\* The directory e is d with new transactions and app.toml.
TxEdited(e, d, x, y) ==
    IsDir(e) /\ e.gentx = x /\ e.app = y /\ e.node = d.node /\ e.key = d.key

\* The directory e is d with a new configuration and genesis file.
GenesisEdited(e, d, x, y) ==
    /\ IsDir(e) /\ e.config = x /\ e.genesis = y
    /\ e.node = d.node /\ e.key = d.key /\ e.gentx = d.gentx /\ e.app = d.app

\* Two files of a directory change.
LEMMA EditTx ==
    ASSUME NEW d, IsDir(d), NEW x, NEW y, NEW e, e = [d EXCEPT !.gentx = x, !.app = y]
    PROVE  TxEdited(e, d, x, y)
<1>1. e = [node |-> d.node, key |-> d.key, gentx |-> x, genesis |-> d.genesis,
           config |-> d.config, app |-> y]
  BY DEF IsDir
<1> QED
  BY <1>1 DEF IsDir, TxEdited

\* Two files of a directory change.
LEMMA EditGenesis ==
    ASSUME NEW d, IsDir(d), NEW x, NEW y, NEW e, e = [d EXCEPT !.config = x, !.genesis = y]
    PROVE  GenesisEdited(e, d, x, y)
<1>1. e = [node |-> d.node, key |-> d.key, gentx |-> d.gentx, genesis |-> y,
           config |-> x, app |-> d.app]
  BY DEF IsDir
<1> QED
  BY <1>1 DEF IsDir, GenesisEdited

\* A genesis transaction is signed for the identity and the key of its node.
LEMMA WriteGentxKeeps ==
    ASSUME FilesInv, WriteGentx
    PROVE  FilesInv'
<1> DEFINE name == cmd.nodeIDs[here]
           files == Write(disk[here].gentx, name, Own(here))
           d == [disk[here] EXCEPT !.gentx = files, !.app = appConfig(here)]
<1>0. /\ Form /\ IdsInv /\ cmd.pc = "gentx" /\ RunInv /\ here \in Index /\ here \in Nodes
      /\ IsDir(disk[here]) /\ cmd' = NextNode("node", "genesis") /\ run' = run
  BY NodesFit DEF FilesInv, WriteGentx, Active, Running, Form
<1>2. /\ cmd'.file = cmd.file /\ cmd'.args = cmd.args
      /\ cmd'.nodeIDs = cmd.nodeIDs /\ cmd'.genBalances = cmd.genBalances
      /\ cmd'.persistentPeers = cmd.persistentPeers /\ cmd'.appState = cmd.appState
      /\ IsCmd(cmd') /\ cmd'.i \in Nodes
      /\ \/ here + 1 < numValidators /\ cmd'.pc = "node" /\ cmd'.i = here + 1
         \/ here + 1 = numValidators /\ cmd'.pc = "genesis" /\ cmd'.i = 0
  <2>1. Turns(cmd', "node", "genesis")
    BY <1>0, NextNodeTurns, Zenon
  <2> QED
    BY <2>1, Zenon DEF Turns
<1>3. disk' = [disk EXCEPT ![here] = d]
  BY DEF WriteGentx, Own
<1>4. /\ \A f \in DOMAIN files : \/ f = name
                                 \/ f \in DOMAIN disk[here].gentx /\ files[f] = disk[here].gentx[f]
      /\ name \in DOMAIN files /\ files[name] = Own(here)
  BY DEF Write
<1> HIDE DEF files
<1>5. IsDir(d) /\ d.gentx = files /\ d.node = disk[here].node /\ d.key = disk[here].key
      /\ d.app = appConfig(here)
  <2>1. IsDir(disk[here])
    BY <1>0
  <2>2. TxEdited(d, disk[here], files, appConfig(here))
    BY <2>1, EditTx
  <2> HIDE DEF d
  <2> QED
    BY <2>2 DEF TxEdited
<1> HIDE DEF d
<1>6. Differs(disk', here, d)
  BY <1>0, <1>3, <1>5, OneDir, Zenon
<1>7. \A k \in Index : disk'[k].node = disk[k].node /\ disk'[k].key = disk[k].key
  BY <1>5, <1>6 DEF Differs
<1>8. /\ Nodes' = Nodes /\ here' = cmd'.i /\ numValidators \in Nat /\ Nodes \subseteq Index
      /\ \A l \in Nodes : l \in Nat /\ here \in Nat /\ l < numValidators
  BY <1>0, <1>2, RunFrame, NodesFit DEF here
<1>9. /\ Inited' = Inited /\ Inited \subseteq Nodes /\ here \in Inited
      /\ Keyed' = Keyed /\ Keyed \subseteq Nodes
      /\ Signed' = Signed \cup {here} /\ here \notin Signed /\ Signed \subseteq Inited
      /\ Blanks' = {} /\ Final' = {} /\ Final = {} /\ \A k : Copied(k)' = {}
  BY <1>0, <1>2, <1>8 DEF Inited, Keyed, Signed, Blanks, Final, Copied, Early
<1>10. \A l : Own(l)' = Own(l)
  BY <1>0, <1>2, OwnFrame
<1>11. Form'
  BY <1>0, <1>2, <1>6, <1>8 DEF Form, Differs, Places
<1>12. Own(here).account = <<run, here>> /\ <<run, here>> \in (1..run) \X Index
  <2>1. run \in Nat /\ run > 0
    BY <1>0 DEF Form, RunInv
  <2> QED
    BY <1>0, <2>1, OwnReadable
<1>13. IdsInv'
  <2> SUFFICES ASSUME NEW k \in Index
               PROVE  /\ disk'[k].node \in {None, TornKey} \cup ((1..run) \X {k})
                      /\ \A f \in DOMAIN disk'[k].gentx :
                             disk'[k].gentx[f].account \in {None} \cup ((1..run) \X Index)
    BY <1>0 DEF IdsInv
  <2>1. disk'[k].node \in {None, TornKey} \cup ((1..run) \X {k})
    BY <1>0, <1>7 DEF IdsInv
  <2>2. CASE k # here
    BY <1>0, <1>6, <2>1, <2>2 DEF IdsInv, Differs
  <2>3. CASE k = here
    BY <1>0, <1>4, <1>5, <1>6, <1>12, <2>1, <2>3 DEF IdsInv, Differs
  <2> QED
    BY <2>2, <2>3
<1>14. NodesInv'
  BY <1>0, <1>2, <1>7, <1>8, <1>9, RunFrame DEF NodesInv, RunInv, memo
<1>15. KeysInv'
  BY <1>0, <1>2, <1>7, <1>8, <1>9 DEF KeysInv, RunInv
<1>16. SignedInv'
  <2> SUFFICES ASSUME NEW l \in Signed \cup {here}
               PROVE  /\ cmd.nodeIDs[l] \in DOMAIN disk'[l].gentx
                      /\ disk'[l].gentx[cmd.nodeIDs[l]] = Own(l) /\ disk'[l].app = appConfig(l)
    BY <1>2, <1>9, <1>10 DEF SignedInv, HasTx
  <2>1. CASE l = here
    BY <1>4, <1>5, <1>6, <2>1 DEF Differs
  <2>2. CASE l # here
    BY <1>0, <1>6, <1>8, <1>9, <2>2 DEF SignedInv, HasTx, RunInv, Differs
  <2> QED
    BY <2>1, <2>2
<1>17. CurrentInv'
  <2> SUFFICES ASSUME NEW k \in Index, NEW l \in Index, NEW f \in DOMAIN disk'[k].gentx,
                      disk'[k].gentx[f].account = <<run, l>>
               PROVE  l \in Signed \cup {here} /\ disk'[k].gentx[f] = Own(l)
    BY <1>0, <1>9, <1>10 DEF CurrentInv
  <2>1. CASE k = here /\ f = name
    BY <1>4, <1>5, <1>6, <1>12, <2>1 DEF Differs
  <2>2. CASE ~(k = here /\ f = name)
    <3>1. f \in DOMAIN disk[k].gentx /\ disk'[k].gentx[f] = disk[k].gentx[f]
      BY <1>4, <1>5, <1>6, <2>2 DEF Differs
    <3> QED
      BY <1>0, <3>1 DEF CurrentInv, RunInv
  <2> QED
    BY <2>1, <2>2
<1>18. CopiedInv' /\ BlankInv' /\ FinalInv'
  BY <1>0, <1>2, <1>9 DEF CopiedInv, BlankInv, FinalInv, RunInv
<1>19. FailsForCause' /\ run' > 0 /\ FileInv'
  BY <1>0, <1>2 DEF FailsForCause, RunInv, FileInv, Early
<1> QED
  BY <1>11, <1>13, <1>14, <1>15, <1>16, <1>17, <1>18, <1>19 DEF FilesInv, RunInv

\* Every node gets a genesis file with the accounts of this run.
LEMMA InitGenFileKeeps ==
    ASSUME FilesInv, InitGenFile
    PROVE  FilesInv'
<1> DEFINE g == [chain |-> run, time |-> 0, balances |-> cmd.genBalances, gentxs |-> {}]
           d == [disk[here] EXCEPT !.genesis = g]
<1>0. /\ Form /\ IdsInv /\ cmd.pc = "genesis" /\ RunInv /\ here \in Index /\ here \in Nodes
      /\ IsDir(disk[here]) /\ cmd' = NextNode("genesis", "copy") /\ run' = run
  BY NodesFit DEF FilesInv, InitGenFile, Active, Running, Form
<1>2. /\ cmd'.file = cmd.file /\ cmd'.args = cmd.args
      /\ cmd'.nodeIDs = cmd.nodeIDs /\ cmd'.genBalances = cmd.genBalances
      /\ cmd'.persistentPeers = cmd.persistentPeers /\ cmd'.appState = cmd.appState
      /\ IsCmd(cmd') /\ cmd'.i \in Nodes
      /\ \/ here + 1 < numValidators /\ cmd'.pc = "genesis" /\ cmd'.i = here + 1
         \/ here + 1 = numValidators /\ cmd'.pc = "copy" /\ cmd'.i = 0
  <2>1. Turns(cmd', "genesis", "copy")
    BY <1>0, NextNodeTurns, Zenon
  <2> QED
    BY <2>1, Zenon DEF Turns
<1>3. disk' = [disk EXCEPT ![here] = d]
  BY DEF InitGenFile
<1>4. g.balances = cmd.genBalances
  OBVIOUS
<1> HIDE DEF g
<1>5. /\ IsDir(d) /\ d.genesis = g /\ d.node = disk[here].node /\ d.key = disk[here].key
      /\ d.app = disk[here].app /\ d.gentx = disk[here].gentx
  BY <1>0 DEF IsDir
<1> HIDE DEF d
<1>6. Differs(disk', here, d)
  BY <1>0, <1>3, <1>5, OneDir, Zenon
<1>7. \A k \in Index : /\ disk'[k].node = disk[k].node /\ disk'[k].key = disk[k].key
                       /\ disk'[k].app = disk[k].app /\ disk'[k].gentx = disk[k].gentx
  BY <1>5, <1>6 DEF Differs
<1>8. /\ Nodes' = Nodes /\ here' = cmd'.i /\ numValidators \in Nat /\ Nodes \subseteq Index
      /\ \A l \in Nodes : l \in Nat /\ here \in Nat /\ l < numValidators
  BY <1>0, <1>2, RunFrame, NodesFit DEF here
<1>9. /\ Inited' = Inited /\ Inited \subseteq Nodes
      /\ Keyed' = Keyed /\ Keyed \subseteq Nodes
      /\ Signed' = Signed /\ Signed \subseteq Nodes
      /\ Blanks' = Blanks \cup {here} /\ Blanks \subseteq Nodes
      /\ Final' = {} /\ Final = {}
  BY <1>0, <1>2, <1>8 DEF Inited, Keyed, Signed, Blanks, Final, Early
<1>c. \A k \in Nodes : Copied(k)' = {}
  <2>1. cmd'.file = 0 \/ cmd'.pc = "genesis"
    BY <1>0, <1>2 DEF RunInv, FileInv, Early
  <2> QED
    BY <1>2, <1>8, <2>1 DEF Copied
<1>10. \A l : Own(l)' = Own(l)
  BY <1>0, <1>2, OwnFrame
<1>11. Form'
  BY <1>0, <1>2, <1>6, <1>8 DEF Form, Differs, Places
<1>12. IdsInv'
  BY <1>0, <1>7 DEF IdsInv
<1>13. NodesInv'
  BY <1>0, <1>2, <1>7, <1>8, <1>9, RunFrame DEF NodesInv, RunInv, memo
<1>14. KeysInv'
  BY <1>0, <1>2, <1>7, <1>8, <1>9 DEF KeysInv, RunInv
<1>15. SignedInv'
  BY <1>0, <1>2, <1>7, <1>8, <1>9, <1>10 DEF SignedInv, RunInv, HasTx
<1>16. CurrentInv'
  BY <1>0, <1>7, <1>9, <1>10 DEF CurrentInv, RunInv
<1>17. BlankInv'
  BY <1>0, <1>2, <1>4, <1>5, <1>6, <1>8, <1>9 DEF BlankInv, RunInv, Differs
<1>18. CopiedInv' /\ FinalInv'
  BY <1>0, <1>2, <1>8, <1>9, <1>c DEF CopiedInv, FinalInv, RunInv
<1>19. FailsForCause' /\ run' > 0 /\ FileInv'
  BY <1>0, <1>2 DEF FailsForCause, RunInv, FileInv, Early
<1> QED
  BY <1>11, <1>12, <1>13, <1>14, <1>15, <1>16, <1>17, <1>18, <1>19 DEF FilesInv, RunInv

\* One turn of the inner loop: a node has the transaction of one more node.
LEMMA CopyEffect ==
    ASSUME FilesInv, CopyGentx
    PROVE  /\ disk' = [k \in Index |-> disk'[k]] /\ \A k \in Index : IsDir(disk'[k])
           /\ \A k \in Index :
                  /\ disk'[k].node = disk[k].node /\ disk'[k].key = disk[k].key
                  /\ disk'[k].app = disk[k].app /\ disk'[k].genesis = disk[k].genesis
                  /\ \A f \in DOMAIN disk'[k].gentx :
                         \/ f \in DOMAIN disk[k].gentx /\ disk'[k].gentx[f] = disk[k].gentx[f]
                         \/ disk'[k].gentx[f] = Own(cmd.file)
           /\ \A k, l \in Nodes :
                  HasTx(k, l) \/ (k = here /\ l = cmd.file) =>
                      /\ cmd.nodeIDs[l] \in DOMAIN disk'[k].gentx
                      /\ disk'[k].gentx[cmd.nodeIDs[l]] = Own(l)
<1>0. /\ Form /\ cmd.pc = "copy" /\ RunInv /\ here \in Index /\ here \in Nodes
      /\ cmd.file \in Nodes /\ IsDir(disk[here]) /\ Nodes \subseteq Index
  BY NodesFit DEF FilesInv, CopyGentx, Active, Running, Form
<1>1. Signed = Nodes /\ Inited = Nodes
  BY <1>0 DEF Signed, Inited, Early
<1>2. HasTx(cmd.file, cmd.file)
  BY <1>0, <1>1 DEF RunInv, SignedInv
<1>3. CASE cmd.file = here
  <2>1. disk' = disk
    BY <1>3 DEF CopyGentx, isSubDir
  <2>2. disk = [k \in Index |-> disk[k]] /\ \A k \in Index : IsDir(disk[k])
    BY <1>0 DEF Form
  <2> QED
    BY <1>0, <1>2, <1>3, <2>1, <2>2 DEF HasTx
<1>4. CASE cmd.file # here
  <2> DEFINE name == cmd.nodeIDs[cmd.file]
             files == Write(disk[here].gentx, name, Own(cmd.file))
             d == [disk[here] EXCEPT !.gentx = files]
  <2>1. disk' = [disk EXCEPT ![here] = d]
    BY <1>2, <1>4 DEF CopyGentx, isSubDir, copyFile, HasTx
  <2>2. /\ \A f \in DOMAIN files : \/ f = name
                                   \/ f \in DOMAIN disk[here].gentx /\ files[f] = disk[here].gentx[f]
        /\ \A f \in DOMAIN disk[here].gentx :
               f # name => f \in DOMAIN files /\ files[f] = disk[here].gentx[f]
        /\ name \in DOMAIN files /\ files[name] = Own(cmd.file)
    BY DEF Write
  <2> HIDE DEF files
  <2>3. /\ IsDir(d) /\ d.gentx = files /\ d.node = disk[here].node /\ d.key = disk[here].key
        /\ d.app = disk[here].app /\ d.genesis = disk[here].genesis
    BY <1>0 DEF IsDir
  <2> HIDE DEF d
  <2>4. Differs(disk', here, d)
    BY <1>0, <2>1, <2>3, OneDir, Zenon
  <2>5. \A k \in Index :
            /\ disk'[k].node = disk[k].node /\ disk'[k].key = disk[k].key
            /\ disk'[k].app = disk[k].app /\ disk'[k].genesis = disk[k].genesis
    BY <2>3, <2>4 DEF Differs
  <2>6. ASSUME NEW k \in Index, NEW f \in DOMAIN disk'[k].gentx
        PROVE  \/ f \in DOMAIN disk[k].gentx /\ disk'[k].gentx[f] = disk[k].gentx[f]
               \/ disk'[k].gentx[f] = Own(cmd.file)
    BY <2>2, <2>3, <2>4 DEF Differs
  <2>7. ASSUME NEW k \in Nodes, NEW l \in Nodes, HasTx(k, l) \/ (k = here /\ l = cmd.file)
        PROVE  /\ cmd.nodeIDs[l] \in DOMAIN disk'[k].gentx
               /\ disk'[k].gentx[cmd.nodeIDs[l]] = Own(l)
    <3>1. CASE k # here
      BY <1>0, <2>4, <2>7, <3>1 DEF HasTx, Differs
    <3>2. CASE k = here /\ l = cmd.file
      BY <2>2, <2>3, <2>4, <3>2 DEF Differs
    <3>3. CASE k = here /\ l # cmd.file
      <4>1. cmd.nodeIDs[l] # name
        BY <1>0, <1>1, <3>3, IdsDiffer DEF RunInv
      <4> QED
        BY <2>2, <2>3, <2>4, <2>7, <3>3, <4>1 DEF HasTx, Differs
    <3> QED
      BY <3>1, <3>2, <3>3
  <2> QED
    BY <2>4, <2>5, <2>6, <2>7 DEF Differs
<1> QED
  BY <1>3, <1>4

\* The next turn of the two loops.
LEMMA NextFileTurns ==
    ASSUME Form, NEW c, c = NextFile
    PROVE  /\ c.args = cmd.args /\ c.nodeIDs = cmd.nodeIDs /\ c.genBalances = cmd.genBalances
           /\ c.persistentPeers = cmd.persistentPeers /\ c.appState = cmd.appState
           /\ IsCmd(c) /\ c.i \in Nodes /\ c.file \in Nodes
           /\ \/ cmd.file + 1 < numValidators /\ c.file = cmd.file + 1 /\ c.pc = cmd.pc /\ c.i = here
              \/ /\ cmd.file + 1 = numValidators /\ c.file = 0
                 /\ \/ here + 1 < numValidators /\ c.pc = "copy" /\ c.i = here + 1
                    \/ here + 1 = numValidators /\ c.pc = "collect" /\ c.i = 0
<1>0. /\ IsCmd(cmd) /\ here \in Nodes /\ numValidators \in Nat \ {0}
      /\ cmd.file \in Nat /\ cmd.file < numValidators
  BY NodesFit DEF Form
<1>1. CASE cmd.file + 1 < numValidators
  <2>1. c = [cmd EXCEPT !.file = cmd.file + 1]
    BY <1>1 DEF NextFile
  <2>2. cmd.file + 1 \in Nodes
    BY <1>0, <1>1 DEF Nodes
  <2>3. /\ c.args = cmd.args /\ c.nodeIDs = cmd.nodeIDs /\ c.genBalances = cmd.genBalances
        /\ c.persistentPeers = cmd.persistentPeers /\ c.appState = cmd.appState
        /\ IsCmd(c) /\ c.i = here /\ c.pc = cmd.pc /\ c.file = cmd.file + 1
    BY <1>0, <2>1 DEF IsCmd, here
  <2> QED
    BY <1>0, <1>1, <2>2, <2>3
<1>2. CASE cmd.file + 1 = numValidators
  <2> DEFINE b == NextNode("copy", "collect")
  <2>1. c = [b EXCEPT !.file = 0]
    BY <1>0, <1>2 DEF NextFile
  <2>2. b = NextNode("copy", "collect")
    OBVIOUS
  <2> HIDE DEF b
  <2>3. Turns(b, "copy", "collect")
    BY <2>2, NextNodeTurns, Zenon
  <2>4. IsCmd(b)
    BY <2>3 DEF Turns
  <2>5. /\ c.args = b.args /\ c.nodeIDs = b.nodeIDs /\ c.genBalances = b.genBalances
        /\ c.persistentPeers = b.persistentPeers /\ c.appState = b.appState
        /\ IsCmd(c) /\ c.i = b.i /\ c.pc = b.pc /\ c.file = 0
    BY <2>1, <2>4 DEF IsCmd
  <2>6. 0 \in Nodes
    BY <1>0 DEF Nodes
  <2> QED
    BY <1>2, <2>3, <2>5, <2>6 DEF Turns
<1> QED
  BY <1>0, <1>1, <1>2

\* A transaction is copied, or there already.
LEMMA CopyGentxKeeps ==
    ASSUME FilesInv, CopyGentx
    PROVE  FilesInv'
<1>0. /\ Form /\ IdsInv /\ cmd.pc = "copy" /\ RunInv /\ here \in Index /\ here \in Nodes
      /\ cmd' = NextFile /\ run' = run
  BY NodesFit DEF FilesInv, CopyGentx, Active, Running, Form
<1>2. /\ cmd'.args = cmd.args /\ cmd'.nodeIDs = cmd.nodeIDs
      /\ cmd'.genBalances = cmd.genBalances
      /\ cmd'.persistentPeers = cmd.persistentPeers /\ cmd'.appState = cmd.appState
      /\ IsCmd(cmd') /\ cmd'.i \in Nodes /\ cmd'.file \in Nodes
      /\ \/ cmd.file + 1 < numValidators /\ cmd'.file = cmd.file + 1 /\ cmd'.pc = "copy" /\ cmd'.i = here
         \/ /\ cmd.file + 1 = numValidators /\ cmd'.file = 0
            /\ \/ here + 1 < numValidators /\ cmd'.pc = "copy" /\ cmd'.i = here + 1
               \/ here + 1 = numValidators /\ cmd'.pc = "collect" /\ cmd'.i = 0
  BY <1>0, NextFileTurns
<1>3. /\ disk' = [k \in Index |-> disk'[k]] /\ \A k \in Index : IsDir(disk'[k])
      /\ \A k \in Index :
             /\ disk'[k].node = disk[k].node /\ disk'[k].key = disk[k].key
             /\ disk'[k].app = disk[k].app /\ disk'[k].genesis = disk[k].genesis
  BY CopyEffect, Zenon
<1>4. \A k \in Index : \A f \in DOMAIN disk'[k].gentx :
          \/ f \in DOMAIN disk[k].gentx /\ disk'[k].gentx[f] = disk[k].gentx[f]
          \/ disk'[k].gentx[f] = Own(cmd.file)
  BY CopyEffect, Zenon
<1>5. \A k, l \in Nodes :
          HasTx(k, l) \/ (k = here /\ l = cmd.file) =>
              /\ cmd.nodeIDs[l] \in DOMAIN disk'[k].gentx
              /\ disk'[k].gentx[cmd.nodeIDs[l]] = Own(l)
  BY CopyEffect, Zenon
<1>8. /\ Nodes' = Nodes /\ here' = cmd'.i /\ numValidators \in Nat /\ Nodes \subseteq Index
      /\ here \in Nat /\ cmd.file \in Nat /\ cmd.file \in Nodes
      /\ \A l \in Nodes : l \in Nat /\ l < numValidators
  BY <1>0, <1>2, RunFrame, NodesFit DEF here
<1>9. /\ Inited' = Nodes /\ Inited = Nodes /\ Keyed' = Nodes /\ Keyed = Nodes
      /\ Signed' = Nodes /\ Signed = Nodes /\ Blanks' = Nodes /\ Blanks = Nodes
      /\ Final' = {} /\ Final = {}
  <2>1. /\ Inited = Nodes /\ Keyed = Nodes /\ Signed = Nodes /\ Blanks = Nodes /\ Final = {}
    BY <1>0 DEF Inited, Keyed, Signed, Blanks, Final, Early
  <2>2. cmd'.pc = "copy" \/ (cmd'.pc = "collect" /\ cmd'.i = 0)
    BY <1>2
  <2>3. Inited' = Nodes /\ Keyed' = Nodes /\ Signed' = Nodes
    BY <1>8, <2>2 DEF Inited, Keyed, Signed, Early
  <2>4. Blanks' = Nodes /\ Final' = {}
    BY <1>8, <2>2 DEF Blanks, Final
  <2> QED
    BY <2>1, <2>3, <2>4
<1>c. \A k \in Nodes : \A l \in Copied(k)' : l \in Copied(k) \/ (k = here /\ l = cmd.file)
  <2> SUFFICES ASSUME NEW k \in Nodes, NEW l \in Copied(k)'
               PROVE  l \in Copied(k) \/ (k = here /\ l = cmd.file)
    OBVIOUS
  <2>1. /\ l \in Nodes /\ k \in Nat /\ l \in Nat /\ k < numValidators /\ l < numValidators
    BY <1>8 DEF Copied
  <2>2. \/ k < here \/ (k = here /\ l <= cmd.file)
    <3>1. CASE cmd.file + 1 < numValidators
      <4>1. cmd'.file = cmd.file + 1 /\ cmd'.pc = "copy" /\ here' = here
        BY <1>2, <1>8, <3>1
      <4>2. k < here \/ (k = here /\ l < cmd.file + 1)
        BY <4>1 DEF Copied
      <4> QED
        BY <1>8, <2>1, <4>2
    <3>2. CASE cmd.file + 1 = numValidators /\ here + 1 < numValidators
      <4>1. cmd'.file = 0 /\ cmd'.pc = "copy" /\ here' = here + 1
        BY <1>2, <1>8, <3>2
      <4>2. k < here + 1 \/ (k = here + 1 /\ l < 0)
        BY <4>1 DEF Copied
      <4> QED
        BY <1>8, <2>1, <3>2, <4>2
    <3>3. CASE cmd.file + 1 = numValidators /\ here + 1 = numValidators
      BY <1>8, <2>1, <3>3
    <3> QED
      BY <1>2, <3>1, <3>2, <3>3
  <2> QED
    BY <1>0, <1>8, <2>1, <2>2 DEF Copied
<1>10. \A l : Own(l)' = Own(l)
  BY <1>0, <1>2, OwnFrame
<1>11. Form'
  BY <1>0, <1>2, <1>3, <1>8 DEF Form, Places
<1>12. Own(cmd.file).account = <<run, cmd.file>> /\ <<run, cmd.file>> \in (1..run) \X Index
  <2>1. run \in Nat /\ run > 0
    BY <1>0 DEF Form, RunInv
  <2> QED
    BY <1>0, <1>8, <2>1, OwnReadable
<1>13. IdsInv'
  BY <1>0, <1>3, <1>4, <1>12 DEF IdsInv
<1>14. NodesInv'
  BY <1>0, <1>2, <1>3, <1>8, <1>9, RunFrame DEF NodesInv, RunInv, memo
<1>15. KeysInv'
  BY <1>0, <1>2, <1>3, <1>8, <1>9 DEF KeysInv, RunInv
<1>16. SignedInv'
  BY <1>0, <1>2, <1>3, <1>5, <1>8, <1>9, <1>10 DEF SignedInv, RunInv, HasTx
<1>17. CurrentInv'
  <2> SUFFICES ASSUME NEW k \in Index, NEW l \in Index, NEW f \in DOMAIN disk'[k].gentx,
                      disk'[k].gentx[f].account = <<run, l>>
               PROVE  l \in Nodes /\ disk'[k].gentx[f] = Own(l)
    BY <1>0, <1>9, <1>10 DEF CurrentInv
  <2>1. CASE disk'[k].gentx[f] = Own(cmd.file)
    BY <1>8, <1>12, <2>1
  <2>2. CASE f \in DOMAIN disk[k].gentx /\ disk'[k].gentx[f] = disk[k].gentx[f]
    BY <1>0, <1>9, <2>2 DEF CurrentInv, RunInv
  <2> QED
    BY <1>4, <2>1, <2>2
<1>18. CopiedInv'
  <2> SUFFICES ASSUME NEW k \in Nodes, NEW l \in Copied(k)'
               PROVE  /\ cmd.nodeIDs[l] \in DOMAIN disk'[k].gentx
                      /\ disk'[k].gentx[cmd.nodeIDs[l]] = Own(l)
    BY <1>2, <1>8, <1>10 DEF CopiedInv, HasTx
  <2>1. l \in Nodes
    BY <1>8 DEF Copied
  <2>2. HasTx(k, l) \/ (k = here /\ l = cmd.file)
    BY <1>0, <1>c DEF RunInv, CopiedInv
  <2> QED
    BY <1>5, <2>1, <2>2
<1>19. BlankInv' /\ FinalInv'
  BY <1>0, <1>2, <1>3, <1>8, <1>9 DEF BlankInv, FinalInv, RunInv
<1>20. FailsForCause' /\ run' > 0 /\ FileInv'
  BY <1>0, <1>2 DEF FailsForCause, RunInv, FileInv, Early
<1> QED
  BY <1>11, <1>13, <1>14, <1>15, <1>16, <1>17, <1>18, <1>19, <1>20 DEF FilesInv, RunInv

\* A node whose transactions are all accepted has exactly those of this run.
LEMMA CollectedState ==
    ASSUME Form, RunInv, cmd.pc = "collect", CollectTxs(disk[here])
    PROVE  GenAppStateFromConfig(disk[here]) = State0
<1> DEFINE dir == disk[here]
<1>0. here \in Nodes /\ here \in Index /\ Nodes \subseteq Index /\ here <= here
  BY NodesFit
<1>1. Keyed = Nodes /\ Signed = Nodes /\ here \in Blanks /\ Copied(here) = Nodes
  BY <1>0 DEF Keyed, Signed, Blanks, Copied, Early
<1>2. dir.genesis.balances = cmd.genBalances /\ cmd.genBalances = {<<run, l>> : l \in Nodes}
  BY <1>1 DEF RunInv, BlankInv, KeysInv
<1>3. ASSUME NEW f \in DOMAIN dir.gentx
      PROVE  dir.gentx[f] \in {Own(j) : j \in Nodes}
  <2>1. dir.gentx[f].account \in cmd.genBalances
    BY <1>2 DEF CollectTxs
  <2>2. PICK l \in Nodes : dir.gentx[f].account = <<run, l>>
    BY <1>2, <2>1
  <2>3. dir.gentx[f] = Own(l)
    BY <1>0, <2>2 DEF RunInv, CurrentInv
  <2> QED
    BY <2>3
<1>4. ASSUME NEW j \in Nodes
      PROVE  \E f \in DOMAIN dir.gentx : dir.gentx[f] = Own(j)
  BY <1>0, <1>1 DEF RunInv, CopiedInv, HasTx
<1>5. {dir.gentx[f] : f \in DOMAIN dir.gentx} = {Own(j) : j \in Nodes}
  BY <1>3, <1>4
<1> QED
  BY <1>2, <1>5 DEF GenAppStateFromConfig, State0

\* If only transactions of this run's nodes are there, one that is refused
\* delegates what its account does not hold.
LEMMA RefusedForAmount ==
    ASSUME Form, RunInv, cmd.pc = "collect", ~CollectTxs(disk[here]),
           DOMAIN disk[here].gentx \subseteq {cmd.nodeIDs[j] : j \in Nodes}
    PROVE  \E k \in Nodes : valTokens(k) \notin 0..AccStakingTokens
<1> DEFINE dir == disk[here]
<1>0. here \in Nodes /\ here \in Index /\ Nodes \subseteq Index /\ here <= here
  BY NodesFit
<1>1. Keyed = Nodes /\ Copied(here) = Nodes /\ here \in Blanks
  BY <1>0 DEF Keyed, Copied, Blanks, Early
<1>2. dir.genesis.balances = {<<run, l>> : l \in Nodes}
  BY <1>1 DEF RunInv, BlankInv, KeysInv
<1>3. PICK f \in DOMAIN dir.gentx : ~(/\ dir.gentx[f] # Torn
                                      /\ dir.gentx[f].account \in dir.genesis.balances
                                      /\ dir.gentx[f].tokens <= AccStakingTokens)
  BY DEF CollectTxs
<1>4. PICK j \in Nodes : f = cmd.nodeIDs[j]
  OBVIOUS
<1>5. dir.gentx[f] = Own(j)
  BY <1>0, <1>1, <1>4 DEF RunInv, CopiedInv, HasTx
<1>6. Own(j) # Torn /\ Own(j).account = <<run, j>> /\ Own(j).tokens = valTokens(j)
  BY OwnReadable
<1>7. ~(valTokens(j) <= AccStakingTokens)
  BY <1>2, <1>3, <1>5, <1>6
<1>8. valTokens(j) \notin 0..AccStakingTokens
  BY <1>7
<1> QED
  BY <1>8

\* The genesis file of a node gets the state that was taken from the first
\* one, or the command fails.
LEMMA CollectKeeps ==
    ASSUME FilesInv, Collect
    PROVE  FilesInv'
<1>0. /\ Form /\ IdsInv /\ cmd.pc = "collect" /\ RunInv /\ here \in Index /\ here \in Nodes
      /\ IsDir(disk[here]) /\ run' = run /\ IsCmd(cmd)
  BY NodesFit DEF FilesInv, Collect, Active, Running, Form
<1>1. CASE ~CollectTxs(disk[here])
  <2>1. disk' = disk /\ cmd' = [cmd EXCEPT !.pc = "failed"]
    BY <1>1 DEF Collect, Failed
  <2>2. /\ cmd'.pc = "failed" /\ cmd'.args = cmd.args
        /\ cmd'.i = cmd.i /\ cmd'.file = cmd.file /\ cmd'.nodeIDs = cmd.nodeIDs
        /\ IsCmd(cmd')
    BY <1>0, <2>1 DEF IsCmd
  <2>3. Nodes' = Nodes /\ \A k : valTokens(k)' = valTokens(k)
    BY <2>2, RunFrame
  <2>4. Form' /\ IdsInv'
    BY <1>0, <2>1, <2>2, <2>3 DEF Form, IdsInv, here, Places
  <2>5. FailsForCause'
    BY <1>0, <1>1, <2>1, <2>2, <2>3, RefusedForAmount DEF FailsForCause
  <2>6. ~Active'
    BY <2>2 DEF Active, Running
  <2> QED
    BY <2>4, <2>5, <2>6 DEF FilesInv
<1>2. CASE CollectTxs(disk[here])
  <2> DEFINE x == nodeConfig(here, cmd.persistentPeers)
             y == [chain |-> run, time |-> run, balances |-> State0.balances,
                   gentxs |-> State0.gentxs]
             d == [disk[here] EXCEPT !.config = x, !.genesis = y]
             turn == NextNode("collect", "done")
  <2>1. (IF cmd.appState = None THEN GenAppStateFromConfig(disk[here]) ELSE cmd.appState) = State0
    <3>1. GenAppStateFromConfig(disk[here]) = State0
      BY <1>0, <1>2, CollectedState
    <3>2. cmd.appState = None \/ cmd.appState = State0
      BY <1>0 DEF RunInv, FinalInv
    <3> QED
      BY <3>1, <3>2
  <2>2. disk' = [disk EXCEPT ![here] = d] /\ cmd' = [turn EXCEPT !.appState = State0]
    BY <1>2, <2>1 DEF Collect
  <2>3. Turns(turn, "collect", "done")
    BY <1>0, NextNodeTurns
  <2> HIDE DEF turn
  <2>4. IsCmd(turn)
    BY <2>3 DEF Turns
  <2>5. /\ cmd'.pc = turn.pc /\ cmd'.i = turn.i /\ cmd'.file = turn.file /\ cmd'.args = turn.args
        /\ cmd'.nodeIDs = turn.nodeIDs /\ cmd'.genBalances = turn.genBalances
        /\ cmd'.persistentPeers = turn.persistentPeers /\ cmd'.appState = State0
        /\ IsCmd(cmd')
    BY <2>2, <2>4 DEF IsCmd
  <2>6. /\ cmd'.file = cmd.file /\ cmd'.args = cmd.args
        /\ cmd'.nodeIDs = cmd.nodeIDs /\ cmd'.genBalances = cmd.genBalances
        /\ cmd'.persistentPeers = cmd.persistentPeers /\ cmd'.appState = State0
        /\ IsCmd(cmd') /\ cmd'.i \in Nodes
        /\ \/ here + 1 < numValidators /\ cmd'.pc = "collect" /\ cmd'.i = here + 1
           \/ here + 1 = numValidators /\ cmd'.pc = "done" /\ cmd'.i = 0
    BY <2>3, <2>5 DEF Turns
  <2> HIDE DEF x, y
  <2>7. GenesisEdited(d, disk[here], x, y)
    BY <1>0, EditGenesis
  <2> HIDE DEF d
  <2>8. Differs(disk', here, d)
    <3>1. IsDir(d)
      BY <2>7 DEF GenesisEdited
    <3> QED
      BY <1>0, <2>2, <3>1, OneDir, Zenon
  <2>9. /\ disk'[here].config = x /\ disk'[here].genesis = y
        /\ \A k \in Index : /\ disk'[k].node = disk[k].node /\ disk'[k].key = disk[k].key
                            /\ disk'[k].app = disk[k].app /\ disk'[k].gentx = disk[k].gentx
    BY <2>7, <2>8 DEF Differs, GenesisEdited
  <2>10. /\ Nodes' = Nodes /\ here' = cmd'.i /\ numValidators \in Nat /\ Nodes \subseteq Index
         /\ here \in Nat /\ \A l \in Nodes : l \in Nat /\ l < numValidators
    BY <1>0, <2>6, RunFrame, NodesFit DEF here
  <2>11. /\ Inited' = Nodes /\ Inited = Nodes /\ Keyed' = Nodes /\ Keyed = Nodes
         /\ Signed' = Nodes /\ Signed = Nodes
         /\ \A k : Copied(k)' = Nodes /\ Copied(k) = Nodes
    <3>1. cmd'.pc = "collect" \/ cmd'.pc = "done"
      BY <2>6
    <3> QED
      BY <1>0, <2>10, <3>1 DEF Inited, Keyed, Signed, Copied, Early
  <2>12. Blanks' \subseteq Blanks \ {here} /\ Blanks \subseteq Nodes
    <3>1. Blanks = {l \in Nodes : here <= l}
      BY <1>0 DEF Blanks
    <3>2. CASE here + 1 < numValidators
      <4>1. Blanks' = {l \in Nodes : here + 1 <= l}
        BY <2>6, <2>10, <3>2 DEF Blanks
      <4> QED
        BY <2>10, <3>1, <4>1
    <3>3. CASE here + 1 = numValidators
      <4>1. Blanks' = {}
        BY <2>6, <2>10, <3>3 DEF Blanks
      <4> QED
        BY <3>1, <4>1
    <3> QED
      BY <2>6, <3>2, <3>3
  <2>13. Final' = Final \cup {here} /\ Final \subseteq Nodes /\ here \notin Final
    <3>1. Final = {l \in Nodes : l < here}
      BY <1>0 DEF Final
    <3>2. Final' = {l \in Nodes : l < here + 1}
      <4>1. CASE here + 1 < numValidators
        BY <2>6, <2>10, <4>1 DEF Final
      <4>2. CASE here + 1 = numValidators
        <5>1. Final' = Nodes
          BY <2>6, <2>10, <4>2 DEF Final
        <5> QED
          BY <2>10, <4>2, <5>1
      <4> QED
        BY <2>6, <4>1, <4>2
    <3>3. here \in Nodes /\ here \in Nat /\ \A l \in Nodes : l \in Nat
      BY <1>0, <2>10
    <3>4. \A l \in Nodes : l < here + 1 <=> l < here \/ l = here
      BY <3>3
    <3>5. ~(here < here)
      BY <3>3
    <3>6. Final' = {l \in Nodes : l < here} \cup {here}
      BY <3>2, <3>3, <3>4
    <3> QED
      BY <3>1, <3>5, <3>6
  <2>14. \A l : Own(l)' = Own(l)
    BY <1>0, <2>6, OwnFrame
  <2>15. State0' = State0
    BY <2>6, <2>10, <2>14 DEF State0
  <2>16. Form'
    BY <1>0, <2>6, <2>8, <2>10 DEF Form, Differs, Places
  <2>17. IdsInv'
    BY <1>0, <2>9 DEF IdsInv
  <2>18. NodesInv'
    BY <1>0, <2>6, <2>9, <2>10, <2>11, RunFrame DEF NodesInv, RunInv, memo
  <2>19. KeysInv'
    BY <1>0, <2>6, <2>9, <2>10, <2>11 DEF KeysInv, RunInv
  <2>20. SignedInv'
    BY <1>0, <2>6, <2>9, <2>10, <2>11, <2>14 DEF SignedInv, RunInv, HasTx
  <2>21. CurrentInv'
    BY <1>0, <2>9, <2>11, <2>14 DEF CurrentInv, RunInv
  <2>22. CopiedInv'
    <3> SUFFICES ASSUME NEW k \in Nodes, NEW l \in Nodes PROVE HasTx(k, l)'
      BY <2>10, <2>11 DEF CopiedInv
    <3>1. HasTx(k, l)
      BY <1>0, <2>11 DEF CopiedInv, RunInv
    <3> QED
      BY <2>6, <2>9, <2>10, <2>14, <3>1 DEF HasTx
  <2>23. BlankInv'
    BY <1>0, <2>6, <2>8, <2>10, <2>12 DEF BlankInv, RunInv, Differs
  <2>24. FinalInv'
    <3> DEFINE Done(l, e, peers) ==
                   /\ e.genesis = [chain |-> run, time |-> run, balances |-> State0.balances,
                                   gentxs |-> State0.gentxs]
                   /\ e.config = nodeConfig(l, peers)
    <3>1. \A l \in Final : Done(l, disk[l], cmd.persistentPeers)
      BY <1>0 DEF FinalInv, RunInv
    <3>2. Done(here, disk'[here], cmd.persistentPeers)
      BY <2>9 DEF x, y
    <3>3. \A l \in Final : disk'[l] = disk[l]
      BY <2>8, <2>10, <2>13 DEF Differs
    <3>4. \A l \in Final' : Done(l, disk'[l], cmd.persistentPeers)
      <4> HIDE DEF Done
      <4> QED
        BY <2>13, <3>1, <3>2, <3>3
    <3>5. \A l \in Final' :
              /\ disk'[l].genesis = [chain |-> run, time |-> run, balances |-> State0.balances,
                                     gentxs |-> State0.gentxs]'
              /\ disk'[l].config = nodeConfig(l, cmd.persistentPeers)'
      <4>1. \A l : nodeConfig(l, cmd.persistentPeers)' = nodeConfig(l, cmd.persistentPeers)
        BY <2>6, RunFrame DEF nodeConfig, rpcPort
      <4> QED
        BY <1>0, <2>15, <3>4, <4>1
    <3>6. Final' # {}
      BY <2>13
    <3> QED
      BY <2>6, <2>15, <3>5, <3>6 DEF FinalInv
  <2>25. FailsForCause' /\ run' > 0 /\ FileInv'
    BY <1>0, <2>6 DEF FailsForCause, RunInv, FileInv, Early
  <2> QED
    BY <2>16, <2>17, <2>18, <2>19, <2>20, <2>21, <2>22, <2>23, <2>24, <2>25 DEF FilesInv, RunInv
<1> QED
  BY <1>1, <1>2

\* Every step of the command keeps the invariant.
LEMMA FilesStep == FilesInv /\ [Next]_vars => FilesInv'
<1> SUFFICES ASSUME FilesInv, [Next]_vars PROVE FilesInv'
  OBVIOUS
<1>1. CASE UNCHANGED vars
  <2>1. disk' = disk /\ cmd' = cmd /\ run' = run
    BY <1>1 DEF vars
  <2>2. /\ Nodes' = Nodes /\ here' = here /\ args' = args
        /\ \A k : valTokens(k)' = valTokens(k)
        /\ \A k, x : nodeConfig(k, x)' = nodeConfig(k, x)
        /\ \A k, x : memo(k, x)' = memo(k, x)
    BY <2>1, RunFrame DEF here
  <2>3. \A l : Own(l)' = Own(l)
    BY <2>1, OwnFrame
  <2>4. /\ Inited' = Inited /\ Keyed' = Keyed /\ Signed' = Signed
        /\ Blanks' = Blanks /\ Final' = Final /\ \A k : Copied(k)' = Copied(k)
    BY <2>1, <2>2 DEF Inited, Keyed, Signed, Blanks, Final, Copied
  <2>5. Form' /\ IdsInv' /\ FailsForCause'
    <3>1. Form' /\ IdsInv'
      BY <2>1, <2>2 DEF FilesInv, Form, IdsInv
    <3>2. FailsForCause'
      BY <2>1, <2>2 DEF FilesInv, FailsForCause
    <3> QED
      BY <3>1, <3>2
  <2>6. Active' = Active
    BY <2>1 DEF Active, Running
  <2>7. ASSUME RunInv PROVE NodesInv' /\ KeysInv' /\ SignedInv' /\ CurrentInv'
    <3>1. NodesInv' /\ KeysInv'
      BY <2>1, <2>2, <2>4, <2>7 DEF RunInv, NodesInv, KeysInv, memo
    <3>2. SignedInv' /\ CurrentInv'
      BY <2>1, <2>3, <2>4, <2>7 DEF RunInv, SignedInv, CurrentInv, HasTx
    <3> QED
      BY <3>1, <3>2
  <2>8. ASSUME RunInv PROVE CopiedInv' /\ BlankInv' /\ FinalInv' /\ FileInv'
    <3>1. CopiedInv' /\ BlankInv' /\ FileInv'
      BY <2>1, <2>2, <2>3, <2>4, <2>8 DEF RunInv, CopiedInv, BlankInv, FileInv, HasTx
    <3>2. State0' = State0
      BY <2>1, <2>2, <2>3 DEF State0
    <3>3. FinalInv'
      BY <2>1, <2>2, <2>4, <2>8, <3>2 DEF RunInv, FinalInv, nodeConfig, rpcPort
    <3> QED
      BY <3>1, <3>3
  <2> QED
    BY <2>1, <2>5, <2>6, <2>7, <2>8 DEF FilesInv, RunInv
<1> QED
  BY <1>1, StartKeeps, InitializeNodeKeeps, GenerateKeyKeeps, WriteGentxKeeps,
     InitGenFileKeeps, CopyGentxKeeps, CollectKeeps, RemoveKeeps, StopKeeps
  DEF Next

\* The invariant of the command that makes a testnet's directories.
LEMMA FilesInvariant == Spec => []FilesInv
<1> QED
  BY FilesStart, FilesStep, PTL DEF Spec

\* When the command succeeds, every genesis file is for this run's chain and
\* has exactly one validator for each node, with the keys in its directory,
\* whatever failed runs and larger testnets left behind.
THEOREM GenesisIsForKeys == Spec => []GenesisMatchesKeys
<1>1. FilesInv => GenesisMatchesKeys
  <2> SUFFICES ASSUME FilesInv, cmd.pc = "done", NEW k \in Nodes
               PROVE  disk[k].genesis =
                          [chain |-> run, time |-> run,
                           balances |-> {disk[j].key : j \in Nodes},
                           gentxs |-> {[memo |-> memo(disk[j].node, j), account |-> disk[j].key,
                                        tokens |-> valTokens(j)] : j \in Nodes}]
    BY DEF GenesisMatchesKeys
  <2>1. RunInv
    BY DEF FilesInv, Active
  <2>2. Inited = Nodes /\ Keyed = Nodes /\ Final = Nodes
    BY DEF Inited, Keyed, Final, Early
  <2>3. /\ \A j \in Nodes : disk[j].node = cmd.nodeIDs[j] /\ disk[j].key = <<run, j>>
        /\ cmd.genBalances = {<<run, j>> : j \in Nodes}
    BY <2>1, <2>2 DEF RunInv, NodesInv, KeysInv
  <2>4. cmd.genBalances = {disk[j].key : j \in Nodes}
    BY <2>3
  <2>5. {Own(j) : j \in Nodes} = {[memo |-> memo(disk[j].node, j), account |-> disk[j].key,
                                   tokens |-> valTokens(j)] : j \in Nodes}
    BY <2>3 DEF Own
  <2>6. disk[k].genesis = [chain |-> run, time |-> run, balances |-> State0.balances,
                           gentxs |-> State0.gentxs]
    BY <2>1, <2>2 DEF RunInv, FinalInv
  <2>7. State0.balances = cmd.genBalances /\ State0.gentxs = {Own(j) : j \in Nodes}
    BY DEF State0
  <2> QED
    BY <2>4, <2>5, <2>6, <2>7
<1> QED
  BY FilesInvariant, <1>1, PTL

\* The states that the nodes would make of their own directories never
\* differ: what the command takes from the first one is right for all.
THEOREM GenesisStatesAgree == Spec => []AppStatesAgree
<1>1. FilesInv => AppStatesAgree
  <2> SUFFICES ASSUME FilesInv, cmd.pc = "collect", cmd.appState # None, CollectTxs(disk[here])
               PROVE  GenAppStateFromConfig(disk[here]) = cmd.appState
    BY DEF AppStatesAgree
  <2>1. RunInv /\ Form
    BY DEF FilesInv, Active, Running
  <2>2. GenAppStateFromConfig(disk[here]) = State0
    BY <2>1, CollectedState
  <2>3. cmd.appState = State0
    BY <2>1 DEF RunInv, FinalInv
  <2> QED
    BY <2>2, <2>3
<1> QED
  BY FilesInvariant, <1>1, PTL

\* Without an error of its own, a run that meets only its own nodes'
\* transactions and amounts that the accounts hold does not fail, unless it
\* removes every directory, so that the next run meets nothing.
THEOREM TestnetFailsForCause == Spec => []FailsForCause
<1>1. FilesInv => FailsForCause
  BY DEF FilesInv
<1> QED
  BY FilesInvariant, <1>1, PTL

\* The ports a node is given.
LEMMA PortsGiven ==
    ASSUME FilesInv, cmd.pc = "done", args.ports = << >>, NEW k \in Nodes
    PROVE  /\ ListeningPorts(k) = <<26657 - 3 * k, 26656 - 3 * k, 26658 - 3 * k, 26660 + k,
                                    9090 - 2 * k, 1317 - k>>
           /\ k \in Nat /\ k <= 1316
<1>1. RunInv /\ Form
  BY DEF FilesInv, Active
<1>2. Signed = Nodes /\ Final = Nodes
  BY DEF Signed, Final, Early
<1>3. disk[k].config = nodeConfig(k, cmd.persistentPeers) /\ disk[k].app = appConfig(k)
  BY <1>1, <1>2 DEF RunInv, SignedInv, FinalInv
<1>4. k \in Nat /\ k <= 1316
  <2>1. numValidators \in 1..MaxNumValidators
    BY <1>1, TestnetAssumption DEF Form, numValidators, args
  <2>2. k \in Nat /\ k < numValidators
    BY <1>1, NodesFit
  <2> QED
    BY <2>1, <2>2, TestnetAssumption
<1> QED
  BY <1>3, <1>4 DEF ListeningPorts, nodeConfig, appConfig, rpcPort, p2pPort

\* The nodes of a testnet find each other, and no two of them, and no two
\* services of one, listen on the same port.
THEOREM NodesConnect == Spec => []NodesCanConnect
<1>1. FilesInv => NodesCanConnect
  <2> SUFFICES ASSUME FilesInv, cmd.pc = "done" PROVE NodesCanConnect
    BY DEF NodesCanConnect
  <2>1. RunInv /\ Form
    BY DEF FilesInv, Active
  <2>2. Inited = Nodes /\ Final = Nodes
    BY DEF Inited, Final, Early
  <2>3. \A j \in Nodes : /\ disk[j].node = cmd.nodeIDs[j]
                         /\ disk[j].config = nodeConfig(j, cmd.persistentPeers)
    BY <2>1, <2>2 DEF RunInv, NodesInv, FinalInv
  <2>4. cmd.persistentPeers = {memo(cmd.nodeIDs[j], j) : j \in Nodes}
    BY <2>1, <2>2 DEF RunInv, NodesInv
  <2>5. \A j \in Nodes : /\ disk[j].config.persistentPeers = cmd.persistentPeers
                         /\ disk[j].config.p2p = p2pPort(j)
    <3> SUFFICES ASSUME NEW j \in Nodes
                 PROVE  /\ disk[j].config.persistentPeers = cmd.persistentPeers
                        /\ disk[j].config.p2p = p2pPort(j)
      OBVIOUS
    <3>1. disk[j].config = nodeConfig(j, cmd.persistentPeers)
      BY <2>3
    <3> QED
      BY <3>1 DEF nodeConfig
  <2>6. \A j \in Nodes : /\ memo(cmd.nodeIDs[j], j).node = disk[j].node
                         /\ memo(cmd.nodeIDs[j], j).port = disk[j].config.p2p
    BY <2>3, <2>5 DEF memo
  <2>7. \A k \in Nodes :
            {<<p.node, p.port>> : p \in disk[k].config.persistentPeers} =
                {<<disk[j].node, disk[j].config.p2p>> : j \in Nodes}
    <3>1. {<<p.node, p.port>> : p \in {memo(cmd.nodeIDs[j], j) : j \in Nodes}} =
              {<<memo(cmd.nodeIDs[j], j).node, memo(cmd.nodeIDs[j], j).port>> : j \in Nodes}
      OBVIOUS
    <3>2. {<<memo(cmd.nodeIDs[j], j).node, memo(cmd.nodeIDs[j], j).port>> : j \in Nodes} =
              {<<disk[j].node, disk[j].config.p2p>> : j \in Nodes}
      BY <2>6
    <3> QED
      BY <2>4, <2>5, <3>1, <3>2
  <2>8. ASSUME args.ports = << >>, NEW j \in Nodes, NEW k \in Nodes, NEW s \in 1..6, NEW t \in 1..6,
               ListeningPorts(j)[s] = ListeningPorts(k)[t]
        PROVE  j = k /\ s = t
    <3> DEFINE P(l) == <<26657 - 3 * l, 26656 - 3 * l, 26658 - 3 * l, 26660 + l,
                         9090 - 2 * l, 1317 - l>>
    <3>1. /\ ListeningPorts(j) = P(j) /\ ListeningPorts(k) = P(k)
          /\ j \in Nat /\ j <= 1316 /\ k \in Nat /\ k <= 1316
      BY <2>8, PortsGiven
    <3>2. P(j)[s] = P(k)[t]
      BY <2>8, <3>1
    <3>3. CASE s = 1
      BY <3>1, <3>2, <3>3
    <3>4. CASE s = 2
      BY <3>1, <3>2, <3>4
    <3>5. CASE s = 3
      BY <3>1, <3>2, <3>5
    <3>6. CASE s = 4
      BY <3>1, <3>2, <3>6
    <3>7. CASE s = 5
      BY <3>1, <3>2, <3>7
    <3>8. CASE s = 6
      BY <3>1, <3>2, <3>8
    <3> QED
      BY <3>3, <3>4, <3>5, <3>6, <3>7, <3>8
  <2>9. ASSUME args.ports = << >>, NEW j \in Nodes, NEW k \in Nodes, NEW s \in 1..6
        PROVE  ListeningPorts(j)[s] # disk[k].config.pprof
    <3>1. /\ ListeningPorts(j) = <<26657 - 3 * j, 26656 - 3 * j, 26658 - 3 * j, 26660 + j,
                                   9090 - 2 * j, 1317 - j>>
          /\ j \in Nat /\ j <= 1316
      BY <2>9, PortsGiven
    <3>2. disk[k].config.pprof = 6060
      <4>1. disk[k].config = nodeConfig(k, cmd.persistentPeers)
        BY <2>3
      <4> QED
        BY <4>1 DEF nodeConfig, PprofPort
    <3> QED
      BY <3>1, <3>2
  <2> QED
    BY <2>7, <2>8, <2>9 DEF NodesCanConnect
<1> QED
  BY FilesInvariant, <1>1, PTL

=============================================================================
