# Gnodi in TLA+

A verification project for `gnodid`, a Cosmos SDK chain with an EVM: the
`x/distro` module that mints the native token on a halving schedule, and the
application around it (`app/`, `cmd/gnodid/`). The modules are translated from
the Go source. TLC checks them on small instances, TLAPS proves the theorems
for every value of the constants. `PROJECT.json` lists components, runs,
mutants, hazards and theorems, and maps definitions to source lines.

    tlc -workers 2 -config MCDistro.cfg MCDistro     # one run
    tlapm DistroProofs.tla                           # one module of proofs

## 1. Inventory

| Component | State | Operations | Hard part |
|---|---|---|---|
| Minting schedule, `x/distro/keeper/msg_server_mint.go` | none: a function of parameters and block date | `addMonths`, `monthsBetween`, `halvingPeriodLimit`, `validateMintingLimits` | month ends, inclusive and exclusive day counts, roundings, uint64 products |
| Keeper and message server, `x/distro/keeper`, `x/distro/types` | `Params` in the KV store; supply and balances in x/bank | `Mint`, `UpdateParams`, `InitGenesis`, `ExportGenesis`, the two validations | several messages in a transaction, failure after `MintCoins`, parameters nobody validated, two notations of one address |
| Block lifecycle, `app/app.go` | the chain's state, one copy per node | `PreBlocker`, `BeginBlocker` with the MinGasPrice hotfix and the security burn, `EndBlocker`, `InitChainer` | crash and replay at a height where something happens once |
| EVM upgrade, `app/upgrades.go`, `app/genesis.go` | version map, plan, circuit breaker list, new stores, `upgrade-info.json` | the upgrade handler, the store loader | order of the steps, crash inside the upgrade block, wrong binary |
| Group limiter, `app/ante.go` | none; x/group's proposals and x/authz's grants behind it | `checkMsg`, `AnteHandle` | nesting, messages that run later and past the ante handler |
| Pending transaction listeners, `app/app.go`, `app/ante.go` | a slice of callbacks | `RegisterPendingTxListener`, `onPendingTx` | appended to and read without a lock |
| EVM mempool configuration, `app/mempool.go` | the handlers of BaseApp | `configureEVMMempool` | start-up order |
| State export, `app/export.go` | distribution, staking and slashing state | `prepForZeroHeightGenesis` | conservation of coins over five passes |
| Multi-node testnet, `cmd/gnodid/cmd/testnet_multi_node.go` | one directory per node: keys, genesis transactions, genesis file, configuration | `multi-node` | failures at any step, repeated runs on what was left |
| In-place testnet, `cmd/gnodid/cmd/testnet.go` | the application's state, rewritten | `in-place-testnet` | exits half-way, references to removed validators |
| Node commands, `cmd/gnodid/cmd` | the node's home directory | `init`, the command tree | none beyond the SDK's |
| Protobuf types, `x/distro/types/*.pb.go` | none: buffers and messages | `Size`, `Marshal`, `Unmarshal` and `skip` of nine messages | bytes from anybody, wrapped sums, nested slices, two methods that must agree to the byte |
| Queries, CLI, simulation | none | reads and registrations | none |

How the parts interact: a transaction passes `AnteHandle`, and BaseApp runs its
messages on a branch of the store. `Mint` reads `Params` and the bank's supply,
and calls the bank twice. Governance reaches `UpdateParams` the same way, from
the gov module account. A block is `PreBlocker` (x/upgrade, and through it the
upgrade handler), `BeginBlocker`, the transactions, `EndBlocker`, commit. All
nodes execute the same blocks and must reach the same state.

What makes each part correct:

- Schedule: the two ways of finding the halving period agree on every day; the
  total released is the exact curve rounded down, never above it, never
  shrinking, also when a product wraps around.
- Keeper: only the minting address in force mints, within `MaxSupply` and the
  curve, however many messages ran before; nothing stays in the module account;
  only governance changes parameters, to valid ones.
- Protobuf types: decoding any bytes ends, and stays inside the buffer; what was
  accepted, or built by the program, is the same message after encoding and
  decoding.
- Block lifecycle: the hotfix and the burn happen exactly once on every node,
  whole or not at all; nodes agree; the burn panics over locked coins only, and
  otherwise the chain gets past the burn height.
- Upgrade: the height alone says whether a state is upgraded; only the right
  binary commits; x/group is off from the upgrade on, until the circuit breaker is
  reset; no node gets stuck.
- Limiter: no disabled type runs, or is stored, inside another message.
- Export: coins are conserved, claims are paid even when other withdrawals fail,
  records have the references the restarted chain expects; the export finishes.
- Multi-node testnet: a run that succeeds leaves directories that match, whatever
  was there before; running it again repairs what a failure left.
- In-place testnet: what is on disk is a whole chain, and it can run.

The `hazards` of `PROJECT.json` list what could go wrong in each, at its line.

## 2. Modules

### Schedule

`Calendar` models dates as records of year, month and day, with Go's proleptic
Gregorian calendar: `addMonths` clamps to the last day of the month,
`monthsBetween` counts whole months with the month-end rule. `DayNumber` stands
for the time library's day count.

`MintSchedule` is the body of `validateMintingLimits` as operators named after
its locals: `currentHalvingPeriod`, `periodStart`, `daysInPeriod`,
`daysElapsed`, `halvingPeriodLimit`, `totalDistributable`. uint64 is a word of
`WordBits` bits; the product `periodYearlyLimit * daysElapsed` wraps.
`MaxDurationDays` is where `time.Time.Sub` saturates (292 years in Go). A halving
period longer than that, which `Validate` accepts, is counted as a shorter one
and releases its tokens ahead of the curve: the attempt to prove otherwise showed
it, and the properties about the curve say `PeriodFits`. `InPeriod` and
`WithinCurve` are the reference: exact boundaries, and the exact rational release
curve compared without division. `ProductsFit` says that no product
`periodYearlyLimit * daysElapsed` of a period wraps around.

`ScheduleWalk` moves the block date on day by day from a start date and keeps
the total released. Run `schedule_walk`.

### Distro

`Distro` has the committed `store` (parameters, supply, balances), the `branch`
a running transaction works on, the transaction `tx` and the block date
`today`. `Mint` and `UpdateParams` are the handlers: all checks, the early
returns, and the point at which an error leaves a half-changed branch
(`Fail(minted)`: `MintCoins` has happened, `depositCoins` has failed). `EndTx`
writes the branch or drops it. A panic in a handler is a failed transaction,
as in BaseApp. `InitGenesis` does not validate, so `Genesis` contains stores no
validation would pass. Addresses are a notation and an account: the EVM address
codec reads bech32 and hex, `AccAddressFromBech32` only bech32. Dates are a flag
and a date. Other modules mint, burn and send between transactions.

`CappedIssuance` says what the module promises when parameters do not change:
tokens are issued up to a ceiling, and the ceiling only rises. `DistroSchedule`
fixes the parameters, states that `Distro` implements `CappedIssuance` (issued
is the committed supply, ceiling the schedule of the day) and that an operator
who keeps minting gets everything.

### Protobuf types

`ProtoUnmarshal` is one machine for all generated `Unmarshal` and `skip`
functions: they differ only in the cases of their switch, which is the constant
`Schema`. `frame` is the running call with its slice and its locals (`l`,
`iNdEx`, `preIndex`, `depth`), `callers` the calls that wait for it, since an
embedded message is decoded by a nested call on a part of the buffer. A varint
is read byte by byte, with the two checks of the loop before each. Lengths and
sums are Go's `int`, which wraps around. An index or slice expression that
would be out of range sets `pc` to `outside`, where Go panics. A varint is
stored when it is complete; the code accumulates it in the field, which nobody
sees when the call fails, as the message is then dropped.

`DistroTypes` has the tables of the nine messages and their `Size` and
`Marshal` methods, one operator each. `Store` encodes a message that was decoded
or built and hands the bytes to `Unmarshal` again.

### Block execution

`BlockExecution` has decided blocks and, for every node, the committed and the
working state, the phase within the block and the locals of
`applySecurityBurn`. The burn is two steps per account, collect and burn, as in
the loop; a crash is possible at every step and loses the working state; the
block is then executed again. `locked` are accounts with vesting coins, whose
collection fails and turns into a panic. So does a burn of more than the x/vm
module account holds, which the bank refuses; that it never comes to this is a
property, `PanicsOnlyOnLocked`.

### Upgrade

`EvmUpgrade` has the decided blocks and, for every node, the committed and the
working state, the binary that runs and whether `upgrade-info.json` is on its
disk. `upgradeHandler` composes the steps of the handler in its order; x/vm
panics without metadata for its denomination, and `RunMigrations` gives every
module that is not in `fromVM` its default genesis. `Loads` is
`LoadLatestVersion` with the store loader of `RegisterUpgradeHandlers`. The
rules of x/upgrade's pre-blocker are external: they come from the library
version in `go.mod`. Crashes are unbounded; operators start either binary at any
time; `AgreeToSkip` is their decision, while the chain is halted, to restart
with the height in `--unsafe-skip-upgrades`, perhaps after `upgrade-info.json`
was written. A block has one message, of x/group, of another module, or
`ResetMsg`, with which x/circuit clears the list of disabled types.

### Message gate

`MsgGate` has `checkMsg`, its recursion as a function of the depth
(`acceptedInside`), and what runs behind it, one message per step. `stack` holds
what runs: a transaction and on it the group proposals that it executes, each with
the messages still to run and the state to go back to when one fails. x/authz runs
the messages of a `MsgExec` in its place; x/group stores those of a proposal and
runs them later as a unit of their own. `work` is the transaction's copy of
`store`. Any message may fail, gas may run out anywhere; the circuit breaker is
asked before every handler and may be reset. The evm ante handler's own filters
are left out except that Ethereum transactions stand alone; the properties hold
without their help. Two ways to run messages that `checkMsg` never sees are out of scope: x/gov
proposals, which voters decide on, and packets of the interchain accounts host,
which `app/ibc.go` (48-58) wires to the message router and which run whatever
messages the host's allow list admits. The properties speak of messages inside
authz and group messages only.

### Export

`ZeroHeightExport` has the application's state `s`, the pass that runs and what
it has still to visit: one action per turn of the loops of
`prepForZeroHeightGenesis`. Rewards are counted in fractions of a token, and
what x/distribution does with them (periods, reference counts, roundings) is
external. The order in which a loop visits validators and delegations is free.

The errors of both withdrawals are dropped (`export.go` 82 and 106), and the
context is no cache, so what was written before the error stays. `refused` are
the validators and delegations with a withdraw address that the bank does not
credit. For a delegation only the ended period remains, and its claim is donated
with the outstanding rewards. A commission has been taken off the outstanding
rewards before it is sent: it is counted in `stranded`, coins of the module
account that nothing in the exported state explains. `ParseAllowList` panics on
an entry that is no address, `CloseIteratorFails` is the early return after the
staking pass, and `ApplyValidatorSet` panics on a jailed validator among those
the walk down the power index meets, the one without tokens at which it stops
included.

### Testnets

`TestnetFiles` has the directory of every node on `disk` and the locals of the
command. Its steps are those of `initTestnetFiles`, `initGenFiles` and
`collectGenFiles`, one per node or file. Every step may fail: the first ones
remove the output directory, perhaps not all of it, since the error of
`RemoveAll` is dropped; the others leave it, perhaps with a file half written.
The command may also be stopped in the middle of writing `node_key.json` or a
file of the keyring (`TearFile`). A torn node key cannot be read: the next run
fails on it and removes the directory, if `RemoveAll` succeeds.
Then the command may be run again with other arguments.

`InPlaceTestnet` has the state on disk and the state in the process. The steps
of `initAppForTestnet` change the second only; `Block`, the first block of the
node that starts on it, writes it to disk. `Exit` is `handleErr`, `Stop` the end
of the process at any other time.

## 3. Runs

| Run | Shows |
|---|---|
| `schedule_walk` | over 460 days from eight start dates: periods agree; the total released is the curve rounded down and never shrinks, or, when a product wraps around, never above the curve |
| `distro_params` | governance, valid and unvalidated genesis, blocked receivers, other modules minting and burning, a supply wider than a word: module account empty, parameters obeyed and changed by governance only, mints on or below the curve, valid parameters stay exportable |
| `distro_types` | 40 thousand buffers, each as two messages, and hundreds of built messages: no index leaves its slice, every call ends, encoding and decoding gives the same message |
| `distro_schedule` | refinement of `CappedIssuance`; everything released is eventually minted |
| `block_execution` | two nodes, a crash each, anywhere: agreement, ledger of the supply, effect of `BeginBlocker`, panics over locked coins only; every node gets past the burn, unless locked coins make it panic everywhere |
| `evm_upgrade` | two nodes: state decided by height, right binary commits, x/group off until the circuit breaker is reset; every node gets past the upgrade, or past the skipped upgrade |
| `msg_gate` | messages up to three containers deep: nothing disabled runs or is stored inside another message |
| `export` | conservation after every turn of every loop, withdrawals that fail included; every claim that can be paid is paid; reference counts rebuilt |
| `export_allow_list` | violated: with a list of validators not to jail the export panics |
| `testnet_files` | three runs in one directory: matching keys, genesis, peers and ports; a run that meets no error fails only for a cause, a torn key of a stopped run among them |
| `testnet_flags` | violated: all persistent peers are at the starting address, and the value of `--minimum-gas-prices` is overwritten; the last state of the counterexample shows both |
| `in_place` | conversion stopped anywhere and repeated: the disk holds a whole chain, and the testnet runs |

The violated properties state what a comment or a flag's description says; the
`findings` of `PROJECT.json` quote it. The code differs from its text in three more
places, which the model follows as the code has them and no run asks about:

- `export.go` 76 says that all commission is withdrawn, and 125 that what could not
  be withdrawn is donated. A commission that the bank refuses to pay is neither,
  since it was taken off before the payment; `ModuleAccountCovered` accounts for it
  as `stranded`, and says that nothing else is.
- `testnet.go` 56 gives `--accounts-to-fund` an empty default. Splitting it at 224
  yields one empty address, which cannot be read at 188: without the flag the
  command exits every time (`getCommandArgs`).
- `testnet_multi_node.go` 104 promises the default amount for one that is no
  number. Such an amount is passed over and shifts the later ones.

The profilers of all nodes get the same port, 6060; `NodesCanConnect` lets them
share it and says that nothing else takes it.

Every property of a passing run has a mutant: a definition changed the way a bug in the code
would change it, under which TLC finds the property violated. The mutants
stand before the definitions they change, with a suffix naming the bug.

### Bounds

- `WordBits` 14, 9 or 7 for 64: the schedule uses the width only for
  wrap-around and for the number of halvings. With 14 bits the products of the
  small supplies stay intact and those of the largest wrap around; 7 bits let the
  supply outgrow the word in `distro_params`.
- `Horizon` 460 days: more than a year, with a leap and a common February, and
  all halvings of a one-month period. Start dates are month
  ends of every length, a leap day, a year end and the default start date.
- `MaxDurationDays` 400 for 106751: a period of 14 months is longer, as one of
  293 years is in Go.
- `MonthsInHalvingPeriod` is small. From 2^63 on, which `Validate` accepts,
  `int(...)` turns negative and the conversion of a negative float to uint64 is
  implementation-specific; see the hazards.
- `Half` 2^14 for 2^63, so words of 15 bits. 15 is two groups of seven and one
  bit, as 64 is nine groups and one bit: the last byte of the longest varint is
  cut off in the same way. `FieldHalf` 32 for 2^31 leaves field numbers that are
  negative, zero or known only as an int32. Buffers are all sequences of up to
  four out of fourteen bytes, which are tags of known and unknown fields of every
  wire type, small lengths, and bytes with all bits set; longer ones repeat an
  embedded message and open a group that is closed outside of it. Messages have
  empty, one-byte and 130-byte strings, and numbers at the steps of the varint
  length. Four bytes hold a tag and the longest varint, or a tag, a length and a
  field inside an embedded message.
- `MaxMsgs` 2: two messages are the shortest transaction in which one sees what
  another left. `SupplyBound` caps what other modules mint.
- `MaxHeight` 3: a block before, at and after the height that matters.
  `MaxCrashes` 1 per node in `BlockExecution`; `EvmUpgrade` has no such bound.
- `maxGroupNestedMsgs` 4 for 7, with messages nested to the limit and beyond.

- `Unit` 3 fractions in a token: claims with every remainder. Two validators, one
  with two delegations that share historical records, one that may be jailed or
  without tokens. The withdraw addresses refused are those of nobody, of one
  delegation, or of a delegation and a validator; the run with
  the violation takes fewer chains.
- `MaxRuns` 3 and up to three nodes in `TestnetFiles`: a large testnet that
  fails, a smaller one, and a repetition. Amounts are small numbers. One run with
  two nodes is enough to see peers or gas prices that are not as promised.
- `MaxStarts` 3 in `InPlaceTestnet`: a conversion that is lost, one that is kept,
  and one of a chain that was converted before.

Deadlock is checked except where the behaviour ends: the horizon of the walk,
the last block of `BlockExecution`, a decoded or refused buffer, the end of an export, and the last run of
the testnet commands.

### Fairness

- `DistroSchedule`: a transaction that began ends (weak); blocks keep being
  produced and the operator keeps sending transactions, which neither run out
  of gas nor lose to others for ever (strong). The first is BaseApp's loop, the
  second consensus; the third is the premise of the question whether the checks
  in `Mint` keep anything out of reach.
- `BlockExecution`: consensus goes on, a running node executes, a stopped node
  is started again (weak); crashes are bounded.
- `EvmUpgrade`: consensus goes on and running nodes execute (weak); operators
  try both binaries again and again, and a node does not crash every time just
  before it finishes (strong): crashes are unbounded there.
- `DistroTypes`, `ZeroHeightExport`: a sequential program that nobody stops
  goes on (weak).

## 4. Proofs

| Module | Theorem | Establishes |
|---|---|---|
| `ArithmeticProofs` | `MonthsBracketDate` | `monthsBetween` is the inverse of `addMonths` rounded down |
| | `DayNumberOrder` | day numbers order dates as the calendar does |
| | `PeriodContainsTarget` | the computed halving period contains the date |
| | `ElapsedWithinPeriod` | fewer days have elapsed than the period has: the clamp never applies |
| | `AccrualWithinLimit` | a period releases at most its limit, wrap-around included |
| | `EarlierPeriodsBounds` | the sum over the ended periods does not wrap, and is what has been halved away up to a token per period |
| | `TotalWithinSupply`, `TotalNeverShrinks` | the total is at most `MaxSupply`; a later date has no smaller one |
| `DistroProofs` | `WalkPeriodsAgree`, `WalkTypeCorrect`, `WalkNeverAhead`, `WalkFollowsCurve`, `WalkNeverShrinks` | all five properties of `ScheduleWalk`, for every start date, supply, period length and horizon |
| | `TypeCorrect`, `ModuleAccountStaysEmpty` | the invariants of `Distro` |
| | `OnlyGovChangesParams`, `MintingObeysParams`, `MintingFollowsCurve`, `ExportStaysValid` | its action properties |
| | `ImplementsCappedIssuance` | the refinement of `CappedIssuance` |
| `BlockExecutionProofs` | `ExecutionInvariant`, `NodesTypeCorrect`, `BurnPanicsOnlyOnLocked`, `BeginBlockerDoesExactly`, `NodesAgree`, `LedgerOfCommits` | the safety properties of `BlockExecution`, for every number of nodes, crashes and blocks and every list of accounts |
| `EvmUpgradeProofs` | `UpgradeInvariant`, `UpgradeByHeight`, `RightBinary`, `GroupDisabled` | the safety properties of `EvmUpgrade`, for every number of nodes and every height |
| `ZeroHeightExportProofs` | `ExportInvariant`, `ExportLosesNothing`, `ExportPaysClaims`, `ExportCountsReferences` | the safety properties of run `export`, for any validators, delegations, rewards and refused withdrawals |
| `ProtoUnmarshalProofs` | `DecodingStaysInBounds`, `DecodedTypes` | `InBounds` and `TypeOK` of `ProtoUnmarshal`, for every table of messages, every width and every buffer |
| `MsgGateProofs` | `GateNeverNested`, `GateNoDisabledGrant`, `GateProposalsClean` | all properties of `MsgGate`, for any messages, any disabled types and any limit |
| `TestnetProofs` | `GenesisIsForKeys`, `GenesisStatesAgree`, `TestnetFailsForCause`, `NodesConnect` | the properties of run `testnet_files`, for every number of runs and up to 1317 nodes |
| | `TestnetNeverHalts`, `TestnetDiskStaysWhole` | the invariants of `InPlaceTestnet`, for any chains, accounts and number of starts |

`ArithmeticProofs` also holds the lemmas about sums over accounts and validators.

### Assumptions

`WidthAssumption`, `WalkAssumption`, `WireAssumption`, `DistroAssumption`,
`BlockAssumption`, `UpgradeAssumption`, `ExportAssumption`, `ChainsAssumption`,
`GateAssumption`, `TestnetAssumption` and `InPlaceAssumption`, all of which TLC
evaluates. `WireAssumption` says that a buffer has fewer than 2^63 bytes and that
a field of a table is a scalar or a message of the table. `DistroAssumption` says
that the gov and distro module accounts are different module accounts and that the
chain starts with an empty distro module account; nothing is assumed of the
parameters.
`BlockAssumption` says that the accounts to burn are no module accounts and that
the x/vm module account, which receives no transfers, starts empty.
`ExportAssumption` says that there are finitely many validators and delegations,
and at least one of each: a loop over nothing is not modelled.
`ChainsAssumption` says of a chain that is to be exported what x/distribution
keeps true of every chain: its module account holds the community pool and the
outstanding rewards and nothing else, and those of a validator are at least its
commission and the claims on it. Nothing is assumed of the historical records, which the export
deletes before it counts on them.
`GateAssumption` says that the limit is at least 2 (7 in the code), that only
containers hold messages, that only containers and grants can fail to be unpacked
(the limiter unpacks nothing else), and that a container and a grant are no
disabled types: the limiter never compares their own types with the list, so the
properties do not hold for a list with one of them.
`TestnetAssumption` says that there are from one to 1317 nodes: the ports of the
API servers are counted down from 1317, and so stay positive. A torn key is not
an identity.
`InPlaceAssumption` says of a chain that is to be converted that its staking
indexes and its queue refer to validators it has, that the mint module account is
empty and that the supply is what the accounts hold.
`ImplementsCappedIssuance` has two hypotheses: `FixedSchedule`, which
`MCDistroSchedule` evaluates, and `ScheduleFits`: no product of the schedule wraps
around in uint64. When one does, the ceiling falls from one day to the next and
the refinement does not hold.

### Induction without induction

The provers cannot use an induction principle, since it has an operator as a
parameter. Where one is needed, the proofs take a smallest counterexample: a
non-empty set of natural numbers has a least member (`LeastNumber`), a non-empty
set of finite sets a minimal one (`FiniteMinimal`); both follow from the
well-foundedness theorems of the library. In this way `ArithmeticProofs` shows that the
fold behind `SumFunctionOnSet` exists, and that its value does not depend on the
order in which `CHOOSE` picks the accounts (`SumRemove`); and
that the recursive function in `EarlierPeriods` exists, whatever the number
of periods. The provers know nothing about `2^n` but for numerals: `PowerOfTwo`
finds it as the number of subsets of a set with n members.

### The schedule

The calendar theorems rest on counting months: a date is its month index and
its day, `addMonths` adds to the index and clamps the day, and both directions
of the bracket follow by cases on whether the day is clamped. The theorems about
periods follow from the bracket and from division. `EarlierPeriodsBounds` is the
induction over the periods: after k - 1 ended periods the sum is at most
`m * (1 - 1/2^(k-1))` and less than that by at most k - 1 tokens, and it leaves
room for the limit of period k, so the addition in uint64 never wraps.
With the current share this brackets the total between the curve and the curve
less a token per rounding (`TotalWithinCurve`, `TotalFollowsCurve`).
`TotalNeverShrinks` needs no curve: within a period the share grows with the days,
and a period that has ended counts with its full limit. `WalkInv` says that the
walk stays on calendar dates on or after the start and that `released` is the
total of the day.

### Distro

The invariant is `Inv`: `TypeOK` and `ModuleAccountEmpty` together.
Neither is inductive alone. A balance stays a natural number when `depositCoins`
debits the module account only because the coins were just minted into an
account known to be empty; and the account is empty after it only because the
store is well typed and the receiver, not being blocked, is another account. A
failed deposit leaves coins in the branch: `ModuleAccountEmpty` excepts a branch
that is bound to be dropped. `GovInv` adds that parameters in a branch that
differ from the committed ones were put there by governance and are valid;
without it nothing is known at the end of a transaction about the message that
changed them. `MintingObeysParams` and `MintingFollowsCurve` are proved step by
step: a step that raises a supply inside a running transaction is a `Mint` that
passed `mintAllowed` (`MintingStepIsMint`), and the theorems about the schedule
give the period and the curve.

The refinement needs `ScheduleInv`: the supply in the branch is the committed one,
or above it and within the ceiling of the day. `CappedIssuance` does not see the
mints of a transaction, only their sum at `EndTx`, and each of them was checked
against the supply the one before left in the branch. A new block raises the
ceiling or leaves it (`TotalNeverShrinks`), and it comes only between
transactions. All other steps stutter.

### Block execution

`IInv` says of every node what its working state is at each phase: a function
(`AfterBurn`, `AfterBegin`, `AfterModules`, `AfterBlock`) of the last commit, the
loop index and the decided block. The safety properties need it because each of
them speaks about a commit, and a commit writes what many steps, perhaps begun
again after a crash, have put together. The delicate place is the burn: after
`next - 1` accounts the supply is less by the sum over the accounts passed, as a
set, so an account that is listed twice or is empty counts once. That the bank never refuses the burn of what was collected
(`EnoughCollected`) has two halves. The x/vm module account holds exactly the
coins of the account at hand, because it is empty between two turns of the loop
and receives no transfers. And the supply record does not go below zero, because
those coins are part of the total it equals: `Consistent` says so of the committed
and of the working state. x/bank keeps that up whatever the burn does, so it is a
part of the invariant and not a property of its own. With it
`BurnPanicsOnlyOnLocked` follows: the only error left to `applySecurityBurn` is
that of collecting locked coins.

`NodesAgree` cannot be read off the state: when a slow node commits a height, what
the others committed there is gone. `HistInv` says that some sequence of states,
each the block applied to the one before, passes through the last commit of every
node. A decided block extends the sequence, and a commit moves a node along it by
`IInv`.

### Upgrade

`IInv` of `EvmUpgradeProofs` says that the committed state of a node is
one of two, determined by its height and by whether the upgrade is skipped, with
the new modules' stores on disk exactly in the upgraded one, and with all of
x/group disabled there unless a block decided since the upgrade has reset the
circuit breaker (`BreakerReset`); that a node inside a
block runs the binary that belongs to its height, on the state of that height;
and that the new binary runs only if the upgrade is not skipped. The last two
are needed because binaries are started on any height: the old one loads any
stores and is stopped only in `PreBlocker`, by a plan that is due or done, and the
new one loads where the upgrade's stores are there or are to be added.

### Export

`IInv` of `ZeroHeightExportProofs` adds to the three properties what is left to be
paid: outstanding for every validator are at least its commission, the rewards
nobody has a share in, and the claims of the delegations the loop has not come to
(`Reserved`). So a claim is never cut down to what is outstanding, and, together
with `Covered`, the module account can pay it. A claim whose payment is refused
stays outstanding, beyond what the claims still to be met need. `Covered` counts what was taken off and not sent;
`StrandedInv` says that this is nothing while no validator's address is
refused. `Counts` is `RecordsConsistent` for
the delegations that have begun anew so far; a turn of the loop ends a period,
which takes one reference from the record before it, and begins a delegation in
the new one (`CountsOneMore`).

### Decoding

`InBounds` alone says nothing about
the next step: that an index is in range follows from its being a natural number
that was compared with the length of its own slice, and that the slice is in the
buffer follows from the slices of all callers. So `IInv` adds `TypeOK` (every
index is a natural number although sums wrap), `SlicesInv` (the slice of the
running call and of every caller lies in the buffer, every caller resumes inside
its slice, a call of `skip` has a caller) and `FieldInv` (the field whose length
or value is being read is one the message has). A wrapped sum is negative
(`PlusFacts`), which the checks of `postIndex`, `skippy` and `iNdEx` refuse. In
`skip` the index may go past the end of its slice; that is harmless only because
the loop ends there, or because the caller compares what it gets with its own
length.

### Message gate

`GateInv` says that a message that is stored in a proposal, or waits to run and
came from inside another, is one that `checkMsg` accepts inside a container, at
depth 2; and that every grant, stored or in the branch, is of a type that is not
disabled. It holds for the states a failure goes back to as well, for any of them
may become the current one. What has passed at a depth has its inner messages
accepted one deeper only, while running brings them to the front, where they are to
be as good as any message at depth 2. This is why acceptance must not depend
on the depth in the other direction: what is accepted deeper is accepted further out
(`AcceptedGrows`, by a greatest depth at which it fails). For
`StoredProposalsClean` the levels of a proposal are followed down: level k is
accepted at depth k + 2, and at the limit nothing is, so there is no such level.

### Testnets

`FilesInv` says, for every place in the command, which nodes have been given a
directory, a key, a signed transaction, copies of the others' transactions and a
final genesis file, and that these are of this run. What is found of earlier runs is not
characterised, except by `IdsInv`: an identity or account that can be read on disk
is of a run that has begun, so a new one is different, and a torn node key is
none at all: a run gets past it only by failing and removing the directory. `CurrentInv` is
the heart: a transaction on disk with an account of this run is the one that this
run made, whatever the name of its file. A file name is made from the node's own
identity, which survives from run to run, so that files of other runs are
overwritten, or stay beside the new ones and are refused when their account has
no balance in the genesis file. So the set that every node collects is
exactly this run's, which is also why the state that is taken from the first node
is right for all of them. The ports are arithmetic: three services share one
range, counted down in steps of three with different remainders, and the ranges of
the others do not meet it, nor does the profilers' port meet any of them.

`InPlaceInv` says that the old validators' records are gone before the new one is
added, that the records of the new one are complete when the node serves, and that
the supply is what the accounts and the mint module account hold, the latter empty
except between minting and sending. Only `Block` writes to disk, and only when
every step has been done.

### Only model-checked

Liveness (`ScheduleExhausted`, `EveryBlockCommitted`, `EveryNodePasses`,
`Decided`), which the prover does not handle, and
`RoundTrip`, which needs induction over the bytes of a message. TLC refutes `ExportFinishes`
and `FlagsTakeEffect`.

## 5. Plan

Done: the schedule, Distro with its refinement, block execution, the upgrade, the
message gate, the export, both testnet commands and the protobuf types. Every
safety property that a passing run checks is proved, except `RoundTrip`. Left is
composition: `Distro` transactions inside the blocks of `BlockExecution`, so that
the burn and the minting ceiling are seen together.

## 6. Not modelled

Queries, CLI descriptions, module registration and simulation operations change
no state; nor do the descriptors, getters and gRPC stubs of the generated files.
The mempool is configured in `app/mempool.go` and implemented in cosmos/evm. The
list of pending transaction listeners is appended to by the JSON-RPC server and
read by `CheckTx` without a lock; the hazards name it, and say why a model of that
race would show no more than the missing order. `init` writes one node's files
as each turn of the multi-node command does. The construction of keepers and the
wiring of IBC are calls in a fixed order at start-up. The EVM, IBC and the SDK's
own modules are libraries: they appear as far as the code here relies on them,
marked external in the map. Gas, fees and signatures appear as a transaction
that may fail and as an origin that is known.
