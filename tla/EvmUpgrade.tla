----------------------------- MODULE EvmUpgrade -----------------------------
(***************************************************************************)
(* The evm-upgrade of app/upgrades.go on several nodes.                    *)
(*                                                                         *)
(* The old binary stops at the upgrade height and leaves upgrade-info.json *)
(* on the disk.  The operator starts the new binary, which has the upgrade *)
(* handler: it adds the new stores when it loads, and runs the handler in  *)
(* the block of the upgrade.  Processes crash, operators start the wrong   *)
(* binary, and all operators together may decide to skip the upgrade.      *)
(***************************************************************************)
EXTENDS Naturals, Sequences

CONSTANTS
    Nodes,
    groupMsgTypeURLs,   \* message types of x/group
    ResetMsg,           \* x/circuit's MsgResetCircuitBreaker for all of them
    OtherMsg,           \* any other message
    UpgradeHeight,      \* height of the plan governance has scheduled
    MaxHeight           \* bound: blocks decided

VARIABLES
    blocks,        \* the decided blocks: a sequence of messages
    skip,          \* --unsafe-skip-upgrades names UpgradeHeight
    committed,     \* state of each node at its last commit
    working,       \* state of each node in the block it executes
    binary,        \* "old", "new", or "none" while the node is down
    busy,          \* the node is inside a block
    upgradeInfo    \* upgrade-info.json is on the node's disk

vars == <<blocks, skip, committed, working, binary, busy, upgradeInfo>>

\* The modules the upgrade adds.
NewModules == {"vm", "feemarket", "erc20", "precisebank"}

\* The genesis a module was initialised with: the one of app/genesis.go, or
\* the default of the module.
Geneses == {"none", "gnodi", "default"}

State ==
    [height   : Nat,
     stores   : BOOLEAN,                     \* the new stores exist
     plan     : {"pending", "done", "skipped"},
     metadata : SUBSET {"uGNOD", "aatom"},   \* denominations the bank describes
     genesis  : [NewModules -> Geneses],
     price    : {"none", "zero", "default"}, \* MinGasPrice of x/feemarket
     versions : SUBSET NewModules,           \* new modules in the version map
     disabled : SUBSET groupMsgTypeURLs,     \* the circuit breaker's list
     executed : SUBSET groupMsgTypeURLs,     \* group messages that took effect
     panic    : BOOLEAN]

ASSUME UpgradeAssumption ==
    /\ OtherMsg \notin groupMsgTypeURLs /\ ResetMsg \notin groupMsgTypeURLs \cup {OtherMsg}
    /\ UpgradeHeight \in Nat \ {0} /\ MaxHeight \in Nat

Genesis ==
    [height |-> 0, stores |-> FALSE, plan |-> "pending", metadata |-> {},
     genesis |-> [m \in NewModules |-> "none"], price |-> "none", versions |-> {},
     disabled |-> {}, executed |-> {}, panic |-> FALSE]

-----------------------------------------------------------------------------
(***************************************************************************)
(* The upgrade handler.                                                    *)
(***************************************************************************)

\* x/vm looks up the bank's metadata of its denomination and panics without.
EvmDenom(g) == IF g = "gnodi" THEN "uGNOD" ELSE "aatom"

InitGenesis(s, m, g) ==
    [s EXCEPT !.genesis[m] = g,
              !.price = IF m # "feemarket" THEN @ ELSE IF g = "gnodi" THEN "zero" ELSE g,
              !.panic = @ \/ (m = "vm" /\ EvmDenom(g) \notin s.metadata)]

SetMinGasPrice(s) == [s EXCEPT !.price = "zero"]

SetDenomMetaData(s) == [s EXCEPT !.metadata = @ \cup {"uGNOD"}]

\* A bug: the loop over the message types misses some.
disableGroup_some(s) ==
    [s EXCEPT !.disabled = @ \cup (groupMsgTypeURLs \ {CHOOSE m \in groupMsgTypeURLs : TRUE})]

disableGroup(s) == [s EXCEPT !.disabled = @ \cup groupMsgTypeURLs]

\* Modules that are not in fromVM are initialised with their defaults.
RunMigrations(s, fromVM) ==
    [s EXCEPT !.genesis = [m \in NewModules |-> IF m \in fromVM THEN @[m] ELSE "default"],
              !.price = IF "feemarket" \in fromVM THEN @ ELSE "default",
              !.versions = NewModules,
              !.panic = @ \/ ("vm" \notin fromVM /\ "aatom" \notin s.metadata)]

\* Bugs: x/feemarket is not marked as initialised; the metadata comes late.
upgradeHandler_unmarked(s) ==
    LET vm        == InitGenesis(SetDenomMetaData(s), "vm", "gnodi")
        feemarket == SetMinGasPrice(InitGenesis(vm, "feemarket", "gnodi"))
    IN  RunMigrations(disableGroup(feemarket), s.versions \cup {"vm"})
upgradeHandler_metadataLate(s) ==
    LET vm        == InitGenesis(s, "vm", "gnodi")
        feemarket == SetMinGasPrice(InitGenesis(vm, "feemarket", "gnodi"))
    IN  RunMigrations(disableGroup(SetDenomMetaData(feemarket)),
                      s.versions \cup {"vm", "feemarket"})

upgradeHandler(s) ==
    LET vm        == InitGenesis(SetDenomMetaData(s), "vm", "gnodi")
        feemarket == SetMinGasPrice(InitGenesis(vm, "feemarket", "gnodi"))
    IN  RunMigrations(disableGroup(feemarket), s.versions \cup {"vm", "feemarket"})

-----------------------------------------------------------------------------
(***************************************************************************)
(* Starting and stopping a node.                                           *)
(***************************************************************************)

\* Bugs: the store loader is configured although the upgrade is skipped; it
\* is not configured at all.
storeLoader_ignoresSkip(n) == upgradeInfo[n]
storeLoader_missing(n) == FALSE

\* RegisterUpgradeHandlers configures the store loader of the upgrade.
storeLoader(n) == upgradeInfo[n] /\ ~skip

\* LoadLatestVersion of the new binary: a store it mounts and cannot find is
\* an error, unless the loader adds it; the loader adds stores only if the
\* next block is the one of the upgrade.
Loads(n, bin) ==
    \/ bin = "old"
    \/ committed[n].stores
    \/ storeLoader(n) /\ committed[n].height + 1 = UpgradeHeight

Start(n, bin) ==
    /\ binary[n] = "none"
    /\ Loads(n, bin)
    /\ binary' = [binary EXCEPT ![n] = bin]
    /\ UNCHANGED <<blocks, skip, committed, working, busy, upgradeInfo>>

\* The process ends; what is not committed is lost, upgrade-info.json is not.
Stop(n) ==
    /\ binary' = [binary EXCEPT ![n] = "none"]
    /\ working' = [working EXCEPT ![n] = committed[n]]
    /\ busy' = [busy EXCEPT ![n] = FALSE]
    /\ UNCHANGED <<blocks, skip, committed>>

\* The chain is halted, and all operators add the height to their skip list.
AgreeToSkip ==
    /\ ~skip
    /\ \A n \in Nodes : binary[n] = "none" /\ committed[n].height < UpgradeHeight
    /\ skip' = TRUE
    /\ UNCHANGED <<blocks, committed, working, binary, busy, upgradeInfo>>

Crash(n) ==
    /\ binary[n] # "none"
    /\ Stop(n)
    /\ UNCHANGED upgradeInfo

-----------------------------------------------------------------------------
(***************************************************************************)
(* Executing a block.                                                      *)
(***************************************************************************)
Decide(msg) ==
    /\ Len(blocks) < MaxHeight
    /\ \E n \in Nodes : committed[n].height = Len(blocks)
    /\ blocks' = Append(blocks, msg)
    /\ UNCHANGED <<skip, committed, working, binary, busy, upgradeInfo>>

Ready(n) == binary[n] # "none" /\ ~busy[n] /\ committed[n].height < Len(blocks)

NextHeight(n) == committed[n].height + 1

Due(n) == committed[n].plan = "pending" /\ NextHeight(n) >= UpgradeHeight

\* PreBlocker goes on into the block with state s.
EnterBlock(n, s) ==
    /\ working' = [working EXCEPT ![n] = [s EXCEPT !.height = @ + 1]]
    /\ busy' = [busy EXCEPT ![n] = TRUE]
    /\ UNCHANGED <<blocks, skip, committed, binary, upgradeInfo>>

\* PreBlocker, no upgrade due: the new binary refuses to run ahead of a
\* pending upgrade, the old one to run after a completed upgrade.
PreBlock(n) ==
    LET wrong == \/ binary[n] = "new" /\ committed[n].plan = "pending"
                 \/ binary[n] = "old" /\ committed[n].plan = "done"
    IN  /\ Ready(n) /\ ~Due(n)
        /\ \/ wrong /\ Stop(n) /\ UNCHANGED upgradeInfo
           \/ ~wrong /\ EnterBlock(n, committed[n])

\* The upgrade is due and the operators skip it.
SkipUpgrade(n) ==
    /\ Ready(n) /\ Due(n) /\ skip
    /\ EnterBlock(n, [committed[n] EXCEPT !.plan = "skipped"])

\* The upgrade is due, and the old binary has no handler for it.
UpgradeNeeded(n) ==
    /\ Ready(n) /\ Due(n) /\ ~skip /\ binary[n] = "old"
    /\ upgradeInfo' = [upgradeInfo EXCEPT ![n] = TRUE]
    /\ Stop(n)

\* The upgrade is due, and the new binary runs the handler.
ApplyUpgrade(n) ==
    LET s == upgradeHandler(committed[n])
    IN  /\ Ready(n) /\ Due(n) /\ ~skip /\ binary[n] = "new"
        /\ \/ s.panic /\ Stop(n) /\ UNCHANGED upgradeInfo
           \/ ~s.panic /\ EnterBlock(n, [s EXCEPT !.plan = "done"])

\* The message router asks the circuit breaker, whose administrators may reset
\* it; then the block is committed, with every store the binary mounts.
FinishBlock(n) ==
    LET msg == blocks[working[n].height]
        ok  == msg \in groupMsgTypeURLs \ working[n].disabled
        s   == [working[n] EXCEPT !.executed = IF ok THEN @ \cup {msg} ELSE @,
                                  !.disabled = IF msg = ResetMsg THEN {} ELSE @,
                                  !.stores = @ \/ binary[n] = "new"]
    IN  /\ busy[n]
        /\ working' = [working EXCEPT ![n] = s]
        /\ committed' = [committed EXCEPT ![n] = s]
        /\ busy' = [busy EXCEPT ![n] = FALSE]
        /\ UNCHANGED <<blocks, skip, binary, upgradeInfo>>

Init ==
    /\ blocks = <<>>
    /\ skip = FALSE
    /\ committed = [n \in Nodes |-> Genesis]
    /\ working = committed
    /\ binary = [n \in Nodes |-> "none"]
    /\ busy = [n \in Nodes |-> FALSE]
    /\ upgradeInfo = [n \in Nodes |-> FALSE]

BeginBlock(n) ==
    PreBlock(n) \/ SkipUpgrade(n) \/ UpgradeNeeded(n) \/ ApplyUpgrade(n)

Msgs == groupMsgTypeURLs \cup {ResetMsg, OtherMsg}

Next ==
    \/ \E msg \in Msgs : Decide(msg)
    \/ \E n \in Nodes :
           \/ \E bin \in {"old", "new"} : Start(n, bin)
           \/ BeginBlock(n) \/ FinishBlock(n) \/ Crash(n)
    \/ AgreeToSkip

Spec == Init /\ [][Next]_vars

\* A running node executes blocks, operators do not give up on either binary,
\* and a node does not crash each time it is about to finish what it does.
Fairness ==
    /\ WF_vars(\E msg \in Msgs : Decide(msg))
    /\ \A n \in Nodes :
        /\ SF_vars(Start(n, "old")) /\ SF_vars(Start(n, "new"))
        /\ WF_vars(BeginBlock(n)) /\ SF_vars(UpgradeNeeded(n))
        /\ SF_vars(BeginBlock(n) /\ busy'[n]) /\ SF_vars(FinishBlock(n))

LiveSpec == Spec /\ Fairness

-----------------------------------------------------------------------------
\* The circuit breaker is reset in a block from UpgradeHeight to h.
BreakerReset(decided, h) == \E i \in UpgradeHeight .. h : decided[i] = ResetMsg

\* The height and the decided blocks alone decide whether a committed state is
\* upgraded, in full or not at all, whatever was started, stopped and repeated
\* on the way: from UpgradeHeight on x/vm and x/feemarket have Gnodi's genesis
\* and not their defaults, every new module has its store and its version, and
\* all of x/group is disabled until the breaker is reset; before it, or if the
\* upgrade is skipped, there is no trace of it.
UpgradedByHeight ==
    \A n \in Nodes :
        LET c == committed[n]
            fresh == [Genesis EXCEPT !.height = c.height, !.executed = c.executed]
        IN  IF skip \/ c.height < UpgradeHeight
            THEN c = [fresh EXCEPT !.plan =
                          IF c.height < UpgradeHeight THEN "pending" ELSE "skipped"]
            ELSE c = [fresh EXCEPT !.stores = TRUE, !.plan = "done", !.metadata = {"uGNOD"},
                          !.genesis = [m \in NewModules |->
                              IF m \in {"vm", "feemarket"} THEN "gnodi" ELSE "default"],
                          !.price = "zero", !.versions = NewModules,
                          !.disabled =
                              IF BreakerReset(blocks, c.height) THEN {} ELSE groupMsgTypeURLs]

\* A block is committed only by the binary that belongs to it: operators who
\* start the wrong one lose time and nothing else.
RightBinaryCommits ==
    [][\A n \in Nodes : committed'[n] # committed[n] =>
        (binary[n] = "new" <=> ~skip /\ committed'[n].height >= UpgradeHeight)]_vars

\* No message of x/group takes effect in the block of the upgrade or later,
\* unless a block since then has reset the circuit breaker.
GroupStaysDisabled ==
    [][\A n \in Nodes : committed'[n].executed # committed[n].executed =>
        \/ skip \/ committed'[n].height < UpgradeHeight
        \/ BreakerReset(blocks, committed[n].height)]_vars

\* Every node gets past the upgrade, or past the skipped upgrade: no crash,
\* not even one between loading the stores and the first commit, leaves a
\* node that neither binary can start.
EveryNodePasses ==
    <>(\A n \in Nodes : committed[n].height = MaxHeight)

=============================================================================
