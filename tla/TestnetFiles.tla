---------------------------- MODULE TestnetFiles ----------------------------
(***************************************************************************)
(* The multi-node command of cmd/gnodid/cmd/testnet_multi_node.go: the     *)
(* directories of a testnet's validators, with their keys, genesis         *)
(* transactions, genesis files and configurations.  The command may be     *)
(* stopped or fail at every step, and be run again, perhaps with other     *)
(* arguments, on the directory it left behind.                             *)
(*                                                                         *)
(* Node identities and account keys are generated at random: here they are *)
(* named after the run and the directory they were generated in.           *)
(***************************************************************************)
EXTENDS Integers, Sequences

CONSTANTS
    MaxNumValidators,   \* bound: most validators of a testnet
    MaxRuns,            \* bound: runs of the command
    Args,               \* arguments the command may be given
    AccStakingTokens,   \* stake every account holds at genesis
    DefaultValTokens,   \* stake of a validator without an amount of its own
    None,               \* what is not there; an amount that is no number
    TornKey             \* a key file whose writing failed half way

Index == 0..MaxNumValidators - 1

ASSUME TestnetAssumption ==
    /\ MaxNumValidators \in Nat \ {0}
    /\ MaxNumValidators <= 1317   \* the ports that are counted down stay positive
    /\ MaxRuns \in Nat
    /\ None \notin Nat \X Nat /\ TornKey \notin Nat \X Nat /\ None # TornKey
    /\ \A a \in Args : a.numValidators \in 1..MaxNumValidators

VARIABLES
    disk,    \* the directory of every node
    cmd,     \* the running command: its place in the code and its locals
    run      \* the number of the run; each has a chain id of its own

vars == <<disk, cmd, run>>

EmptyDir == [node |-> None, key |-> None, gentx |-> << >>, genesis |-> None,
             config |-> None, app |-> None]

\* Another file whose writing failed half way: nothing can be read from it.
Torn == [memo |-> None, account |-> None, tokens |-> None]

here == cmd.i
args == cmd.args
numValidators == args.numValidators

-----------------------------------------------------------------------------
(***************************************************************************)
(* Arguments and addresses.                                                *)
(***************************************************************************)

\* Entries of the list that are no numbers are passed over.
Amounts(stakes) == SelectSeq(stakes, LAMBDA a : a # None)

validatorsStakesAmount == Amounts(args.stakes)

valTokens(k) ==
    IF k < Len(validatorsStakesAmount) THEN validatorsStakesAmount[k + 1] ELSE DefaultValTokens

\* A bug: the ports are counted down in twos.
rpcPort_inTwos(k) ==
    IF args.ports = << >> THEN 26657 - 2 * k
    ELSE IF k < Len(args.ports) THEN args.ports[k + 1] ELSE 0

\* Without a list the RPC ports are counted down; a list may be too short.
rpcPort(k) ==
    IF args.ports = << >> THEN 26657 - 3 * k
    ELSE IF k < Len(args.ports) THEN args.ports[k + 1] ELSE 0

p2pPort(k) == 26656 - 3 * k

\* The default of the configuration, which the command leaves to every node.
PprofPort == 6060

nodeConfig(k, peers) ==
    [rpc |-> rpcPort(k), p2p |-> p2pPort(k), proxy |-> 26658 - 3 * k,
     prometheus |-> 26660 + k, pprof |-> PprofPort, persistentPeers |-> peers]

\* BaseConfig is embedded in the configuration: what the second assignment
\* to MinGasPrices overwrites is the value of the flag.
appConfig(k) == [grpc |-> 9090 - 2 * k, api |-> 1317 - k, minGasPrices |-> "0.0001stake"]

memo(node, k) == [node |-> node, ip |-> args.startingIPAddress, port |-> p2pPort(k)]

-----------------------------------------------------------------------------
(***************************************************************************)
(* Files, and x/genutil.                                                   *)
(***************************************************************************)

Write(files, name, contents) ==
    [f \in DOMAIN files \cup {name} |-> IF f = name THEN contents ELSE files[f]]

\* A bug: the test also holds for the files of the nodes before it.
isSubDir_before(file, k) == file <= k

\* A node's own transaction is in its directory already.
isSubDir(file, k) == file = k

\* A bug: a file that is there already is kept.
copyFile_keepsOld(file, k) ==
    LET name == cmd.nodeIDs[file]
    IN  [disk EXCEPT ![k].gentx =
            IF name \in DOMAIN @ THEN @ ELSE Write(@, name, disk[file].gentx[name])]

\* The copy replaces a file of the same name.
copyFile(file, k) ==
    LET name == cmd.nodeIDs[file]
    IN  [disk EXCEPT ![k].gentx = Write(@, name, disk[file].gentx[name])]

\* A genesis transaction is accepted if its file can be read, and its account
\* is in the genesis file with the stake it delegates.
CollectTxs(dir) ==
    \A f \in DOMAIN dir.gentx :
        /\ dir.gentx[f] # Torn
        /\ dir.gentx[f].account \in dir.genesis.balances
        /\ dir.gentx[f].tokens <= AccStakingTokens

GenAppStateFromConfig(dir) ==
    [balances |-> dir.genesis.balances, gentxs |-> {dir.gentx[f] : f \in DOMAIN dir.gentx}]

-----------------------------------------------------------------------------
(***************************************************************************)
(* The command.                                                            *)
(***************************************************************************)

Running == cmd.pc \notin {"idle", "done", "failed"}

\* Continue at pc, with the loop variable k.
Goto(place, k) == [cmd EXCEPT !.pc = place, !.i = k]

\* The next turn of a loop over the nodes, or what follows the loop.
NextNode(place, next) == IF here + 1 < numValidators THEN Goto(place, here + 1) ELSE Goto(next, 0)

Failed == [cmd EXCEPT !.pc = "failed"]

Locals(a) ==
    [pc |-> "node", i |-> 0, file |-> 0, args |-> a, faulty |-> FALSE,
     nodeIDs |-> [k \in Index |-> None], genBalances |-> {}, persistentPeers |-> {},
     appState |-> None]

\* Reading the flags: an amount below zero panics.
Start(a) ==
    /\ ~Running /\ run < MaxRuns
    /\ run' = run + 1
    /\ cmd' = [Locals(a) EXCEPT
                  !.pc = IF \E k \in DOMAIN a.stakes : a.stakes[k] # None /\ a.stakes[k] < 0
                         THEN "failed" ELSE "node"]
    /\ UNCHANGED disk

\* InitializeNodeValidatorFiles keeps keys that are there already.
InitializeNode ==
    /\ cmd.pc = "node" /\ disk[here].node # TornKey
    /\ LET node == IF disk[here].node = None THEN <<run, here>> ELSE disk[here].node
       IN  /\ disk' = [disk EXCEPT ![here].node = node]
           /\ cmd' = [Goto("key", here) EXCEPT
                         !.nodeIDs[here] = node,
                         !.persistentPeers = @ \cup {memo(node, here)}]
    /\ UNCHANGED run

\* A bug: an account key that is there already is kept in the keyring, while
\* the new one is used.
GenerateKey_keepsOld ==
    /\ cmd.pc = "key" /\ disk[here].key # TornKey
    /\ disk' = [disk EXCEPT ![here].key = IF @ = None THEN <<run, here>> ELSE @]
    /\ cmd' = [Goto("gentx", here) EXCEPT !.genBalances = @ \cup {<<run, here>>}]
    /\ UNCHANGED run

\* GenerateSaveCoinKey overwrites the key of an earlier run.
GenerateKey ==
    /\ cmd.pc = "key" /\ disk[here].key # TornKey
    /\ disk' = [disk EXCEPT ![here].key = <<run, here>>]
    /\ cmd' = [Goto("gentx", here) EXCEPT !.genBalances = @ \cup {<<run, here>>}]
    /\ UNCHANGED run

\* The genesis transaction, signed and written, and app.toml.
WriteGentx ==
    /\ cmd.pc = "gentx"
    /\ disk' = [disk EXCEPT
                  ![here].gentx = Write(@, cmd.nodeIDs[here],
                                     [memo |-> memo(cmd.nodeIDs[here], here), account |-> <<run, here>>,
                                      tokens |-> valTokens(here)]),
                  ![here].app = appConfig(here)]
    /\ cmd' = NextNode("node", "genesis")
    /\ UNCHANGED run

\* initGenFiles: the same file without transactions for every node.
InitGenFile ==
    /\ cmd.pc = "genesis"
    /\ disk' = [disk EXCEPT ![here].genesis = [chain |-> run, time |-> 0,
                                            balances |-> cmd.genBalances, gentxs |-> {}]]
    /\ cmd' = NextNode("genesis", "copy")
    /\ UNCHANGED run

\* The inner loop goes over the files, the outer one over the nodes.
NextFile ==
    IF cmd.file + 1 < numValidators THEN [cmd EXCEPT !.file = @ + 1]
    ELSE [NextNode("copy", "collect") EXCEPT !.file = 0]

\* One turn of the inner loop.
CopyGentx ==
    /\ cmd.pc = "copy"
    /\ disk' = IF isSubDir(cmd.file, here) THEN disk ELSE copyFile(cmd.file, here)
    /\ cmd' = NextFile
    /\ UNCHANGED run

\* collectGenFiles: the state of the first node becomes everyone's.
Collect ==
    /\ cmd.pc = "collect"
    /\ LET dir == disk[here]
           appState == IF cmd.appState = None THEN GenAppStateFromConfig(dir) ELSE cmd.appState
       IN  IF CollectTxs(dir)
           THEN /\ disk' = [disk EXCEPT
                       ![here].config = nodeConfig(here, cmd.persistentPeers),
                       ![here].genesis = [chain |-> run, time |-> run,
                                       balances |-> appState.balances,
                                       gentxs |-> appState.gentxs]]
                /\ cmd' = [NextNode("collect", "done") EXCEPT !.appState = appState]
           ELSE disk' = disk /\ cmd' = Failed
    /\ UNCHANGED run

\* The first steps remove the output directory when they fail.  An error of
\* RemoveAll is ignored: some directories may survive.
RemoveAll(survivors) ==
    disk' = [k \in Index |-> IF k \in survivors THEN disk[k] ELSE EmptyDir]

FailAndRemove ==
    /\ cmd.pc \in {"node", "key"}
    /\ \E survivors \in SUBSET Index : RemoveAll(survivors)
    /\ cmd' = [Failed EXCEPT !.faulty = TRUE]
    /\ UNCHANGED run

\* A key that a stopped run left half written can be neither loaded nor
\* replaced: the same errors.
TornKeyRefused ==
    /\ \/ cmd.pc = "node" /\ disk[here].node = TornKey
       \/ cmd.pc = "key" /\ disk[here].key = TornKey
    /\ \E survivors \in SUBSET Index :
           /\ RemoveAll(survivors)
           /\ cmd' = [Failed EXCEPT !.faulty = (survivors # {})]
    /\ UNCHANGED run

\* The file that is being written.  A node's key is written once.
TearFile ==
    \/ /\ cmd.pc = "node" /\ disk[here].node = None
       /\ disk' = [disk EXCEPT ![here].node = TornKey]
    \/ /\ cmd.pc = "key"
       /\ disk' = [disk EXCEPT ![here].key = TornKey]
    \/ /\ cmd.pc = "gentx"
       /\ disk' = [disk EXCEPT ![here].gentx = Write(@, cmd.nodeIDs[here], Torn)]
    \/ /\ cmd.pc = "copy" /\ ~isSubDir(cmd.file, here)
       /\ disk' = [disk EXCEPT ![here].gentx = Write(@, cmd.nodeIDs[cmd.file], Torn)]
    \/ /\ cmd.pc \in {"genesis", "collect"}
       /\ disk' = [disk EXCEPT ![here].genesis = Torn]

\* Every other error, or a signal, leaves things as they are.
StopInPlace ==
    /\ Running
    /\ disk' = disk \/ TearFile
    /\ cmd' = [Failed EXCEPT !.faulty = TRUE]
    /\ UNCHANGED run

Init ==
    /\ disk = [k \in Index |-> EmptyDir]
    /\ \E a \in Args : cmd = [Locals(a) EXCEPT !.pc = "idle"]
    /\ run = 0

Next ==
    \/ \E a \in Args : Start(a)
    \/ InitializeNode \/ GenerateKey \/ WriteGentx
    \/ InitGenFile \/ CopyGentx \/ Collect
    \/ FailAndRemove \/ TornKeyRefused \/ StopInPlace

Spec == Init /\ [][Next]_vars

-----------------------------------------------------------------------------
Nodes == 0..numValidators - 1

\* When the command succeeds, whatever earlier runs left in the directory,
\* all nodes have the same genesis file, for the chain of this run, and in it
\* exactly one validator for each of them: with the node identity and the
\* account whose keys lie in that node's directory, and with its stake.
GenesisMatchesKeys ==
    cmd.pc = "done" =>
        \A k \in Nodes :
            disk[k].genesis =
                [chain |-> run, time |-> run,
                 balances |-> {disk[j].key : j \in Nodes},
                 gentxs |-> {[memo |-> memo(disk[j].node, j), account |-> disk[j].key,
                              tokens |-> valTokens(j)] : j \in Nodes}]

\* "They should not differ": a node's own state is the one already taken from
\* the first node, unless the command fails here.
AppStatesAgree ==
    cmd.pc = "collect" /\ cmd.appState # None /\ CollectTxs(disk[here]) =>
        GenAppStateFromConfig(disk[here]) = cmd.appState

\* Running the command again repairs what a failed run left behind: without
\* an error of its own it fails only if an amount is negative or more than an
\* account holds, if transactions of nodes that are not in this testnet were
\* left in a directory, or if it met a key that was half written; then it has
\* removed all directories, and the run after it starts anew.
FailsForCause ==
    cmd.pc = "failed" /\ ~cmd.faulty =>
        \/ \E k \in Nodes : valTokens(k) \notin 0..AccStakingTokens
        \/ \E k \in DOMAIN args.stakes : args.stakes[k] # None /\ args.stakes[k] < 0
        \/ \E k \in Nodes : ~(DOMAIN disk[k].gentx \subseteq {cmd.nodeIDs[j] : j \in Nodes})
        \/ \A k \in Index : disk[k] = EmptyDir

ListeningPorts(k) ==
    LET c == disk[k].config
        a == disk[k].app
    IN  <<c.rpc, c.p2p, c.proxy, c.prometheus, a.grpc, a.api>>

\* The nodes of a testnet can run side by side and know each other: the peers
\* in every configuration are the nodes, at the ports they listen on, and no
\* port is used twice, unless the user chose the ports.  All profilers have
\* the same port; no other service has it.
NodesCanConnect ==
    cmd.pc = "done" =>
        /\ \A k \in Nodes :
              {<<p.node, p.port>> : p \in disk[k].config.persistentPeers} =
                  {<<disk[j].node, disk[j].config.p2p>> : j \in Nodes}
        /\ args.ports = << >> =>
              \A j, k \in Nodes, s, t \in 1..6 :
                  /\ ListeningPorts(j)[s] = ListeningPorts(k)[t] => j = k /\ s = t
                  /\ ListeningPorts(j)[s] # disk[k].config.pprof

\* Every node is configured as the help texts of the flags have it: the
\* addresses of the peers are counted up from --starting-ip-address, and
\* transactions are accepted at --minimum-gas-prices.
FlagsTakeEffect ==
    cmd.pc = "done" =>
        \A k \in Nodes :
            /\ \A j \in Nodes : \A p \in disk[k].config.persistentPeers :
                  p.node = disk[j].node => p.ip = args.startingIPAddress + j
            /\ disk[k].app.minGasPrices = args.minGasPrices

=============================================================================
