CONSTANTS
    disabledMsgTypes = {"vm.MsgEthereumTx"}
    maxGroupNestedMsgs = 4
    Msgs <- MCMsgs
    Txs <- MCTxs
SPECIFICATION Spec
INVARIANTS
    DisabledNeverNested
    NoDisabledGrant
    StoredProposalsClean
