------------------------------ MODULE MCMsgGate ------------------------------
EXTENDS MsgGate

Leaf(type) == [type |-> type, inner |-> << >>, grants |-> "none", decodes |-> TRUE]

Grant(granted) ==
    [type |-> "authz.MsgGrant", inner |-> << >>, grants |-> granted, decodes |-> TRUE]

Box(type, msgs) == [type |-> type, inner |-> msgs, grants |-> "none", decodes |-> TRUE]

Leaves == {Leaf("vm.MsgEthereumTx"), Leaf("bank.MsgSend"), Leaf("group.MsgExec"),
           Grant("vm.MsgEthereumTx"), Grant("bank.MsgSend")}

Undecodable == {[Box(type, << >>) EXCEPT !.decodes = FALSE] : type \in Containers}

Singles(msgs) == {Box(type, <<m>>) : type \in Containers, m \in msgs}

\* What comes second is reached only if the first message passes.
Pairs(firsts, second) == {Box(type, <<m, Leaf(second)>>) : type \in Containers, m \in firsts}

Level1 == Singles(Leaves) \cup Undecodable
          \cup Pairs(Leaves, "vm.MsgEthereumTx") \cup Pairs(Leaves, "group.MsgExec")

\* A proposal may be executed right after it was submitted.
Level2 == Singles(Level1) \cup Pairs(Singles({Leaf("bank.MsgSend"), Leaf("group.MsgExec")}),
                                     "group.MsgExec")

\* Three containers inside each other.
MCMsgs == Leaves \cup Level1 \cup Level2 \cup Singles(Level2)

MCTxs ==
    {<<m>> : m \in MCMsgs} \cup {<<l, m>> : l \in Leaves, m \in Leaves \cup Singles(Leaves)}

=============================================================================
