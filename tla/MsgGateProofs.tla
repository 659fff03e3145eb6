--------------------------- MODULE MsgGateProofs ---------------------------
(***************************************************************************)
(* The group limiter for every set of messages, however deep they nest,    *)
(* every list of disabled types and every limit on the depth.              *)
(***************************************************************************)
EXTENDS MsgGate, ArithmeticProofs

-----------------------------------------------------------------------------
(***************************************************************************)
(* The recursion of checkMsg.                                              *)
(***************************************************************************)

\* The function checkMsg's recursion defines, from a depth on.
IsAccepted(g, from) ==
    g = [depth \in from..maxGroupNestedMsgs |->
            [msg \in Msgs |-> /\ depth < maxGroupNestedMsgs
                              /\ Acceptable(msg, TRUE, g[depth + 1])]]

\* There is such a function: nothing is accepted at the last depth, and each
\* depth rests on the next.
LEMMA AcceptedExists ==
    ASSUME NEW from \in 1..maxGroupNestedMsgs
    PROVE  \E g : IsAccepted(g, from)
<1> DEFINE Limit == maxGroupNestedMsgs
           Bad == {n \in Nat : \E d \in 1..Limit : n = Limit - d /\ ~(\E g : IsAccepted(g, d))}
<1>0. Limit \in Nat
  BY GateAssumption
<1> HIDE DEF Limit
<1> SUFFICES ASSUME Bad # {} PROVE FALSE
  <2>1. Limit - from \in Nat
    BY <1>0 DEF Limit
  <2>2. from \in 1..Limit
    BY DEF Limit
  <2> QED
    BY <2>1, <2>2
<1>1. PICK n \in Bad : \A k \in Bad : n <= k
  <2>1. Bad \subseteq Nat
    OBVIOUS
  <2> HIDE DEF Bad
  <2> QED
    BY <2>1, LeastNumber
<1>2. PICK d \in 1..Limit : n = Limit - d /\ ~(\E g : IsAccepted(g, d))
  OBVIOUS
<1> DEFINE Body(dd, x) == [msg \in Msgs |-> dd < Limit /\ Acceptable(msg, TRUE, x)]
<1>3. CASE d = Limit
  <2> DEFINE g == [dd \in d..Limit |-> Body(dd, 0)]
             e == [dd \in d..Limit |-> Body(dd, g[dd + 1])]
  <2>1. ASSUME NEW dd \in d..Limit PROVE Body(dd, 0) = Body(dd, g[dd + 1])
    <3>1. ~(dd < Limit)
      BY <1>0, <1>3
    <3> QED
      BY <3>1, Zenon
  <2>2. g = e
    BY <2>1
  <2>3. IsAccepted(g, d)
    BY <2>2 DEF IsAccepted, Limit
  <2> QED
    BY <2>3, <1>2
<1>4. CASE d # Limit
  <2>1. d + 1 \in 1..Limit /\ Limit - (d + 1) \in Nat /\ ~(n <= Limit - (d + 1))
    BY <1>0, <1>2, <1>4
  <2>2. PICK h : IsAccepted(h, d + 1)
    BY <1>1, <2>1
  <2> DEFINE g == [dd \in d..Limit |-> IF dd = d THEN Body(d, h[d + 1]) ELSE h[dd]]
             e == [dd \in d..Limit |-> Body(dd, g[dd + 1])]
  <2>3. \A dd \in (d + 1)..Limit : h[dd] = Body(dd, h[dd + 1])
    BY <2>2 DEF IsAccepted, Limit
  <2>4. ASSUME NEW dd \in d..Limit PROVE g[dd] = e[dd]
    <3>1. CASE dd = d
      <4>1. d + 1 \in d..Limit /\ d + 1 # d
        BY <2>1
      <4>2. g[d + 1] = h[d + 1]
        BY <4>1
      <4> QED
        BY <3>1, <4>2
    <3>2. CASE dd # d
      <4>1. dd \in (d + 1)..Limit
        BY <1>0, <3>2
      <4>2. g[dd] = Body(dd, h[dd + 1])
        BY <2>3, <3>2, <4>1
      <4>3. Body(dd, h[dd + 1]) = Body(dd, g[dd + 1])
        <5>1. CASE dd = Limit
          <6>1. ~(dd < Limit)
            BY <1>0, <5>1
          <6> QED
            BY <6>1, Zenon
        <5>2. CASE dd # Limit
          <6>1. dd + 1 \in d..Limit /\ dd + 1 # d
            BY <1>0, <4>1, <5>2
          <6>2. g[dd + 1] = h[dd + 1]
            BY <6>1
          <6> QED
            BY <6>2
        <5> QED
          BY <5>1, <5>2
      <4> QED
        BY <4>2, <4>3
    <3> QED
      BY <3>1, <3>2
  <2>5. g = e
    BY <2>4
  <2>6. IsAccepted(g, d)
    BY <2>5 DEF IsAccepted, Limit
  <2> QED
    BY <2>6, <1>2
<1> QED
  BY <1>3, <1>4

\* acceptedInside obeys its recursion: checkMsg, unfolded once.
LEMMA AcceptedDef ==
    ASSUME NEW depth \in 1..maxGroupNestedMsgs, NEW msg \in Msgs
    PROVE  acceptedInside[depth][msg] =
               (depth < maxGroupNestedMsgs /\ Acceptable(msg, TRUE, acceptedInside[depth + 1]))
<1>1. acceptedInside = CHOOSE g : IsAccepted(g, 1)
  BY Zenon DEF acceptedInside, IsAccepted
<1>2. 1 \in 1..maxGroupNestedMsgs
  BY GateAssumption
<1>3. IsAccepted(acceptedInside, 1)
  BY <1>1, <1>2, AcceptedExists
<1>4. acceptedInside[depth] =
        [m \in Msgs |-> depth < maxGroupNestedMsgs /\ Acceptable(m, TRUE, acceptedInside[depth + 1])]
  BY <1>3, Zenon DEF IsAccepted
<1> QED
  BY <1>4, Zenon

\* What checkMsg accepts at a depth.
AcceptedAt(depth) == {msg \in Msgs : acceptedInside[depth][msg]}

\* Nothing passes at the limit.
LEMMA NothingAtLimit == AcceptedAt(maxGroupNestedMsgs) = {}
<1>1. maxGroupNestedMsgs \in 1..maxGroupNestedMsgs /\ ~(maxGroupNestedMsgs < maxGroupNestedMsgs)
  BY GateAssumption
<1>2. ASSUME NEW msg \in Msgs PROVE ~acceptedInside[maxGroupNestedMsgs][msg]
  BY <1>1, AcceptedDef, Zenon
<1> QED
  BY <1>2, Zenon DEF AcceptedAt

\* What checkMsg accepts inside a container has a clean type, a payload that
\* can be read, and inside it only what is accepted one level deeper.
LEMMA AcceptedMsg ==
    ASSUME NEW depth \in 1..maxGroupNestedMsgs, NEW msg \in AcceptedAt(depth)
    PROVE  /\ depth + 1 \in 1..maxGroupNestedMsgs
           /\ msg \in Msgs /\ msg.decodes /\ ~isDisabled(msg.type)
           /\ msg.inner \in Seq(AcceptedAt(depth + 1))
           /\ msg.type = "authz.MsgGrant" => ~isDisabled(msg.grants)
<1>1. msg \in Msgs /\ acceptedInside[depth][msg]
  BY Zenon DEF AcceptedAt
<1>2. depth < maxGroupNestedMsgs /\ Acceptable(msg, TRUE, acceptedInside[depth + 1])
  BY <1>1, AcceptedDef, Zenon
<1>3. depth + 1 \in 1..maxGroupNestedMsgs
  BY <1>2, GateAssumption
<1>4. /\ msg.inner \in Seq(Msgs)
      /\ msg.type \notin Containers => msg.inner = << >>
      /\ msg.type \notin Containers \cup {"authz.MsgGrant"} => msg.decodes
  BY <1>1, GateAssumption
<1>5. CASE msg.type \in Containers
  <2>0. msg.type # "authz.MsgGrant"
    BY <1>5 DEF Containers
  <2>1. msg.decodes /\ \A k \in DOMAIN msg.inner : acceptedInside[depth + 1][msg.inner[k]]
    BY <1>2, <1>5, <2>0, Zenon DEF Acceptable
  <2>2. \A k \in DOMAIN msg.inner : msg.inner[k] \in Msgs
    BY <1>4
  <2>3. \A k \in DOMAIN msg.inner : msg.inner[k] \in AcceptedAt(depth + 1)
    BY <2>1, <2>2, Zenon DEF AcceptedAt
  <2>4. msg.inner \in Seq(AcceptedAt(depth + 1))
    BY <1>4, <2>3
  <2>5. ~isDisabled(msg.type) /\ msg.type # "authz.MsgGrant"
    BY <1>5, GateAssumption DEF isDisabled, Containers
  <2> QED
    BY <1>1, <1>3, <2>1, <2>4, <2>5
<1>6. CASE msg.type = "authz.MsgGrant"
  <2>1. msg.type \notin Containers
    BY <1>6 DEF Containers
  <2>2. msg.decodes /\ ~isDisabled(msg.grants)
    BY <1>2, <1>6, <2>1, Zenon DEF Acceptable
  <2>3. ~isDisabled(msg.type)
    BY <1>6, GateAssumption DEF isDisabled
  <2> QED
    BY <1>1, <1>3, <1>4, <2>1, <2>2, <2>3
<1>7. CASE msg.type \notin Containers \cup {"authz.MsgGrant"}
  <2>1. ~isDisabled(msg.type)
    BY <1>2, <1>7, Zenon DEF Acceptable
  <2> QED
    BY <1>1, <1>3, <1>4, <1>7, <2>1
<1> QED
  BY <1>5, <1>6, <1>7

\* What passes deeper down passes further up: less nesting is left to refuse.
LEMMA AcceptedGrows ==
    ASSUME NEW depth \in 1..maxGroupNestedMsgs, depth + 1 \in 1..maxGroupNestedMsgs
    PROVE  AcceptedAt(depth + 1) \subseteq AcceptedAt(depth)
<1> DEFINE Limit == maxGroupNestedMsgs
           Wrong(d) == ~(AcceptedAt(d + 1) \subseteq AcceptedAt(d))
           Bad == {n \in Nat : \E d \in 1..Limit : d + 1 \in 1..Limit /\ n = Limit - d /\ Wrong(d)}
<1>0. Limit \in Nat
  BY GateAssumption
<1> SUFFICES ASSUME Bad # {} PROVE FALSE
  <2>1. Limit - depth \in Nat
    BY <1>0
  <2> QED
    BY <2>1
<1>1. PICK n \in Bad : \A k \in Bad : n <= k
  <2>1. Bad \subseteq Nat
    OBVIOUS
  <2> HIDE DEF Bad
  <2> QED
    BY <2>1, LeastNumber
<1>2. PICK d \in 1..Limit : d + 1 \in 1..Limit /\ n = Limit - d /\ Wrong(d)
  OBVIOUS
<1>3. PICK msg \in AcceptedAt(d + 1) : msg \notin AcceptedAt(d)
  BY <1>2
<1>4. /\ (d + 1) + 1 \in 1..Limit
      /\ msg \in Msgs /\ acceptedInside[d + 1][msg]
  <2>1. msg \in Msgs /\ acceptedInside[d + 1][msg]
    BY <1>3, Zenon DEF AcceptedAt
  <2>2. (d + 1) + 1 \in 1..Limit
    BY <1>2, AcceptedMsg
  <2> QED
    BY <2>1, <2>2
<1>5. AcceptedAt((d + 1) + 1) \subseteq AcceptedAt(d + 1)
  <2>1. Limit - (d + 1) \in Nat /\ ~(n <= Limit - (d + 1))
    BY <1>0, <1>2
  <2>2. ~Wrong(d + 1)
    BY <1>1, <1>2, <1>4, <2>1
  <2> QED
    BY <2>2
<1>6. Acceptable(msg, TRUE, acceptedInside[(d + 1) + 1])
  BY <1>2, <1>4, AcceptedDef, Zenon
<1>7. Acceptable(msg, TRUE, acceptedInside[d + 1])
  <2>1. CASE msg.type \in Containers
    <3>1. msg.inner \in Seq(AcceptedAt((d + 1) + 1))
      BY <1>2, AcceptedMsg
    <3>2. \A k \in DOMAIN msg.inner : msg.inner[k] \in AcceptedAt(d + 1)
      BY <1>5, <3>1
    <3>3. \A k \in DOMAIN msg.inner : acceptedInside[d + 1][msg.inner[k]]
      BY <3>2, Zenon DEF AcceptedAt
    <3> QED
      BY <1>6, <2>1, <3>3, Zenon DEF Acceptable
  <2>2. CASE msg.type \notin Containers
    BY <1>6, <2>2, Zenon DEF Acceptable
  <2> QED
    BY <2>1, <2>2
<1>8. d < Limit
  BY <1>0, <1>2
<1>9. acceptedInside[d][msg]
  BY <1>4, <1>7, <1>8, AcceptedDef, Zenon
<1> QED
  BY <1>3, <1>4, <1>9, Zenon DEF AcceptedAt

-----------------------------------------------------------------------------
(***************************************************************************)
(* The invariant: whatever is stored or waits to run inside another        *)
(* message was accepted by checkMsg inside a container.                    *)
(***************************************************************************)

\* Messages that may run or be stored inside another one.
SafeMsgs == AcceptedAt(2)

\* Messages the limiter lets a transaction carry.
TxMsgs == {msg \in Msgs : checkMsg(msg, FALSE, 1)}

Pending == [msg : SafeMsgs, inside : {TRUE}] \cup [msg : TxMsgs, inside : {FALSE}]

Stores == [proposal : Seq(SafeMsgs), grants : SUBSET ({msg.grants : msg \in Msgs} \ disabledMsgTypes)]

GateInv ==
    /\ store \in Stores
    /\ work \in Stores
    /\ stack \in Seq([todo : Seq(Pending), undo : Stores])

\* A message that may run inside another has nothing unsafe inside it.
LEMMA SafeMsg ==
    ASSUME NEW msg \in SafeMsgs
    PROVE  /\ msg \in Msgs /\ msg.decodes /\ ~isDisabled(msg.type)
           /\ msg.inner \in Seq(SafeMsgs)
           /\ msg.type = "authz.MsgGrant" => ~isDisabled(msg.grants)
<1>1. 2 \in 1..maxGroupNestedMsgs
  BY GateAssumption
<1>2. msg \in AcceptedAt(2)
  BY DEF SafeMsgs
<1>3. /\ 2 + 1 \in 1..maxGroupNestedMsgs
      /\ msg \in Msgs /\ msg.decodes /\ ~isDisabled(msg.type)
      /\ msg.inner \in Seq(AcceptedAt(2 + 1))
      /\ msg.type = "authz.MsgGrant" => ~isDisabled(msg.grants)
  BY <1>1, <1>2, AcceptedMsg
<1>4. AcceptedAt(2 + 1) \subseteq AcceptedAt(2)
  BY <1>1, <1>3, AcceptedGrows
<1>5. msg.inner \in Seq(AcceptedAt(2))
  BY <1>3, <1>4
<1> QED
  BY <1>3, <1>5 DEF SafeMsgs

\* Neither has a message of a transaction, whatever its own type is.
LEMMA TxMsg ==
    ASSUME NEW msg \in TxMsgs
    PROVE  /\ msg \in Msgs
           /\ msg.inner \in Seq(SafeMsgs)
           /\ msg.type = "authz.MsgGrant" => ~isDisabled(msg.grants)
<1>1. msg \in Msgs /\ Acceptable(msg, FALSE, acceptedInside[1 + 1])
  BY Zenon DEF TxMsgs, checkMsg
<1>2. msg.inner \in Seq(Msgs) /\ (msg.type \notin Containers => msg.inner = << >>)
  BY <1>1, GateAssumption
<1>3. CASE msg.type \in Containers
  <2>0. msg.type # "authz.MsgGrant"
    BY <1>3 DEF Containers
  <2>1. \A k \in DOMAIN msg.inner : acceptedInside[1 + 1][msg.inner[k]]
    BY <1>1, <1>3, <2>0, Zenon DEF Acceptable
  <2>2. 1 + 1 = 2
    OBVIOUS
  <2>3. \A k \in DOMAIN msg.inner : acceptedInside[2][msg.inner[k]]
    BY <2>1, <2>2, Zenon
  <2>4. \A k \in DOMAIN msg.inner : msg.inner[k] \in Msgs
    BY <1>2
  <2>5. \A k \in DOMAIN msg.inner : msg.inner[k] \in SafeMsgs
    BY <2>3, <2>4, Zenon DEF SafeMsgs, AcceptedAt
  <2> QED
    BY <1>1, <1>2, <2>0, <2>5
<1>4. CASE msg.type \notin Containers
  <2>1. msg.type = "authz.MsgGrant" => ~isDisabled(msg.grants)
    BY <1>1, <1>4, Zenon DEF Acceptable
  <2> QED
    BY <1>1, <1>2, <1>4, <2>1
<1> QED
  BY <1>3, <1>4

\* What waits to run may be taken as a message whose payload is safe.
LEMMA PendingMsg ==
    ASSUME NEW e \in Pending
    PROVE  /\ e.msg \in Msgs
           /\ e.msg.inner \in Seq(SafeMsgs)
           /\ e.msg.type = "authz.MsgGrant" => ~isDisabled(e.msg.grants)
           /\ e.inside => ~isDisabled(e.msg.type)
<1>1. CASE e \in [msg : SafeMsgs, inside : {TRUE}]
  <2>1. e.msg \in SafeMsgs
    BY <1>1
  <2> QED
    BY <2>1, SafeMsg
<1>2. CASE e \in [msg : TxMsgs, inside : {FALSE}]
  <2>1. e.msg \in TxMsgs /\ e.inside = FALSE
    BY <1>2
  <2> QED
    BY <2>1, TxMsg
<1> QED
  BY <1>1, <1>2 DEF Pending

\* The units that may run.
Units == [todo : Seq(Pending), undo : Stores]

\* Safe messages may run inside another one.
LEMMA InsideUnit ==
    ASSUME NEW msgs \in Seq(SafeMsgs), NEW undo \in Stores
    PROVE  Unit(msgs, TRUE, undo) \in Units
<1> DEFINE todo == [k \in DOMAIN msgs |-> [msg |-> msgs[k], inside |-> TRUE]]
<1>1. \A k \in DOMAIN msgs : [msg |-> msgs[k], inside |-> TRUE] \in Pending
  BY DEF Pending
<1>2. Len(msgs) \in Nat /\ DOMAIN msgs = 1..Len(msgs)
  OBVIOUS
<1>3. todo \in Seq(Pending)
  BY <1>1, <1>2
<1> QED
  BY <1>3 DEF Unit, Units

\* A transaction the limiter lets through may run.
LEMMA TxUnit ==
    ASSUME NEW tx \in Txs, AnteHandle(tx), NEW undo \in Stores
    PROVE  Unit(tx, FALSE, undo) \in Units
<1> DEFINE todo == [k \in DOMAIN tx |-> [msg |-> tx[k], inside |-> FALSE]]
<1>1. tx \in Seq(Msgs)
  BY GateAssumption
<1>2. Len(tx) \in Nat /\ DOMAIN tx = 1..Len(tx) /\ \A k \in DOMAIN tx : tx[k] \in Msgs
  BY <1>1
<1>3. \A k \in DOMAIN tx : tx[k] \in TxMsgs
  BY <1>2, Zenon DEF AnteHandle, TxMsgs
<1>4. \A k \in DOMAIN tx : [msg |-> tx[k], inside |-> FALSE] \in Pending
  BY <1>3 DEF Pending
<1>5. todo \in Seq(Pending)
  BY <1>2, <1>4
<1> QED
  BY <1>5 DEF Unit, Units

\* A sequence of one element.
LEMMA OneElement == ASSUME NEW S, NEW x \in S PROVE <<x>> \in Seq(S)
OBVIOUS

\* Two sequences in a row.
LEMMA InARow == ASSUME NEW S, NEW s \in Seq(S), NEW t \in Seq(S) PROVE s \o t \in Seq(S)
OBVIOUS

\* A message that is entered is a pending one.
LEMMA Entered ==
    ASSUME GateInv, stack # << >>, top.todo # << >>
    PROVE  /\ stack \in Seq(Units) /\ top \in Units /\ Len(stack) \in Nat \ {0}
           /\ top.todo \in Seq(Pending) /\ top.undo \in Stores
           /\ top.todo[1] \in Pending /\ Tail(top.todo) \in Seq(Pending)
<1>1. stack \in Seq(Units)
  BY DEF GateInv, Units
<1>2. Len(stack) \in Nat \ {0} /\ top \in Units
  BY <1>1 DEF top
<1>3. top.todo \in Seq(Pending) /\ top.undo \in Stores
  BY <1>2 DEF Units
<1>4. top.todo[1] \in Pending /\ Tail(top.todo) \in Seq(Pending)
  BY <1>3
<1> QED
  BY <1>1, <1>2, <1>3, <1>4

\* Going on after a message, with safe messages before those that follow it.
LEMMA ContinueStack ==
    ASSUME GateInv, stack # << >>, top.todo # << >>, NEW msgs \in Seq(SafeMsgs)
    PROVE  Continue(msgs) \in Seq(Units)
<1> DEFINE rest == Unit(msgs, TRUE, work).todo \o Tail(top.todo)
<1>1. /\ stack \in Seq(Units) /\ top \in Units /\ Len(stack) \in Nat \ {0}
      /\ Tail(top.todo) \in Seq(Pending)
  BY Entered
<1>2. Unit(msgs, TRUE, work).todo \in Seq(Pending)
  <2>1. Unit(msgs, TRUE, work) \in Units
    BY InsideUnit DEF GateInv
  <2> QED
    BY <2>1 DEF Units
<1>3. rest \in Seq(Pending)
  BY <1>1, <1>2, InARow
<1>4. Continue(msgs) = [stack EXCEPT ![1] = [stack[1] EXCEPT !.todo = rest]]
  BY DEF Continue, top
<1> HIDE DEF rest
<1>5. [stack[1] EXCEPT !.todo = rest] \in Units
  BY <1>1, <1>3 DEF Units, top
<1> QED
  BY <1>1, <1>4, <1>5

\* No safe message: nothing comes before those that follow.
LEMMA NoMsgs == << >> \in Seq(SafeMsgs)
OBVIOUS

\* A chain without proposals and grants satisfies the invariant.
LEMMA GateInit == Init => GateInv
BY NoMsgs DEF Init, GateInv, Stores

\* A transaction starts on what is stored.
LEMMA DeliverTxStep ==
    ASSUME GateInv, NEW tx \in Txs, DeliverTx(tx)
    PROVE  GateInv'
<1>1. Unit(tx, FALSE, store) \in Units
  BY TxUnit DEF DeliverTx, GateInv
<1>2. stack' \in Seq(Units)
  BY <1>1, OneElement DEF DeliverTx
<1> QED
  BY <1>2 DEF DeliverTx, GateInv, Units

\* x/authz runs a payload that is safe.
LEMMA RunExecStep == ASSUME GateInv, RunExec PROVE GateInv'
<1>1. top.todo[1] \in Pending
  BY Entered DEF RunExec, Enters
<1>2. current.inner \in Seq(SafeMsgs)
  BY <1>1, PendingMsg DEF current
<1>3. stack' \in Seq(Units)
  BY <1>2, ContinueStack DEF RunExec, Enters
<1> QED
  BY <1>3 DEF RunExec, Enters, GateInv, Units

\* A grant authorises a type that is not disabled.
LEMMA RunGrantStep == ASSUME GateInv, RunGrant PROVE GateInv'
<1>1. top.todo[1] \in Pending /\ current.type = "authz.MsgGrant"
  BY Entered DEF RunGrant, Enters
<1>2. current \in Msgs /\ ~isDisabled(current.grants)
  BY <1>1, PendingMsg DEF current
<1>3. stack' \in Seq(Units)
  BY NoMsgs, ContinueStack DEF RunGrant, Enters
<1>4. work' \in Stores
  <2>1. current.grants \in {msg.grants : msg \in Msgs} \ disabledMsgTypes
    BY <1>2 DEF isDisabled
  <2> QED
    BY <2>1 DEF RunGrant, GateInv, Stores
<1> QED
  BY <1>3, <1>4 DEF RunGrant, Enters, GateInv, Units

\* x/group stores a payload that is safe.
LEMMA RunSubmitProposalStep == ASSUME GateInv, RunSubmitProposal PROVE GateInv'
<1>1. top.todo[1] \in Pending
  BY Entered DEF RunSubmitProposal, Enters
<1>2. current.inner \in Seq(SafeMsgs)
  BY <1>1, PendingMsg DEF current
<1>3. stack' \in Seq(Units)
  BY NoMsgs, ContinueStack DEF RunSubmitProposal, Enters
<1>4. work' \in Stores
  BY <1>2 DEF RunSubmitProposal, GateInv, Stores
<1> QED
  BY <1>3, <1>4 DEF RunSubmitProposal, Enters, GateInv, Units

\* What x/group runs is what it has stored.
LEMMA RunProposalStep == ASSUME GateInv, RunProposal PROVE GateInv'
<1>1. work \in Stores /\ work.proposal \in Seq(SafeMsgs)
  BY DEF GateInv, Stores
<1>2. Unit(work.proposal, TRUE, work) \in Units
  BY <1>1, InsideUnit
<1>3. Continue(<< >>) \in Seq(Units)
  BY NoMsgs, ContinueStack DEF RunProposal, Enters
<1>4. stack' \in Seq(Units)
  BY <1>2, <1>3, OneElement, InARow DEF RunProposal
<1>5. work' \in Stores
  BY <1>1, NoMsgs DEF RunProposal, Stores
<1> QED
  BY <1>4, <1>5 DEF RunProposal, Enters, GateInv, Units

\* Messages of other types, failures and the end of a run.
LEMMA OtherSteps ==
    ASSUME GateInv, RunOther \/ MessageFails \/ OutOfGas \/ Finish
    PROVE  GateInv'
<1>1. CASE RunOther
  <2>1. stack' \in Seq(Units)
    BY <1>1, NoMsgs, ContinueStack DEF RunOther, Enters
  <2> QED
    BY <1>1, <2>1 DEF RunOther, Enters, GateInv, Units
<1>2. CASE MessageFails
  <2>1. top.undo \in Stores /\ stack \in Seq(Units)
    BY <1>2, Entered DEF MessageFails
  <2>2. stack' \in Seq(Units)
    BY <1>2, <2>1 DEF MessageFails
  <2> QED
    BY <1>2, <2>1, <2>2 DEF MessageFails, GateInv, Units
<1>3. CASE OutOfGas
  <2>1. << >> \in Seq([todo : Seq(Pending), undo : Stores])
    OBVIOUS
  <2> QED
    BY <1>3, <2>1 DEF OutOfGas, GateInv
<1>4. CASE Finish
  <2>1. stack' \in Seq(Units)
    BY <1>4 DEF Finish, GateInv, Units
  <2> QED
    BY <1>4, <2>1 DEF Finish, GateInv, Units
<1> QED
  BY <1>1, <1>2, <1>3, <1>4

\* Whatever is stored, or waits to run inside a message, was accepted.
LEMMA GateInvariant == Spec => []GateInv
<1>1. GateInv /\ [Next]_vars => GateInv'
  <2> SUFFICES ASSUME GateInv, [Next]_vars PROVE GateInv'
    OBVIOUS
  <2>1. CASE \E tx \in Txs : DeliverTx(tx)
    BY <2>1, DeliverTxStep
  <2>2. CASE RunExec
    BY <2>2, RunExecStep
  <2>3. CASE RunGrant
    BY <2>3, RunGrantStep
  <2>4. CASE RunSubmitProposal
    BY <2>4, RunSubmitProposalStep
  <2>5. CASE RunProposal
    BY <2>5, RunProposalStep
  <2>6. CASE RunOther \/ MessageFails \/ OutOfGas \/ Finish
    BY <2>6, OtherSteps
  <2>7. CASE DisableGroup \/ \E type \in GroupTypes : ResetCircuitBreaker(type)
    BY <2>7 DEF DisableGroup, ResetCircuitBreaker, GateInv
  <2>8. CASE UNCHANGED vars
    BY <2>8 DEF vars, GateInv
  <2> QED
    BY <2>1, <2>2, <2>3, <2>4, <2>5, <2>6, <2>7, <2>8 DEF Next
<1> QED
  BY <1>1, GateInit, PTL DEF Spec

\* A disabled type never runs from inside another message.
THEOREM GateNeverNested == Spec => []DisabledNeverNested
<1>1. GateInv => DisabledNeverNested
  <2> SUFFICES ASSUME GateInv, stack # << >>, top.todo # << >>, top.todo[1].inside
               PROVE  ~isDisabled(current.type)
    BY DEF DisabledNeverNested
  <2>1. top.todo[1] \in Pending
    BY Entered
  <2> QED
    BY <2>1, PendingMsg DEF current
<1> QED
  BY <1>1, GateInvariant, PTL

\* No authorisation for a disabled type is ever stored.
THEOREM GateNoDisabledGrant == Spec => []NoDisabledGrant
<1>1. GateInv => NoDisabledGrant
  BY DEF GateInv, Stores, NoDisabledGrant, isDisabled
<1> QED
  BY <1>1, GateInvariant, PTL

-----------------------------------------------------------------------------
(***************************************************************************)
(* Stored proposals, level by level.                                       *)
(***************************************************************************)

\* The messages inside the messages of a set.
InnerOf(msgs) == UNION {ToSet(msg.inner) : msg \in msgs}

\* The function that lists the levels, down to level n.
IsNesting(g, msgs, n) ==
    g = [k \in 0..n |-> IF k = 0 THEN ToSet(msgs) ELSE InnerOf(g[k - 1])]

\* There is such a function: each level is made from the one above.
LEMMA NestingExists ==
    ASSUME NEW msgs, NEW n \in Nat
    PROVE  \E g : IsNesting(g, msgs, n)
<1> DEFINE Bad == {k \in Nat : ~(\E g : IsNesting(g, msgs, k))}
<1> SUFFICES ASSUME Bad # {} PROVE FALSE
  OBVIOUS
<1>1. PICK i \in Bad : \A k \in Bad : i <= k
  <2>1. Bad \subseteq Nat
    OBVIOUS
  <2> HIDE DEF Bad
  <2> QED
    BY <2>1, LeastNumber
<1>2. CASE i = 0
  <2>1. IsNesting([k \in 0..0 |-> ToSet(msgs)], msgs, 0)
    BY DEF IsNesting
  <2> QED
    BY <1>2, <2>1
<1>3. CASE i # 0
  <2>1. i - 1 \in Nat /\ ~(i <= i - 1)
    BY <1>3
  <2>2. PICK h : IsNesting(h, msgs, i - 1)
    BY <1>1, <2>1
  <2> DEFINE g == [k \in 0..i |-> IF k = i THEN InnerOf(h[i - 1]) ELSE h[k]]
             e == [k \in 0..i |-> IF k = 0 THEN ToSet(msgs) ELSE InnerOf(g[k - 1])]
  <2>3. ASSUME NEW k \in 0..i PROVE g[k] = e[k]
    <3>1. CASE k = i
      <4>1. i - 1 \in 0..i /\ i - 1 # i
        BY <1>3
      <4> QED
        BY <1>3, <3>1, <4>1
    <3>2. CASE k # i
      <4>1. k \in 0..(i - 1)
        BY <3>2
      <4>2. h[k] = IF k = 0 THEN ToSet(msgs) ELSE InnerOf(h[k - 1])
        BY <2>2, <4>1 DEF IsNesting
      <4>3. k # 0 => k - 1 \in 0..i /\ k - 1 # i
        BY <3>2
      <4> QED
        BY <3>2, <4>2, <4>3
    <3> QED
      BY <3>1, <3>2
  <2>4. g = e
    BY <2>3
  <2>5. IsNesting(g, msgs, i)
    BY <2>4 DEF IsNesting
  <2> QED
    BY <2>5
<1> QED
  BY <1>2, <1>3

\* The levels obey their recursion.
LEMMA NestingDef ==
    ASSUME NEW msgs, NEW k \in 0..maxGroupNestedMsgs
    PROVE  NestedIn(msgs)[k] =
               IF k = 0 THEN ToSet(msgs) ELSE InnerOf(NestedIn(msgs)[k - 1])
<1>1. NestedIn(msgs) = CHOOSE g : IsNesting(g, msgs, maxGroupNestedMsgs)
  BY Zenon DEF NestedIn, IsNesting, InnerOf
<1>2. maxGroupNestedMsgs \in Nat
  BY GateAssumption
<1>3. IsNesting(NestedIn(msgs), msgs, maxGroupNestedMsgs)
  BY <1>1, <1>2, NestingExists
<1> QED
  BY <1>3 DEF IsNesting

\* Level k of a safe sequence of messages passes checkMsg at depth k + 2; from
\* the depth on at which it gives up there is nothing left.
LevelSafe(msgs, k) ==
    IF k + 2 <= maxGroupNestedMsgs THEN NestedIn(msgs)[k] \subseteq AcceptedAt(k + 2)
    ELSE NestedIn(msgs)[k] = {}

\* One level further down.
LEMMA NextLevel ==
    ASSUME NEW msgs, NEW k \in Nat, k + 1 <= maxGroupNestedMsgs, LevelSafe(msgs, k)
    PROVE  LevelSafe(msgs, k + 1)
<1>0. maxGroupNestedMsgs \in Nat
  BY GateAssumption
<1>1. NestedIn(msgs)[k + 1] = InnerOf(NestedIn(msgs)[k])
  <2>1. k + 1 \in 0..maxGroupNestedMsgs /\ k + 1 # 0 /\ (k + 1) - 1 = k
    BY <1>0
  <2> QED
    BY <2>1, NestingDef
<1>2. CASE k + 2 <= maxGroupNestedMsgs
  <2>1. NestedIn(msgs)[k] \subseteq AcceptedAt(k + 2) /\ k + 2 \in 1..maxGroupNestedMsgs
    BY <1>0, <1>2 DEF LevelSafe
  <2>2. CASE (k + 1) + 2 <= maxGroupNestedMsgs
    <3>1. ASSUME NEW msg \in NestedIn(msgs)[k] PROVE ToSet(msg.inner) \subseteq AcceptedAt((k + 1) + 2)
      <4>1. msg.inner \in Seq(AcceptedAt((k + 2) + 1))
        BY <2>1, AcceptedMsg
      <4>2. (k + 2) + 1 = (k + 1) + 2
        OBVIOUS
      <4> QED
        BY <4>1, <4>2 DEF ToSet
    <3>2. InnerOf(NestedIn(msgs)[k]) \subseteq AcceptedAt((k + 1) + 2)
      BY <3>1 DEF InnerOf
    <3> QED
      BY <1>1, <2>2, <3>2 DEF LevelSafe
  <2>3. CASE ~((k + 1) + 2 <= maxGroupNestedMsgs)
    <3>1. k + 2 = maxGroupNestedMsgs
      BY <1>0, <1>2, <2>3
    <3>2. NestedIn(msgs)[k] = {}
      BY <2>1, <3>1, NothingAtLimit
    <3>3. InnerOf(NestedIn(msgs)[k]) = {}
      BY <3>2 DEF InnerOf
    <3> QED
      BY <1>1, <2>3, <3>3 DEF LevelSafe
  <2> QED
    BY <2>2, <2>3
<1>3. CASE ~(k + 2 <= maxGroupNestedMsgs)
  <2>1. NestedIn(msgs)[k] = {}
    BY <1>3 DEF LevelSafe
  <2>2. InnerOf(NestedIn(msgs)[k]) = {}
    BY <2>1 DEF InnerOf
  <2>3. ~((k + 1) + 2 <= maxGroupNestedMsgs)
    BY <1>0, <1>3
  <2> QED
    BY <1>1, <2>2, <2>3 DEF LevelSafe
<1> QED
  BY <1>2, <1>3

\* All levels of a safe sequence of messages.
LEMMA LevelsSafe ==
    ASSUME NEW msgs \in Seq(SafeMsgs)
    PROVE  \A k \in 0..maxGroupNestedMsgs : LevelSafe(msgs, k)
<1> DEFINE Bad == {k \in 0..maxGroupNestedMsgs : ~LevelSafe(msgs, k)}
<1>0. maxGroupNestedMsgs \in Nat \ {0, 1}
  BY GateAssumption
<1> SUFFICES ASSUME Bad # {} PROVE FALSE
  OBVIOUS
<1>1. PICK k \in Bad : \A j \in Bad : k <= j
  <2>1. Bad \subseteq Nat
    BY <1>0
  <2> HIDE DEF Bad
  <2> QED
    BY <2>1, LeastNumber
<1>2. k # 0
  <2>1. NestedIn(msgs)[0] = ToSet(msgs)
    BY <1>0, NestingDef
  <2>2. ToSet(msgs) \subseteq AcceptedAt(2)
    BY DEF ToSet, SafeMsgs
  <2>3. 0 + 2 = 2 /\ 2 <= maxGroupNestedMsgs
    BY <1>0
  <2>4. LevelSafe(msgs, 0)
    BY <2>1, <2>2, <2>3 DEF LevelSafe
  <2> QED
    BY <2>4
<1>3. /\ k - 1 \in 0..maxGroupNestedMsgs /\ k - 1 \in Nat /\ ~(k <= k - 1)
      /\ (k - 1) + 1 = k /\ k <= maxGroupNestedMsgs
  BY <1>0, <1>2
<1>4. LevelSafe(msgs, k - 1)
  BY <1>1, <1>3
<1>5. LevelSafe(msgs, (k - 1) + 1)
  BY <1>3, <1>4, NextLevel
<1> QED
  BY <1>3, <1>5

\* A stored proposal is clean at every level and ends before the depth at
\* which checkMsg gives up.
THEOREM GateProposalsClean == Spec => []StoredProposalsClean
<1>0. maxGroupNestedMsgs \in Nat \ {0, 1}
  BY GateAssumption
<1>1. ASSUME GateInv PROVE StoredProposalsClean
  <2>1. store.proposal \in Seq(SafeMsgs)
    BY <1>1 DEF GateInv, Stores
  <2>2. \A k \in 0..maxGroupNestedMsgs : LevelSafe(store.proposal, k)
    BY <2>1, LevelsSafe
  <2>3. ASSUME NEW k \in 0..maxGroupNestedMsgs, NEW msg \in NestedIn(store.proposal)[k]
        PROVE  ~isDisabled(msg.type) /\ msg.decodes
    <3>1. k + 2 <= maxGroupNestedMsgs /\ msg \in AcceptedAt(k + 2)
      BY <2>2, <2>3 DEF LevelSafe
    <3>2. k + 2 \in 1..maxGroupNestedMsgs
      BY <1>0, <3>1
    <3> QED
      BY <3>1, <3>2, AcceptedMsg
  <2>4. NestedIn(store.proposal)[maxGroupNestedMsgs - 2] = {}
    <3>1. /\ maxGroupNestedMsgs - 2 \in 0..maxGroupNestedMsgs
          /\ (maxGroupNestedMsgs - 2) + 2 = maxGroupNestedMsgs
      BY <1>0
    <3>2. LevelSafe(store.proposal, maxGroupNestedMsgs - 2)
      BY <2>2, <3>1
    <3>3. NestedIn(store.proposal)[maxGroupNestedMsgs - 2] \subseteq AcceptedAt(maxGroupNestedMsgs)
      BY <1>0, <3>1, <3>2 DEF LevelSafe
    <3> QED
      BY <3>3, NothingAtLimit
  <2> QED
    BY <2>3, <2>4 DEF StoredProposalsClean
<1>2. GateInv => StoredProposalsClean
  BY <1>1
<1> QED
  BY <1>2, GateInvariant, PTL
=============================================================================
