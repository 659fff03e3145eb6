------------------------------- MODULE MsgGate -------------------------------
(***************************************************************************)
(* The ways a message reaches its handler: as a message of a transaction,  *)
(* which the group limiter of app/ante.go and the EVM ante handler have    *)
(* inspected, or from inside another message.  x/authz runs the messages   *)
(* of a MsgExec at once, x/group stores those of a proposal and runs them  *)
(* later, and neither asks the ante handler again.                         *)
(*                                                                         *)
(* Two more modules run inner messages through the MsgServiceRouter and    *)
(* are out of scope: x/gov, whose voters decide on them, and the ICA host  *)
(* of app/ibc.go, whose packets checkMsg never sees; what it may run is    *)
(* its own allow list, a parameter.  The properties are about transactions *)
(* and what x/authz and x/group do for them.                               *)
(*                                                                         *)
(* A message is its type, the messages inside it, the type a MsgGrant      *)
(* authorises, and whether its payload can be unpacked.                    *)
(***************************************************************************)
EXTENDS Naturals, SequencesExt

CONSTANTS
    disabledMsgTypes,    \* types the limiter keeps out of containers
    maxGroupNestedMsgs,  \* depth at which the limiter gives up (7 in the code)
    Msgs,                \* messages
    Txs                  \* transactions: sequences of messages

Containers == {"authz.MsgExec", "group.MsgSubmitProposal"}

GroupTypes == {"group.MsgSubmitProposal", "group.MsgExec"}

\* The limiter looks into containers and grants, never at their own types.
ASSUME GateAssumption ==
    /\ maxGroupNestedMsgs \in Nat \ {0, 1}
    /\ disabledMsgTypes \cap (Containers \cup {"authz.MsgGrant"}) = {}
    /\ \A msg \in Msgs :
          /\ msg.inner \in Seq(Msgs)
          /\ msg.type \notin Containers => msg.inner = << >>
          /\ msg.type \notin Containers \cup {"authz.MsgGrant"} => msg.decodes
    /\ Txs \subseteq Seq(Msgs)

VARIABLES
    store,      \* stored by x/group and x/authz: the messages of the group
                \* proposal, <<>> if there is none, and the authorised types
    work,       \* the same as the running transaction has left it so far
    stack,      \* what runs: a transaction, on it the proposals it executes
    disabled    \* the circuit breaker's list

vars == <<store, work, stack, disabled>>

-----------------------------------------------------------------------------
(***************************************************************************)
(* groupLimiterDecorator.                                                  *)
(***************************************************************************)
isDisabled(type) == type \in disabledMsgTypes

\* Bugs: of the payload of a container only the types are looked at; the type
\* a MsgGrant authorises is not looked at.
Acceptable_shallow(msg, isInsideContainer, accepted) ==
    /\ msg.decodes
    /\ msg.type = "authz.MsgGrant" => ~isDisabled(msg.grants)
    /\ isInsideContainer => ~isDisabled(msg.type)
    /\ \A k \in DOMAIN msg.inner : ~isDisabled(msg.inner[k].type)
Acceptable_anyGrant(msg, isInsideContainer, accepted) ==
    IF msg.type \in Containers
    THEN msg.decodes /\ \A k \in DOMAIN msg.inner : accepted[msg.inner[k]]
    ELSE isInsideContainer => ~isDisabled(msg.type)

\* The switch of checkMsg; accepted says which messages pass one level deeper.
Acceptable(msg, isInsideContainer, accepted) ==
    CASE msg.type \in Containers ->
             msg.decodes /\ \A k \in DOMAIN msg.inner : accepted[msg.inner[k]]
      [] msg.type = "authz.MsgGrant" -> msg.decodes /\ ~isDisabled(msg.grants)
      [] OTHER -> isInsideContainer => ~isDisabled(msg.type)

\* checkMsg inside a container returns no error, for each depth.
acceptedInside[depth \in 1..maxGroupNestedMsgs] ==
    [msg \in Msgs |-> /\ depth < maxGroupNestedMsgs
                      /\ Acceptable(msg, TRUE, acceptedInside[depth + 1])]

\* A bug: what nests too deep passes.
deepPasses[depth \in 1..maxGroupNestedMsgs] ==
    [msg \in Msgs |-> depth < maxGroupNestedMsgs => Acceptable(msg, TRUE, deepPasses[depth + 1])]
checkMsg_tooDeepPasses(msg, isInsideContainer, depth) ==
    depth < maxGroupNestedMsgs => Acceptable(msg, isInsideContainer, deepPasses[depth + 1])

\* checkMsg returns no error.
checkMsg(msg, isInsideContainer, depth) ==
    /\ depth < maxGroupNestedMsgs
    /\ Acceptable(msg, isInsideContainer, acceptedInside[depth + 1])

\* The EVM ante handler behind it: Ethereum transactions stand alone.
evmAnteHandler(tx) ==
    \/ \A k \in DOMAIN tx : tx[k].type = "vm.MsgEthereumTx"
    \/ \A k \in DOMAIN tx : tx[k].type # "vm.MsgEthereumTx"

AnteHandle(tx) ==
    /\ \A k \in DOMAIN tx : checkMsg(tx[k], FALSE, 1)
    /\ evmAnteHandler(tx)

-----------------------------------------------------------------------------
(***************************************************************************)
(* Running messages.  What runs as a unit is the messages still to run,    *)
(* each with whether it comes from inside another, and the state that is   *)
(* restored when one of them fails.                                        *)
(***************************************************************************)
Unit(msgs, isInside, undo) ==
    [todo |-> [k \in DOMAIN msgs |-> [msg |-> msgs[k], inside |-> isInside]], undo |-> undo]

top == stack[1]
current == top.todo[1].msg

\* The transaction works on a copy of the state.
DeliverTx(tx) ==
    /\ stack = << >> /\ AnteHandle(tx)
    /\ stack' = <<Unit(tx, FALSE, store)>>
    /\ work' = store
    /\ UNCHANGED <<store, disabled>>

\* The router asks the circuit breaker before every handler.
Enters ==
    /\ stack # << >> /\ top.todo # << >>
    /\ current.type \notin disabled /\ current.decodes
    /\ UNCHANGED <<store, disabled>>

\* The message is done; msgs come before those that follow it.
Continue(msgs) ==
    [stack EXCEPT ![1].todo = Unit(msgs, TRUE, work).todo \o Tail(@)]

\* x/authz runs the messages in place of the MsgExec: one error fails all.
RunExec ==
    /\ Enters /\ current.type = "authz.MsgExec"
    /\ stack' = Continue(current.inner)
    /\ UNCHANGED work

RunGrant ==
    /\ Enters /\ current.type = "authz.MsgGrant"
    /\ work' = [work EXCEPT !.grants = @ \cup {current.grants}]
    /\ stack' = Continue(<< >>)

RunSubmitProposal ==
    /\ Enters /\ current.type = "group.MsgSubmitProposal"
    /\ work' = [work EXCEPT !.proposal = current.inner]
    /\ stack' = Continue(<< >>)

\* x/group runs the stored messages: an error undoes only what they did.
RunProposal ==
    /\ Enters /\ current.type = "group.MsgExec"
    /\ work' = [work EXCEPT !.proposal = << >>]
    /\ stack' = <<Unit(work.proposal, TRUE, work)>> \o Continue(<< >>)

RunOther ==
    /\ Enters
    /\ current.type \notin Containers \cup {"authz.MsgGrant", "group.MsgExec"}
    /\ stack' = Continue(<< >>)
    /\ UNCHANGED work

\* A message fails: refused, not readable, or for reasons of its own.
MessageFails ==
    /\ stack # << >> /\ top.todo # << >>
    /\ work' = top.undo
    /\ stack' = Tail(stack)
    /\ UNCHANGED <<store, disabled>>

\* Without gas the transaction fails as a whole.
OutOfGas ==
    /\ stack # << >>
    /\ work' = store
    /\ stack' = << >>
    /\ UNCHANGED <<store, disabled>>

\* All messages have run; the state of a transaction is committed.
Finish ==
    /\ stack # << >> /\ top.todo = << >>
    /\ store' = IF Len(stack) = 1 THEN work ELSE store
    /\ stack' = Tail(stack)
    /\ UNCHANGED <<work, disabled>>

\* The upgrade handler disables x/group.
DisableGroup ==
    /\ stack = << >>
    /\ disabled' = disabled \cup GroupTypes
    /\ UNCHANGED <<store, work, stack>>

\* An account with the permission enables a type again.
ResetCircuitBreaker(type) ==
    /\ stack = << >> /\ type \in disabled
    /\ disabled' = disabled \ {type}
    /\ UNCHANGED <<store, work, stack>>

Init ==
    /\ store = [proposal |-> << >>, grants |-> {}]
    /\ work = store
    /\ stack = << >>
    /\ disabled \in {{}, GroupTypes}

Next ==
    \/ \E tx \in Txs : DeliverTx(tx)
    \/ RunExec \/ RunGrant \/ RunSubmitProposal \/ RunProposal \/ RunOther
    \/ MessageFails \/ OutOfGas \/ Finish
    \/ DisableGroup
    \/ \E type \in GroupTypes : ResetCircuitBreaker(type)

Spec == Init /\ [][Next]_vars

-----------------------------------------------------------------------------
\* A disabled message type never runs from inside another message, where no
\* ante handler would see it: not at any depth, not through a proposal that
\* submits a proposal, not when the circuit breaker is reset in between.
DisabledNeverNested ==
    stack # << >> /\ top.todo # << >> =>
        (top.todo[1].inside => ~isDisabled(current.type))

\* No authorisation to run a disabled type on someone's behalf is stored.
NoDisabledGrant == \A type \in store.grants : ~isDisabled(type)

\* The messages k levels inside the given ones.
NestedIn(msgs) ==
    LET level[k \in 0..maxGroupNestedMsgs] ==
            IF k = 0 THEN ToSet(msgs) ELSE UNION {ToSet(msg.inner) : msg \in level[k - 1]}
    IN  level

\* A stored group proposal holds no disabled type and no payload that cannot
\* be unpacked, however deep, whether a transaction or another proposal has
\* submitted it; and it is not as deep as checkMsg gives up.
StoredProposalsClean ==
    /\ \A k \in 0..maxGroupNestedMsgs : \A msg \in NestedIn(store.proposal)[k] :
          ~isDisabled(msg.type) /\ msg.decodes
    /\ NestedIn(store.proposal)[maxGroupNestedMsgs - 2] = {}

=============================================================================
