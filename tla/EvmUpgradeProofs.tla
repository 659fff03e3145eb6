-------------------------- MODULE EvmUpgradeProofs --------------------------
(***************************************************************************)
(* Safety of the evm-upgrade, for any nodes, message types and heights.    *)
(***************************************************************************)
EXTENDS EvmUpgrade, TLAPS

\* What the handler writes is missing from a state, or is there in full.
Untouched(s) ==
    /\ s.metadata = {} /\ s.genesis = [m \in NewModules |-> "none"]
    /\ s.price = "none" /\ s.versions = {} /\ s.disabled = {} /\ s.panic = FALSE

Upgraded(s) ==
    /\ s.metadata = {"uGNOD"}
    /\ s.genesis = [m \in NewModules |->
                       IF m \in {"vm", "feemarket"} THEN "gnodi" ELSE "default"]
    /\ s.price = "zero" /\ s.versions = NewModules /\ s.panic = FALSE

\* The circuit breaker's list after the upgrade.
Breaker(lifted) == IF lifted THEN {} ELSE groupMsgTypeURLs

\* The state of a node at its height, the new stores excepted; lifted says
\* that the circuit breaker has been reset since the upgrade.
RightState(skipped, s, lifted) ==
    /\ s \in State
    /\ IF skipped \/ s.height < UpgradeHeight
       THEN /\ Untouched(s)
            /\ s.plan = IF s.height < UpgradeHeight THEN "pending" ELSE "skipped"
       ELSE Upgraded(s) /\ s.plan = "done" /\ s.disabled = Breaker(lifted)

Shapes ==
    /\ blocks \in Seq(Msgs)
    /\ skip \in BOOLEAN
    /\ DOMAIN committed = Nodes /\ DOMAIN working = Nodes
    /\ binary \in [Nodes -> {"none", "old", "new"}]
    /\ busy \in [Nodes -> BOOLEAN]

CommittedInv(n) ==
    /\ RightState(skip, committed[n], BreakerReset(blocks, committed[n].height))
    /\ committed[n].height <= Len(blocks)
    /\ committed[n].stores = (~skip /\ committed[n].height >= UpgradeHeight)

\* A node inside a block runs the binary that belongs to it, on the state of
\* that height; the stores are added, and the message is run, with the commit.
WorkingInv(n) == busy[n] =>
    /\ RightState(skip, working[n], BreakerReset(blocks, committed[n].height))
    /\ working[n].height = committed[n].height + 1
    /\ working[n].height <= Len(blocks)
    /\ working[n].executed = committed[n].executed
    /\ working[n].stores = committed[n].stores
    /\ binary[n] # "none"
    /\ binary[n] = "new" <=> ~skip /\ working[n].height >= UpgradeHeight

\* The new binary cannot be started any more once the upgrade is skipped.
BinaryInv(n) == binary[n] = "new" => ~skip

NodeInv(n) == CommittedInv(n) /\ WorkingInv(n) /\ BinaryInv(n)

IInv == Shapes /\ \A n \in Nodes : NodeInv(n)

-----------------------------------------------------------------------------
(***************************************************************************)
(* The upgrade handler.                                                    *)
(***************************************************************************)

\* A state is the record of its fields.
LEMMA StateRecord ==
    ASSUME NEW s \in State, NEW t \in State,
           s.height = t.height, s.stores = t.stores, s.plan = t.plan,
           s.metadata = t.metadata, s.genesis = t.genesis, s.price = t.price,
           s.versions = t.versions, s.disabled = t.disabled, s.executed = t.executed,
           s.panic = t.panic
    PROVE  s = t
  BY DEF State

\* The fields the upgrade steps set, one at a time.
LEMMA SetGenesis ==
    ASSUME NEW s \in State, NEW g \in [NewModules -> Geneses]
    PROVE  LET t == [s EXCEPT !.genesis = g]
           IN  /\ t \in State /\ t.genesis = g
               /\ t.height = s.height /\ t.stores = s.stores /\ t.plan = s.plan
               /\ t.metadata = s.metadata /\ t.price = s.price /\ t.versions = s.versions
               /\ t.disabled = s.disabled /\ t.executed = s.executed /\ t.panic = s.panic
  BY DEF State

\* Writing the fee market's minimum gas price changes nothing else.
LEMMA SetPrice ==
    ASSUME NEW s \in State, NEW p \in {"none", "zero", "default"}
    PROVE  LET t == [s EXCEPT !.price = p]
           IN  /\ t \in State /\ t.price = p
               /\ t.height = s.height /\ t.stores = s.stores /\ t.plan = s.plan
               /\ t.metadata = s.metadata /\ t.genesis = s.genesis /\ t.versions = s.versions
               /\ t.disabled = s.disabled /\ t.executed = s.executed /\ t.panic = s.panic
  BY DEF State

\* Writing the module version map changes nothing else.
LEMMA SetVersions ==
    ASSUME NEW s \in State, NEW v \in SUBSET NewModules
    PROVE  LET t == [s EXCEPT !.versions = v]
           IN  /\ t \in State /\ t.versions = v
               /\ t.height = s.height /\ t.stores = s.stores /\ t.plan = s.plan
               /\ t.metadata = s.metadata /\ t.genesis = s.genesis /\ t.price = s.price
               /\ t.disabled = s.disabled /\ t.executed = s.executed /\ t.panic = s.panic
  BY DEF State

\* A panic changes nothing else.
LEMMA SetPanic ==
    ASSUME NEW s \in State, NEW p \in BOOLEAN
    PROVE  LET t == [s EXCEPT !.panic = p]
           IN  /\ t \in State /\ t.panic = p
               /\ t.height = s.height /\ t.stores = s.stores /\ t.plan = s.plan
               /\ t.metadata = s.metadata /\ t.genesis = s.genesis /\ t.versions = s.versions
               /\ t.disabled = s.disabled /\ t.executed = s.executed /\ t.price = s.price
  BY DEF State

\* Gnodi's genesis of a module; there is no panic once the bank knows uGNOD.
LEMMA InitGenesisEffect ==
    ASSUME NEW s \in State, NEW m \in NewModules, "uGNOD" \in s.metadata, s.panic = FALSE
    PROVE  LET t == InitGenesis(s, m, "gnodi")
           IN  /\ t \in State /\ t.panic = FALSE
               /\ t.genesis = [s.genesis EXCEPT ![m] = "gnodi"]
               /\ t.height = s.height /\ t.stores = s.stores /\ t.plan = s.plan
               /\ t.metadata = s.metadata /\ t.versions = s.versions
               /\ t.disabled = s.disabled /\ t.executed = s.executed
<1> DEFINE g == [s.genesis EXCEPT ![m] = "gnodi"]
           p == IF m # "feemarket" THEN s.price ELSE "zero"
           a == [s EXCEPT !.genesis = g]
           b == [a EXCEPT !.price = p]
           c == [b EXCEPT !.panic = FALSE]
<1>1. g \in [NewModules -> Geneses] /\ p \in {"none", "zero", "default"}
  BY DEF State, Geneses
<1>2. InitGenesis(s, m, "gnodi") = c
  <2>1. (s.panic \/ (m = "vm" /\ EvmDenom("gnodi") \notin s.metadata)) = FALSE
    BY DEF EvmDenom
  <2> QED
    BY <2>1 DEF InitGenesis
<1> HIDE DEF g, p
<1> DEFINE Same(t) ==
        /\ t.height = s.height /\ t.stores = s.stores /\ t.plan = s.plan
        /\ t.metadata = s.metadata /\ t.versions = s.versions
        /\ t.disabled = s.disabled /\ t.executed = s.executed
<1>3. a \in State /\ a.genesis = g /\ Same(a)
  BY <1>1, SetGenesis
<1> HIDE DEF a
<1>4. b \in State /\ b.genesis = g /\ Same(b)
  BY <1>1, <1>3, SetPrice, ZenonT(90)
<1> HIDE DEF b
<1>5. c \in State /\ c.genesis = g /\ Same(c) /\ c.panic = FALSE
  BY <1>1, <1>4, SetPanic
<1> HIDE DEF c
<1> QED
  BY <1>2, <1>5 DEF g

\* The handler turns a state without a trace of the upgrade into one that
\* has it in full, and does not panic: its steps come in the right order.
LEMMA HandlerEffect ==
    ASSUME NEW s \in State, Untouched(s)
    PROVE  LET u == upgradeHandler(s)
           IN  /\ u \in State /\ Upgraded(u) /\ u.disabled = groupMsgTypeURLs
               /\ u.height = s.height /\ u.stores = s.stores /\ u.executed = s.executed
<1> DEFINE Same(u) == u.height = s.height /\ u.stores = s.stores /\ u.executed = s.executed
                      /\ u.plan = s.plan /\ u.panic = FALSE
           a == SetDenomMetaData(s)
           b == InitGenesis(a, "vm", "gnodi")
           c == InitGenesis(b, "feemarket", "gnodi")
           d == SetMinGasPrice(c)
           e == disableGroup(d)
           f == RunMigrations(e, {"vm", "feemarket"})
<1>1. /\ a \in State /\ Same(a) /\ a.metadata = {"uGNOD"} /\ a.disabled = {}
      /\ a.genesis = [m \in NewModules |-> "none"]
  BY DEF SetDenomMetaData, State, Untouched
<1> HIDE DEF a
<1>2. /\ b \in State /\ Same(b) /\ b.metadata = {"uGNOD"} /\ b.disabled = {}
      /\ b.genesis = [m \in NewModules |-> IF m = "vm" THEN "gnodi" ELSE "none"]
  <2>1. "vm" \in NewModules /\ "uGNOD" \in a.metadata /\ a.panic = FALSE
    BY <1>1 DEF NewModules
  <2>2. [a.genesis EXCEPT !["vm"] = "gnodi"]
            = [m \in NewModules |-> IF m = "vm" THEN "gnodi" ELSE "none"]
    BY <1>1
  <2>3. /\ b \in State /\ b.panic = FALSE
        /\ b.genesis = [a.genesis EXCEPT !["vm"] = "gnodi"]
        /\ b.height = a.height /\ b.stores = a.stores /\ b.plan = a.plan
        /\ b.metadata = a.metadata /\ b.disabled = a.disabled
        /\ b.executed = a.executed
    <3>1. a \in State
      BY <1>1
    <3> QED
      BY <3>1, <2>1, InitGenesisEffect
  <2> HIDE DEF b
  <2> QED
    BY <1>1, <2>2, <2>3
<1> HIDE DEF b
<1>3. /\ c \in State /\ Same(c) /\ c.metadata = {"uGNOD"} /\ c.disabled = {}
      /\ c.genesis = [m \in NewModules |-> IF m \in {"vm", "feemarket"} THEN "gnodi" ELSE "none"]
  <2>1. "feemarket" \in NewModules /\ "uGNOD" \in b.metadata /\ b.panic = FALSE
    BY <1>2 DEF NewModules
  <2>2. [b.genesis EXCEPT !["feemarket"] = "gnodi"]
            = [m \in NewModules |-> IF m \in {"vm", "feemarket"} THEN "gnodi" ELSE "none"]
    BY <1>2
  <2>3. /\ c \in State /\ c.panic = FALSE
        /\ c.genesis = [b.genesis EXCEPT !["feemarket"] = "gnodi"]
        /\ c.height = b.height /\ c.stores = b.stores /\ c.plan = b.plan
        /\ c.metadata = b.metadata /\ c.disabled = b.disabled
        /\ c.executed = b.executed
    <3>1. b \in State
      BY <1>2
    <3> QED
      BY <3>1, <2>1, InitGenesisEffect
  <2> HIDE DEF c
  <2> QED
    BY <1>2, <2>2, <2>3
<1> HIDE DEF c
<1>4. /\ d \in State /\ Same(d) /\ d.metadata = {"uGNOD"} /\ d.disabled = {}
      /\ d.price = "zero" /\ d.genesis = c.genesis
  BY <1>3 DEF SetMinGasPrice, State
<1> HIDE DEF d
<1>5. /\ e \in State /\ Same(e) /\ e.metadata = {"uGNOD"} /\ e.disabled = groupMsgTypeURLs
      /\ e.price = "zero" /\ e.genesis = c.genesis
  BY <1>4 DEF disableGroup, State
<1> HIDE DEF e
<1>6. f \in State /\ Same(f) /\ Upgraded(f) /\ f.disabled = groupMsgTypeURLs
  <2> DEFINE full == [m \in NewModules |->
                         IF m \in {"vm", "feemarket"} THEN "gnodi" ELSE "default"]
             p == [e EXCEPT !.genesis = full]
             q == [p EXCEPT !.price = "zero"]
             r == [q EXCEPT !.versions = NewModules]
             t == [r EXCEPT !.panic = FALSE]
  <2>1. full \in [NewModules -> Geneses]
    BY DEF Geneses
  <2>2. f = t
    <3>1. full = [m \in NewModules |->
                     IF m \in {"vm", "feemarket"} THEN e.genesis[m] ELSE "default"]
      BY <1>3, <1>5
    <3>2. (e.panic \/ ("vm" \notin {"vm", "feemarket"} /\ "aatom" \notin e.metadata)) = FALSE
      BY <1>5
    <3>3. (IF "feemarket" \in {"vm", "feemarket"} THEN e.price ELSE "default") = "zero"
      BY <1>5
    <3> HIDE DEF full
    <3> QED
      BY <3>1, <3>2, <3>3 DEF RunMigrations
  <2> HIDE DEF full, f
  <2>3. /\ p \in State /\ Same(p) /\ p.metadata = {"uGNOD"} /\ p.disabled = groupMsgTypeURLs
        /\ p.genesis = full
    BY <1>5, <2>1, SetGenesis
  <2> HIDE DEF p
  <2>4. /\ q \in State /\ Same(q) /\ q.metadata = {"uGNOD"} /\ q.disabled = groupMsgTypeURLs
        /\ q.genesis = full /\ q.price = "zero"
    BY <2>3, SetPrice
  <2> HIDE DEF q
  <2>5. /\ r \in State /\ Same(r) /\ r.metadata = {"uGNOD"} /\ r.disabled = groupMsgTypeURLs
        /\ r.genesis = full /\ r.price = "zero" /\ r.versions = NewModules
    BY <2>4, SetVersions
  <2> HIDE DEF r
  <2>6. /\ t \in State /\ Same(t) /\ t.metadata = {"uGNOD"} /\ t.disabled = groupMsgTypeURLs
        /\ t.genesis = full /\ t.price = "zero" /\ t.versions = NewModules
    BY <2>5, SetPanic
  <2> HIDE DEF t
  <2> QED
    BY <2>2, <2>6 DEF full, Upgraded
<1>7. upgradeHandler(s) = f
  <2>1. s.versions \cup {"vm", "feemarket"} = {"vm", "feemarket"}
    BY DEF Untouched
  <2> QED
    BY <2>1 DEF upgradeHandler, a, b, c, d, e
<1> HIDE DEF f
<1> QED
  BY <1>6, <1>7


\* The invariant says what UpgradedByHeight says.
LEMMA InvUpgraded == IInv => UpgradedByHeight
<1> SUFFICES ASSUME IInv, NEW n \in Nodes
             PROVE  LET c == committed[n]
                        fresh == [Genesis EXCEPT !.height = c.height, !.executed = c.executed]
                    IN  IF skip \/ c.height < UpgradeHeight
                        THEN c = [fresh EXCEPT !.plan =
                                      IF c.height < UpgradeHeight THEN "pending" ELSE "skipped"]
                        ELSE c = [fresh EXCEPT !.stores = TRUE, !.plan = "done",
                                      !.metadata = {"uGNOD"},
                                      !.genesis = [m \in NewModules |->
                                          IF m \in {"vm", "feemarket"} THEN "gnodi" ELSE "default"],
                                      !.price = "zero", !.versions = NewModules,
                                      !.disabled = Breaker(BreakerReset(blocks, c.height))]
  BY DEF UpgradedByHeight, Breaker
<1> DEFINE c == committed[n]
           full == [m \in NewModules |->
                       IF m \in {"vm", "feemarket"} THEN "gnodi" ELSE "default"]
           none == [m \in NewModules |-> "none"]
           off == Breaker(BreakerReset(blocks, c.height))
<1>1. /\ RightState(skip, c, BreakerReset(blocks, c.height))
      /\ c.stores = (~skip /\ c.height >= UpgradeHeight)
      /\ c.height \in Nat /\ skip \in BOOLEAN
  BY DEF IInv, NodeInv, CommittedInv, RightState, Shapes, State
<1> HIDE DEF c
<1> DEFINE Has(t, h, st, pl, md, g, pr, v, d, ex) ==
               /\ t \in State /\ t.height = h /\ t.stores = st /\ t.plan = pl
               /\ t.metadata = md /\ t.genesis = g /\ t.price = pr /\ t.versions = v
               /\ t.disabled = d /\ t.executed = ex /\ t.panic = FALSE
           h == c.height
           ex == c.executed
<1>2. h \in Nat /\ ex \in SUBSET groupMsgTypeURLs /\ none \in [NewModules -> Geneses]
      /\ full \in [NewModules -> Geneses] /\ off \in SUBSET groupMsgTypeURLs
  BY <1>1 DEF RightState, State, Geneses, Breaker
<1> DEFINE a == [Genesis EXCEPT !.height = h]
           fresh == [a EXCEPT !.executed = ex]
<1>3. Has(Genesis, 0, FALSE, "pending", {}, none, "none", {}, {}, {})
  BY <1>2 DEF Genesis, State
<1>4. [Genesis EXCEPT !.height = h, !.executed = ex] = fresh
  OBVIOUS
<1> HIDE DEF none, full, h, ex, off
<1>5. Has(a, h, FALSE, "pending", {}, none, "none", {}, {}, {})
  BY <1>2, <1>3 DEF State
<1> HIDE DEF a
<1>6. Has(fresh, h, FALSE, "pending", {}, none, "none", {}, {}, ex)
  BY <1>2, <1>5 DEF State
<1> HIDE DEF fresh
<1>7. CASE skip \/ h < UpgradeHeight
  <2> DEFINE pl == IF h < UpgradeHeight THEN "pending" ELSE "skipped"
             t == [fresh EXCEPT !.plan = pl]
  <2>1. pl \in {"pending", "skipped"}
    OBVIOUS
  <2>2. Has(c, h, FALSE, pl, {}, none, "none", {}, {}, ex)
    <3>1. ~(~skip /\ c.height >= UpgradeHeight)
      BY <1>1, <1>7, UpgradeAssumption DEF h
    <3>2. c.stores = FALSE
      BY <1>1, <3>1, Zenon
    <3> HIDE DEF pl
    <3>3. c \in State /\ Untouched(c) /\ c.plan = pl
      BY <1>1, <1>7, Zenon DEF RightState, h, pl
    <3> QED
      BY <3>2, <3>3 DEF Untouched, none, h, ex
  <2> HIDE DEF pl
  <2>3. Has(t, h, FALSE, pl, {}, none, "none", {}, {}, ex)
    BY <1>6, <2>1 DEF State
  <2> HIDE DEF t
  <2>4. c = t
    BY <2>2, <2>3, StateRecord
  <2> QED
    BY <1>4, <1>7, <2>4 DEF t, pl, h, ex, c
<1>8. CASE ~(skip \/ h < UpgradeHeight)
  <2> DEFINE t1 == [fresh EXCEPT !.stores = TRUE]
             t2 == [t1 EXCEPT !.plan = "done"]
             t3 == [t2 EXCEPT !.metadata = {"uGNOD"}]
             t4 == [t3 EXCEPT !.genesis = full]
             t5 == [t4 EXCEPT !.price = "zero"]
             t6 == [t5 EXCEPT !.versions = NewModules]
             t  == [t6 EXCEPT !.disabled = off]
  <2>1. Has(c, h, TRUE, "done", {"uGNOD"}, full, "zero", NewModules, off, ex)
    <3>1. ~skip /\ c.height >= UpgradeHeight
      BY <1>1, <1>8, UpgradeAssumption DEF h
    <3>2. c.stores = TRUE
      BY <1>1, <3>1, Zenon
    <3>3. c \in State /\ Upgraded(c) /\ c.plan = "done" /\ c.disabled = off
      BY <1>1, <1>8, Zenon DEF RightState, h, off
    <3> QED
      BY <3>2, <3>3 DEF Upgraded, full, h, ex
  <2>2. [fresh EXCEPT !.stores = TRUE, !.plan = "done", !.metadata = {"uGNOD"}, !.genesis = full,
                      !.price = "zero", !.versions = NewModules, !.disabled = off] = t
    OBVIOUS
  <2>3. Has(t1, h, TRUE, "pending", {}, none, "none", {}, {}, ex)
    BY <1>6 DEF State
  <2> HIDE DEF t1
  <2>4. Has(t2, h, TRUE, "done", {}, none, "none", {}, {}, ex)
    BY <2>3 DEF State
  <2> HIDE DEF t2
  <2>5. Has(t3, h, TRUE, "done", {"uGNOD"}, none, "none", {}, {}, ex)
    BY <2>4 DEF State
  <2> HIDE DEF t3
  <2>6. Has(t4, h, TRUE, "done", {"uGNOD"}, full, "none", {}, {}, ex)
    BY <1>2, <2>5 DEF State
  <2> HIDE DEF t4
  <2>7. Has(t5, h, TRUE, "done", {"uGNOD"}, full, "zero", {}, {}, ex)
    BY <2>6 DEF State
  <2> HIDE DEF t5
  <2>8. Has(t6, h, TRUE, "done", {"uGNOD"}, full, "zero", NewModules, {}, ex)
    BY <2>7 DEF State
  <2> HIDE DEF t6
  <2>9. Has(t, h, TRUE, "done", {"uGNOD"}, full, "zero", NewModules, off, ex)
    BY <1>2, <2>8 DEF State
  <2> HIDE DEF t
  <2>10. c = t
    BY <2>1, <2>9, StateRecord
  <2> QED
    BY <1>4, <1>8, <2>2, <2>10 DEF h, ex, c, full, off
<1> QED
  BY <1>7, <1>8 DEF c, h

-----------------------------------------------------------------------------
(***************************************************************************)
(* The steps.                                                              *)
(***************************************************************************)

\* No node has started.
LEMMA InitInv == Init => IInv
<1> SUFFICES ASSUME Init PROVE IInv
  OBVIOUS
<1>1. Genesis \in State /\ Untouched(Genesis)
  BY UpgradeAssumption DEF Genesis, State, Untouched, Geneses
<1>2. Genesis.height = 0 /\ Genesis.plan = "pending" /\ Genesis.stores = FALSE
  BY DEF Genesis
<1>3. /\ \A lifted : RightState(FALSE, Genesis, lifted)
      /\ Genesis.stores = (~FALSE /\ Genesis.height >= UpgradeHeight)
  <2>1. 0 < UpgradeHeight /\ ~(0 >= UpgradeHeight)
    BY UpgradeAssumption
  <2> QED
    BY <1>1, <1>2, <2>1 DEF RightState
<1>4. blocks = << >> /\ blocks \in Seq(Msgs) /\ Len(blocks) = 0
  BY DEF Init
<1>5. ASSUME NEW n \in Nodes PROVE NodeInv(n)
  <2>1. committed[n] = Genesis /\ skip = FALSE /\ ~busy[n] /\ binary[n] = "none"
    BY DEF Init
  <2>2. Genesis.height <= Len(blocks)
    BY <1>2, <1>4
  <2> QED
    BY <1>3, <2>1, <2>2 DEF NodeInv, CommittedInv, WorkingInv, BinaryInv
<1> QED
  BY <1>4, <1>5 DEF Init, IInv, Shapes

\* A node that stops keeps its committed state and is in no block.
LEMMA StopInv ==
    ASSUME IInv, NEW n \in Nodes, Stop(n)
    PROVE  IInv'
  BY DEF IInv, Shapes, NodeInv, CommittedInv, WorkingInv, BinaryInv, Stop

\* A node that enters a block has the right state and runs the right binary.
LEMMA EnterBlockInv ==
    ASSUME IInv, NEW n \in Nodes, NEW s \in State, EnterBlock(n, s), binary[n] # "none",
           s.height = committed[n].height, s.executed = committed[n].executed,
           s.stores = committed[n].stores,
           committed[n].height < Len(blocks),
           RightState(skip, [s EXCEPT !.height = @ + 1], BreakerReset(blocks, committed[n].height)),
           binary[n] = "new" <=> ~skip /\ committed[n].height + 1 >= UpgradeHeight
    PROVE  IInv'
<1> DEFINE t == [s EXCEPT !.height = @ + 1]
<1>1. t.height = s.height + 1 /\ t.executed = s.executed /\ t.stores = s.stores
  BY DEF State
<1>2. /\ working' = [working EXCEPT ![n] = t] /\ busy' = [busy EXCEPT ![n] = TRUE]
      /\ UNCHANGED <<blocks, skip, committed, binary>>
      /\ RightState(skip, t, BreakerReset(blocks, committed[n].height))
  BY DEF EnterBlock
<1>3. t.height <= Len(blocks)
  BY <1>1 DEF IInv, Shapes, State
<1> HIDE DEF t
<1> QED
  BY <1>1, <1>2, <1>3 DEF IInv, Shapes, NodeInv, CommittedInv, WorkingInv, BinaryInv

\* The upgrade is due in its block and in no other: the plan is pending below
\* the height, and nowhere else.
LEMMA DueAtHeight ==
    ASSUME IInv, NEW n \in Nodes
    PROVE  /\ committed[n] \in State /\ committed[n].height \in Nat
           /\ Due(n) <=> committed[n].height + 1 = UpgradeHeight
           /\ committed[n].plan = "pending" <=> committed[n].height < UpgradeHeight
           /\ committed[n].plan = "done" <=> ~skip /\ committed[n].height >= UpgradeHeight
  BY UpgradeAssumption
  DEF IInv, Shapes, NodeInv, CommittedInv, RightState, State, Due, NextHeight

\* The next height does not change what the state has of the upgrade.
LEMMA NextHeightRight ==
    ASSUME NEW s \in State, NEW skipped \in BOOLEAN, NEW lifted,
           IF skipped \/ s.height + 1 < UpgradeHeight
           THEN /\ Untouched(s)
                /\ s.plan = IF s.height + 1 < UpgradeHeight THEN "pending" ELSE "skipped"
           ELSE Upgraded(s) /\ s.plan = "done" /\ s.disabled = Breaker(lifted)
    PROVE  RightState(skipped, [s EXCEPT !.height = @ + 1], lifted)
<1> DEFINE t == [s EXCEPT !.height = @ + 1]
<1>1. /\ t \in State /\ t.height = s.height + 1 /\ t.plan = s.plan
      /\ t.metadata = s.metadata /\ t.genesis = s.genesis /\ t.versions = s.versions
      /\ t.disabled = s.disabled /\ t.price = s.price /\ t.panic = s.panic
  BY DEF State
<1> HIDE DEF t
<1>2. Untouched(s) <=> Untouched(t)
  BY <1>1 DEF Untouched
<1>3. Upgraded(s) <=> Upgraded(t)
  BY <1>1 DEF Upgraded
<1>4. RightState(skipped, t, lifted)
  BY <1>1, <1>2, <1>3 DEF RightState
<1> QED
  BY <1>4 DEF t

\* A node that is started keeps the invariant.
LEMMA StartInv ==
    ASSUME IInv, NEW n \in Nodes, NEW bin \in {"old", "new"}, Start(n, bin)
    PROVE  IInv'
<1>1. bin = "new" => ~skip
  BY DEF Start, Loads, storeLoader, IInv, NodeInv, CommittedInv
<1> QED
  BY <1>1 DEF IInv, Shapes, NodeInv, CommittedInv, WorkingInv, BinaryInv, Start

\* The validators' agreement to skip keeps the invariant.
LEMMA AgreeToSkipInv == IInv /\ AgreeToSkip => IInv'
<1> SUFFICES ASSUME IInv, AgreeToSkip PROVE IInv'
  OBVIOUS
<1>1. ASSUME NEW n \in Nodes PROVE NodeInv(n)'
  <2>1. ~busy[n] /\ binary[n] = "none" /\ committed[n].height < UpgradeHeight
    BY DEF IInv, Shapes, NodeInv, WorkingInv, AgreeToSkip
  <2>2. committed[n].height \in Nat
    BY DueAtHeight
  <2> QED
    BY <2>1, <2>2, UpgradeAssumption
    DEF IInv, NodeInv, CommittedInv, WorkingInv, BinaryInv, RightState, AgreeToSkip
<1> QED
  BY <1>1 DEF IInv, Shapes, AgreeToSkip

\* PreBlocker keeps the invariant.
LEMMA PreBlockInv ==
    ASSUME IInv, NEW n \in Nodes, PreBlock(n)
    PROVE  IInv'
<1> DEFINE wrong == \/ binary[n] = "new" /\ committed[n].plan = "pending"
                    \/ binary[n] = "old" /\ committed[n].plan = "done"
           c == committed[n]
           lifted == BreakerReset(blocks, c.height)
<1>1. CASE Stop(n)
  BY <1>1, StopInv
<1>2. CASE ~wrong /\ EnterBlock(n, c)
  <2>1. ~Due(n) /\ binary[n] # "none" /\ c.height < Len(blocks)
    BY DEF PreBlock, Ready
  <2>2. /\ c \in State /\ c.height \in Nat /\ c.height + 1 # UpgradeHeight
        /\ c.plan = "pending" <=> c.height < UpgradeHeight
        /\ c.plan = "done" <=> ~skip /\ c.height >= UpgradeHeight
    BY <2>1, DueAtHeight
  <2>3. skip \in BOOLEAN /\ RightState(skip, c, lifted)
    BY DEF IInv, Shapes, NodeInv, CommittedInv
  <2> HIDE DEF lifted
  <2>4. RightState(skip, [c EXCEPT !.height = @ + 1], lifted)
    BY <2>2, <2>3, NextHeightRight, UpgradeAssumption DEF RightState
  <2>5. binary[n] = "new" <=> ~skip /\ c.height + 1 >= UpgradeHeight
    BY <1>2, <2>1, <2>2, UpgradeAssumption DEF IInv, Shapes, NodeInv, BinaryInv
  <2> QED
    BY <1>2, <2>1, <2>2, <2>4, <2>5, EnterBlockInv DEF lifted
<1> QED
  BY <1>1, <1>2 DEF PreBlock

\* A skipped upgrade keeps the invariant.
LEMMA SkipUpgradeInv ==
    ASSUME IInv, NEW n \in Nodes, SkipUpgrade(n)
    PROVE  IInv'
<1> DEFINE c == committed[n]
           s == [c EXCEPT !.plan = "skipped"]
           lifted == BreakerReset(blocks, c.height)
<1>1. skip /\ Due(n) /\ binary[n] # "none" /\ EnterBlock(n, s) /\ c.height < Len(blocks)
  BY DEF SkipUpgrade, Ready
<1>2. c \in State /\ c.height \in Nat /\ c.height + 1 = UpgradeHeight
  BY <1>1, DueAtHeight
<1>3. skip \in BOOLEAN /\ RightState(skip, c, lifted)
  BY DEF IInv, Shapes, NodeInv, CommittedInv
<1>4. Untouched(c)
  BY <1>1, <1>3 DEF RightState
<1>5. /\ s \in State /\ s.plan = "skipped" /\ s.height = c.height /\ s.executed = c.executed
      /\ s.stores = c.stores /\ Untouched(s)
  BY <1>2, <1>4 DEF State, Untouched
<1>6. binary[n] # "new"
  BY <1>1 DEF IInv, NodeInv, BinaryInv
<1> HIDE DEF s, lifted
<1>7. RightState(skip, [s EXCEPT !.height = @ + 1], lifted)
  <2>1. ~(s.height + 1 < UpgradeHeight)
    BY <1>2, <1>5, UpgradeAssumption
  <2> QED
    BY <1>1, <1>3, <1>5, <2>1, NextHeightRight
<1> QED
  BY <1>1, <1>5, <1>6, <1>7, EnterBlockInv DEF lifted

\* The handler does not panic, and leaves the upgraded state.
LEMMA ApplyUpgradeInv ==
    ASSUME IInv, NEW n \in Nodes, ApplyUpgrade(n)
    PROVE  IInv'
<1> DEFINE c == committed[n]
           u == upgradeHandler(c)
           s == [u EXCEPT !.plan = "done"]
           lifted == BreakerReset(blocks, c.height)
<1>1. CASE Stop(n)
  BY <1>1, StopInv
<1>2. CASE EnterBlock(n, s)
  <2>1. ~skip /\ Due(n) /\ binary[n] = "new" /\ c.height < Len(blocks)
    BY DEF ApplyUpgrade, Ready
  <2>2. c \in State /\ c.height \in Nat /\ c.height + 1 = UpgradeHeight
    BY <2>1, DueAtHeight
  <2>3. skip \in BOOLEAN /\ Untouched(c)
    BY <2>2, UpgradeAssumption DEF IInv, Shapes, NodeInv, CommittedInv, RightState
  <2>4. /\ u \in State /\ Upgraded(u) /\ u.disabled = groupMsgTypeURLs
        /\ u.height = c.height /\ u.stores = c.stores /\ u.executed = c.executed
    BY <2>2, <2>3, HandlerEffect
  <2> HIDE DEF u
  <2>5. /\ s \in State /\ s.plan = "done" /\ s.height = c.height /\ s.executed = c.executed
        /\ s.stores = c.stores /\ Upgraded(s) /\ s.disabled = groupMsgTypeURLs
    BY <2>4 DEF State, Upgraded
  <2> HIDE DEF s
  <2>6. ~lifted
    BY <2>2, UpgradeAssumption DEF BreakerReset
  <2> HIDE DEF lifted
  <2>7. RightState(skip, [s EXCEPT !.height = @ + 1], lifted)
    BY <2>1, <2>2, <2>3, <2>5, <2>6, NextHeightRight, UpgradeAssumption DEF Breaker
  <2> QED
    BY <1>2, <2>1, <2>2, <2>5, <2>7, EnterBlockInv, UpgradeAssumption DEF lifted
<1> QED
  BY <1>1, <1>2 DEF ApplyUpgrade

\* A reset takes effect in the block it is in.
LEMMA ResetStep ==
    ASSUME NEW h \in Nat
    PROVE  BreakerReset(blocks, h + 1) <=>
               \/ BreakerReset(blocks, h)
               \/ h + 1 >= UpgradeHeight /\ blocks[h + 1] = ResetMsg
BY UpgradeAssumption DEF BreakerReset

\* What FinishBlock commits: the working state with its stores; the executed
\* messages grow only below the upgrade and after a reset.
LEMMA FinishBlockEffect ==
    ASSUME IInv, NEW n \in Nodes, FinishBlock(n)
    PROVE  LET s == committed'[n]
               w == working[n]
           IN  /\ committed' = [committed EXCEPT ![n] = s]
               /\ working' = [working EXCEPT ![n] = s]
               /\ RightState(skip, s, BreakerReset(blocks, s.height))
               /\ s.height = committed[n].height + 1 /\ s.height \in Nat
               /\ s.height <= Len(blocks)
               /\ s.stores = (~skip /\ s.height >= UpgradeHeight)
               /\ binary[n] = "new" <=> ~skip /\ s.height >= UpgradeHeight
               /\ s.executed # committed[n].executed =>
                      \/ skip \/ s.height < UpgradeHeight
                      \/ BreakerReset(blocks, committed[n].height)
<1> DEFINE w == working[n]
           msg == blocks[w.height]
           ok == msg \in groupMsgTypeURLs \ w.disabled
           ex == IF ok THEN w.executed \cup {msg} ELSE w.executed
           st == w.stores \/ binary[n] = "new"
           off == IF msg = ResetMsg THEN {} ELSE w.disabled
           before == BreakerReset(blocks, committed[n].height)
           q == [w EXCEPT !.executed = ex]
           r == [q EXCEPT !.disabled = off]
           s == [r EXCEPT !.stores = st]
<1>1. /\ committed' = [committed EXCEPT ![n] = s] /\ working' = [working EXCEPT ![n] = s]
      /\ busy[n]
  BY DEF FinishBlock
<1>2. n \in DOMAIN committed /\ committed[n].height \in Nat
  BY DueAtHeight DEF IInv, Shapes
<1>3. committed'[n] = s
  BY <1>1, <1>2
<1>4. /\ RightState(skip, w, before) /\ w \in State /\ w.height <= Len(blocks)
      /\ w.height = committed[n].height + 1 /\ w.executed = committed[n].executed
      /\ w.stores = committed[n].stores /\ w.height \in Nat
      /\ binary[n] = "new" <=> ~skip /\ w.height >= UpgradeHeight
      /\ committed[n].stores = (~skip /\ committed[n].height >= UpgradeHeight)
  BY <1>1, <1>2 DEF IInv, NodeInv, WorkingInv, CommittedInv, RightState
<1>5. /\ ex \in SUBSET groupMsgTypeURLs /\ st \in BOOLEAN
      /\ off \in SUBSET groupMsgTypeURLs
  BY <1>4 DEF State
<1>6. ex # w.executed => skip \/ w.height < UpgradeHeight \/ before
  BY <1>4 DEF RightState, Breaker
<1>6a. /\ skip \/ w.height < UpgradeHeight => off = {}
       /\ ~(skip \/ w.height < UpgradeHeight) => off = Breaker(BreakerReset(blocks, w.height))
  <2> DEFINE h == committed[n].height
  <2>0. BreakerReset(blocks, h + 1) <=>
            before \/ (h + 1 >= UpgradeHeight /\ blocks[h + 1] = ResetMsg)
    BY <1>2, ResetStep
  <2>1. BreakerReset(blocks, w.height) <=>
            before \/ (w.height >= UpgradeHeight /\ msg = ResetMsg)
    BY <1>4, <2>0
  <2> HIDE DEF w, msg, before
  <2>2. ~(w.height < UpgradeHeight) => w.height >= UpgradeHeight
    BY <1>4, UpgradeAssumption
  <2>3. skip \/ w.height < UpgradeHeight => w.disabled = {}
    BY <1>4, Zenon DEF RightState, Untouched
  <2>4. ~(skip \/ w.height < UpgradeHeight) => w.disabled = Breaker(before)
    BY <1>4, Zenon DEF RightState
  <2>5. CASE msg = ResetMsg
    BY <2>1, <2>2, <2>5, Zenon DEF Breaker
  <2>6. CASE msg # ResetMsg
    <3>1. off = w.disabled /\ (BreakerReset(blocks, w.height) <=> before)
      BY <2>1, <2>6
    <3>2. Breaker(BreakerReset(blocks, w.height)) = Breaker(before)
      BY <3>1, Zenon DEF Breaker
    <3> QED
      BY <2>3, <2>4, <3>1, <3>2
  <2> QED
    BY <2>5, <2>6
<1>7. st = (~skip /\ w.height >= UpgradeHeight)
  <2>2. committed[n].height >= UpgradeHeight => w.height >= UpgradeHeight
    BY <1>2, <1>4, UpgradeAssumption
  <2> HIDE DEF w
  <2>4. CASE ~skip /\ w.height >= UpgradeHeight
    BY <1>4, <2>4
  <2>5. CASE ~(~skip /\ w.height >= UpgradeHeight)
    BY <1>4, <2>2, <2>5
  <2> QED
    BY <2>4, <2>5
<1> HIDE DEF w, ex, st, off, before
<1>8. /\ q \in State /\ q.executed = ex /\ q.height = w.height /\ q.plan = w.plan
      /\ q.metadata = w.metadata /\ q.genesis = w.genesis /\ q.versions = w.versions
      /\ q.price = w.price /\ q.panic = w.panic
  BY <1>4, <1>5 DEF State
<1> HIDE DEF q
<1>8a. /\ r \in State /\ r.executed = ex /\ r.height = w.height /\ r.plan = w.plan
       /\ r.metadata = w.metadata /\ r.genesis = w.genesis /\ r.versions = w.versions
       /\ r.disabled = off /\ r.price = w.price /\ r.panic = w.panic
  BY <1>5, <1>8 DEF State
<1> HIDE DEF r
<1>9. /\ s \in State /\ s.executed = ex /\ s.stores = st /\ s.height = w.height
      /\ s.plan = w.plan
      /\ s.metadata = w.metadata /\ s.genesis = w.genesis /\ s.versions = w.versions
      /\ s.disabled = off /\ s.price = w.price /\ s.panic = w.panic
  BY <1>5, <1>8a DEF State
<1> HIDE DEF s
<1>10. RightState(skip, s, BreakerReset(blocks, s.height))
  BY <1>4, <1>6a, <1>9 DEF RightState, Untouched, Upgraded
<1>11. /\ s.height = committed[n].height + 1 /\ s.height \in Nat /\ s.height <= Len(blocks)
       /\ s.stores = (~skip /\ s.height >= UpgradeHeight)
  BY <1>4, <1>7, <1>9
<1>12. binary[n] = "new" <=> ~skip /\ s.height >= UpgradeHeight
  BY <1>4, <1>9
<1>13. s.executed # committed[n].executed => skip \/ s.height < UpgradeHeight \/ before
  BY <1>4, <1>6, <1>9
<1> QED
  BY <1>1, <1>3, <1>10, <1>11, <1>12, <1>13, Zenon DEF before

\* A finished block keeps the invariant.
LEMMA FinishBlockInv ==
    ASSUME IInv, NEW n \in Nodes, FinishBlock(n)
    PROVE  IInv'
<1> DEFINE s == committed'[n]
<1>1. /\ committed' = [committed EXCEPT ![n] = s] /\ working' = [working EXCEPT ![n] = s]
      /\ RightState(skip, s, BreakerReset(blocks, s.height)) /\ s.height <= Len(blocks)
      /\ s.stores = (~skip /\ s.height >= UpgradeHeight)
  BY FinishBlockEffect
<1>2. busy' = [busy EXCEPT ![n] = FALSE] /\ UNCHANGED <<blocks, skip, binary>>
  BY DEF FinishBlock
<1> HIDE DEF s
<1> QED
  BY <1>1, <1>2 DEF IInv, Shapes, NodeInv, CommittedInv, WorkingInv, BinaryInv

\* Consensus adds a block and changes none of those the nodes have executed.
LEMMA DecideInv ==
    ASSUME IInv, NEW msg \in Msgs, Decide(msg)
    PROVE  IInv'
<1>1. /\ blocks \in Seq(Msgs) /\ blocks' = Append(blocks, msg)
      /\ UNCHANGED <<skip, committed, working, binary, busy, upgradeInfo>>
  BY DEF Decide, IInv, Shapes
<1>2. /\ blocks' \in Seq(Msgs) /\ Len(blocks) \in Nat /\ Len(blocks') = Len(blocks) + 1
      /\ \A i \in 1 .. Len(blocks) : blocks'[i] = blocks[i]
  BY <1>1
<1>3. ASSUME NEW h \in Nat, h <= Len(blocks)
      PROVE  BreakerReset(blocks', h) = BreakerReset(blocks, h)
  <2>1. UpgradeHeight .. h \subseteq 1 .. Len(blocks)
    BY <1>2, <1>3, UpgradeAssumption
  <2> QED
    BY <1>2, <2>1 DEF BreakerReset
<1>4. ASSUME NEW n \in Nodes PROVE NodeInv(n)'
  <2>1. NodeInv(n) /\ committed[n].height \in Nat /\ committed[n].height <= Len(blocks)
    BY DueAtHeight DEF IInv, NodeInv, CommittedInv
  <2>2. BreakerReset(blocks', committed[n].height) = BreakerReset(blocks, committed[n].height)
    BY <1>3, <2>1
  <2>3. committed[n].height <= Len(blocks')
    BY <1>2, <2>1
  <2>4. busy[n] => working[n].height <= Len(blocks')
    BY <1>2, <2>1 DEF NodeInv, WorkingInv
  <2> QED
    BY <1>1, <2>1, <2>2, <2>3, <2>4 DEF NodeInv, CommittedInv, WorkingInv, BinaryInv
<1> QED
  BY <1>1, <1>2, <1>4 DEF IInv, Shapes

\* Every step keeps the invariant.
LEMMA StepInv == IInv /\ [Next]_vars => IInv'
<1> SUFFICES ASSUME IInv, [Next]_vars PROVE IInv'
  OBVIOUS
<1>1. ASSUME NEW msg \in Msgs, Decide(msg) PROVE IInv'
  BY <1>1, DecideInv
<1>2. ASSUME NEW n \in Nodes, NEW bin \in {"old", "new"}, Start(n, bin) PROVE IInv'
  BY <1>2, StartInv
<1>3. ASSUME NEW n \in Nodes, PreBlock(n) PROVE IInv'
  BY <1>3, PreBlockInv
<1>4. ASSUME NEW n \in Nodes, SkipUpgrade(n) PROVE IInv'
  BY <1>4, SkipUpgradeInv
<1>5. ASSUME NEW n \in Nodes, UpgradeNeeded(n) PROVE IInv'
  BY <1>5, StopInv DEF UpgradeNeeded
<1>6. ASSUME NEW n \in Nodes, ApplyUpgrade(n) PROVE IInv'
  BY <1>6, ApplyUpgradeInv
<1>7. ASSUME NEW n \in Nodes, FinishBlock(n) PROVE IInv'
  BY <1>7, FinishBlockInv
<1>8. ASSUME NEW n \in Nodes, Crash(n) PROVE IInv'
  BY <1>8, StopInv DEF Crash
<1>9. CASE AgreeToSkip
  BY <1>9, AgreeToSkipInv
<1>10. CASE UNCHANGED vars
  BY <1>10 DEF vars, IInv, Shapes, NodeInv, CommittedInv, WorkingInv, BinaryInv
<1> QED
  BY <1>1, <1>2, <1>3, <1>4, <1>5, <1>6, <1>7, <1>8, <1>9, <1>10 DEF Next, BeginBlock

\* The inductive invariant of the upgrade.
THEOREM UpgradeInvariant == Spec => []IInv
<1>1. Init => IInv
  BY InitInv
<1>2. IInv /\ [Next]_vars => IInv'
  BY StepInv
<1> QED
  BY <1>1, <1>2, PTL DEF Spec

\* On every node and at every height the committed state has the upgrade in
\* full or not at all, whatever was started, stopped and repeated.
THEOREM UpgradeByHeight == Spec => []UpgradedByHeight
  BY UpgradeInvariant, InvUpgraded, PTL

\* Only FinishBlock changes a committed state.
LEMMA OnlyFinishCommits ==
    ASSUME IInv, [Next]_vars, NEW n \in Nodes, committed'[n] # committed[n]
    PROVE  FinishBlock(n)
<1>1. ASSUME NEW m \in Nodes, FinishBlock(m) PROVE m = n
  BY <1>1 DEF FinishBlock, IInv, Shapes
<1>2. committed' # committed
  OBVIOUS
<1> QED
  BY <1>1, <1>2
  DEF Next, BeginBlock, vars, Decide, Start, PreBlock, SkipUpgrade, UpgradeNeeded, ApplyUpgrade,
      EnterBlock, Stop, Crash, AgreeToSkip

\* Only the binary that belongs to a block commits it.
THEOREM RightBinary == Spec => RightBinaryCommits
<1>1. ASSUME IInv, [Next]_vars
      PROVE  \A n \in Nodes : committed'[n] # committed[n] =>
                 (binary[n] = "new" <=> ~skip /\ committed'[n].height >= UpgradeHeight)
  BY <1>1, OnlyFinishCommits, FinishBlockEffect
<1> QED
  BY <1>1, UpgradeInvariant, PTL DEF Spec, RightBinaryCommits

\* No group message takes effect in the block of the upgrade or later, unless
\* the circuit breaker has been reset since.
THEOREM GroupDisabled == Spec => GroupStaysDisabled
<1>1. ASSUME IInv, [Next]_vars
      PROVE  \A n \in Nodes : committed'[n].executed # committed[n].executed =>
                 \/ skip \/ committed'[n].height < UpgradeHeight
                 \/ BreakerReset(blocks, committed[n].height)
  BY <1>1, OnlyFinishCommits, FinishBlockEffect
<1> QED
  BY <1>1, UpgradeInvariant, PTL DEF Spec, GroupStaysDisabled

=============================================================================
