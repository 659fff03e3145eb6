---------------------------- MODULE DistroProofs ----------------------------
(***************************************************************************)
(* Safety of the distro module, for any accounts, denominations, messages, *)
(* parameters and dates.  What is said of the schedule of DistroSchedule   *)
(* has FixedSchedule as a hypothesis; nothing else depends on it.  The     *)
(* last part is about ScheduleWalk, a specification of its own.            *)
(***************************************************************************)
EXTENDS DistroSchedule, ScheduleWalk, ArithmeticProofs

Empty(s) == \A d \in Denoms : s.balance[DistroModule][d] = 0

\* TypeOK alone is not inductive: that a deposit leaves no negative balance
\* depends on the coins Mint has just created, and that the module account
\* is empty again depends on it having been empty before.
Inv == TypeOK /\ ModuleAccountEmpty

\* A store is a record of its three parts.
LEMMA StoreFields ==
    ASSUME NEW s \in Store
    PROVE  /\ s.params \in Params
           /\ s.supply \in [Denoms -> Nat]
           /\ s.balance \in [Accounts -> [Denoms -> Nat]]
           /\ s = [params |-> s.params, supply |-> s.supply, balance |-> s.balance]
BY DEF Store

\* bank.MintCoins adds the amount to the supply and to the distro module
\* account, and changes nothing else.
LEMMA MintCoinsEffect ==
    ASSUME NEW s \in Store, NEW d \in Denoms, NEW n \in Nat
    PROVE  /\ MintCoins(s, d, n) \in Store
           /\ MintCoins(s, d, n).params = s.params
           /\ \A e \in Denoms : MintCoins(s, d, n).supply[e] =
                  IF e = d THEN s.supply[e] + n ELSE s.supply[e]
           /\ \A a \in Accounts, e \in Denoms : MintCoins(s, d, n).balance[a][e] =
                  IF a = DistroModule /\ e = d THEN s.balance[a][e] + n ELSE s.balance[a][e]
<1> DEFINE mid == [s EXCEPT !.supply[d] = @ + n]
           res == [mid EXCEPT !.balance[DistroModule][d] = @ + n]
<1>1. DistroModule \in Accounts
  BY DistroAssumption
<1>2. /\ s.supply[d] + n \in Nat
      /\ mid \in Store /\ mid.params = s.params /\ mid.balance = s.balance
      /\ \A e \in Denoms : mid.supply[e] = IF e = d THEN s.supply[e] + n ELSE s.supply[e]
  BY StoreFields DEF Store
<1>3. s.balance[DistroModule][d] + n \in Nat
  BY <1>1, StoreFields
<1>4. MintCoins(s, d, n) = res
  BY StoreFields DEF MintCoins
<1> HIDE DEF mid
<1>5. /\ res \in Store /\ res.params = mid.params /\ res.supply = mid.supply
      /\ \A a \in Accounts, e \in Denoms : res.balance[a][e] =
             IF a = DistroModule /\ e = d THEN mid.balance[a][e] + n ELSE mid.balance[a][e]
  BY <1>1, <1>2, <1>3, StoreFields DEF Store
<1> HIDE DEF res
<1> QED
  BY <1>2, <1>4, <1>5

\* A transfer between different accounts moves the amount and leaves supply and
\* parameters alone.
LEMMA SendCoinsEffect ==
    ASSUME NEW s \in Store, NEW from \in Accounts, NEW to \in Accounts, from # to,
           NEW d \in Denoms, NEW n \in Nat, n <= s.balance[from][d]
    PROVE  /\ SendCoins(s, from, to, d, n) \in Store
           /\ SendCoins(s, from, to, d, n).params = s.params
           /\ SendCoins(s, from, to, d, n).supply = s.supply
           /\ \A a \in Accounts, e \in Denoms :
                  SendCoins(s, from, to, d, n).balance[a][e] =
                      IF e # d THEN s.balance[a][e]
                      ELSE IF a = from THEN s.balance[a][e] - n
                      ELSE IF a = to THEN s.balance[a][e] + n
                      ELSE s.balance[a][e]
<1> DEFINE mid == [s EXCEPT !.balance[from][d] = @ - n]
           res == [mid EXCEPT !.balance[to][d] = @ + n]
<1>0. s.balance[from][d] - n \in Nat
  BY StoreFields
<1>1. /\ mid \in Store /\ mid.params = s.params /\ mid.supply = s.supply
      /\ \A a \in Accounts, e \in Denoms :
             mid.balance[a][e] = IF a = from /\ e = d THEN s.balance[a][e] - n ELSE s.balance[a][e]
  BY <1>0, StoreFields DEF Store
<1> HIDE DEF mid
<1>2. mid.balance[to][d] + n \in Nat
  BY <1>1, StoreFields
<1>3. /\ res \in Store /\ res.params = mid.params /\ res.supply = mid.supply
      /\ \A a \in Accounts, e \in Denoms :
             res.balance[a][e] = IF a = to /\ e = d THEN mid.balance[a][e] + n ELSE mid.balance[a][e]
  BY <1>1, <1>2, StoreFields DEF Store
<1>4. SendCoins(s, from, to, d, n) = res
  BY DEF SendCoins, mid
<1> HIDE DEF res
<1> QED
  BY <1>1, <1>3, <1>4

\* What the assumptions say of the accounts the handlers name: governance can
\* receive coins and the distro module account cannot.
LEMMA Constants ==
    /\ Gov \in Accounts /\ Gov \in Origins /\ Gov \notin blockedAddrs
    /\ DistroModule \in Accounts /\ DistroModule \in blockedAddrs /\ DistroModule \notin Origins
    /\ Origins \subseteq Accounts
    /\ Word \subseteq Nat
BY DistroAssumption, WordSize DEF Origins, blockedAddrs

\* What a mint that succeeds leaves in the branch.
LEMMA MintEffect ==
    ASSUME NEW s \in Store, Empty(s), NEW n \in Word, s.params.Denom \in Denoms,
           depositAccepted(MintCoins(s, s.params.Denom, n), s.params, n)
    PROVE  LET p == s.params
               r == depositCoins(MintCoins(s, p.Denom, n), p, n)
           IN  /\ r \in Store /\ Empty(r) /\ r.params = p
               /\ \A e \in Denoms : r.supply[e] =
                      IF e = p.Denom THEN s.supply[e] + n ELSE s.supply[e]
<1> DEFINE p == s.params
           d == p.Denom
           to == p.ReceivingAddress.acct
           m == MintCoins(s, d, n)
           r == SendCoins(m, DistroModule, to, d, n)
<1>1. n \in Nat /\ DistroModule \in Accounts
  BY Constants
<1>2. to \in Accounts /\ to # DistroModule
  BY StoreFields, Constants DEF depositAccepted, Params, AddressString
<1>3. /\ m \in Store /\ m.params = p
      /\ \A e \in Denoms : m.supply[e] = IF e = d THEN s.supply[e] + n ELSE s.supply[e]
      /\ \A a \in Accounts, e \in Denoms : m.balance[a][e] =
             IF a = DistroModule /\ e = d THEN s.balance[a][e] + n ELSE s.balance[a][e]
  BY <1>1, MintCoinsEffect
<1>4. /\ m.balance[DistroModule][d] = n
      /\ \A e \in Denoms : e # d => m.balance[DistroModule][e] = 0
  BY <1>1, <1>3 DEF Empty
<1> HIDE DEF m, to, d
<1>5. d \in Denoms /\ n <= m.balance[DistroModule][d]
  BY <1>1, <1>4 DEF d
<1>6. /\ r \in Store /\ r.params = m.params /\ r.supply = m.supply
      /\ \A a \in Accounts, e \in Denoms : r.balance[a][e] =
             IF e # d THEN m.balance[a][e]
             ELSE IF a = DistroModule THEN m.balance[a][e] - n
             ELSE IF a = to THEN m.balance[a][e] + n
             ELSE m.balance[a][e]
  BY <1>1, <1>2, <1>3, <1>5, SendCoinsEffect
<1> HIDE DEF r
<1>7. Empty(r)
  BY <1>1, <1>4, <1>6 DEF Empty
<1> QED
  BY <1>3, <1>6, <1>7 DEF depositCoins, r, m, to, d

TxType == [status : {"idle", "running", "failed"}, origin : Origins, msgs : 0 .. MaxMsgs]

\* The invariant, spelled out field by field.
LEMMA InvParts ==
    Inv <=> /\ store \in Store /\ branch \in Store /\ tx \in TxType /\ today \in Date
            /\ tx.status = "idle" => branch = store
            /\ Empty(store)
            /\ tx.status # "failed" => Empty(branch)
BY DEF Inv, TypeOK, ModuleAccountEmpty, Empty, TxType

\* A transaction that fails, or goes on to its next message, is well formed.
LEMMA TxSteps ==
    ASSUME tx \in TxType
    PROVE  /\ [tx EXCEPT !.status = "failed"] \in TxType
           /\ [tx EXCEPT !.status = "failed"].status = "failed"
           /\ Running => /\ [tx EXCEPT !.msgs = @ + 1] \in TxType
                         /\ [tx EXCEPT !.msgs = @ + 1].status = "running"
           /\ Idle \in TxType /\ Idle.status = "idle"
BY Constants, DistroAssumption DEF TxType, Running, Idle

\* The two ways a handler ends keep the invariant.
LEMMA FailKeepsInv ==
    ASSUME Inv, NEW s \in Store, Fail(s), UNCHANGED <<store, today>>
    PROVE  Inv'
<1>1. tx' \in TxType /\ tx'.status = "failed" /\ branch' = s
  BY InvParts, TxSteps DEF Fail
<1> QED
  BY <1>1, InvParts DEF Inv, TypeOK, ModuleAccountEmpty, Empty, TxType

\* A message that succeeds with an empty module account keeps the invariant.
LEMMA ContinueKeepsInv ==
    ASSUME Inv, Running, NEW s \in Store, Empty(s), Continue(s), UNCHANGED <<store, today>>
    PROVE  Inv'
<1>1. tx' \in TxType /\ tx'.status = "running" /\ branch' = s
  BY InvParts, TxSteps DEF Continue
<1> QED
  BY <1>1, InvParts DEF Inv, TypeOK, ModuleAccountEmpty, Empty, TxType

\* A committed write that leaves the module account empty keeps the invariant.
LEMMA WriteKeepsInv ==
    ASSUME Inv, NEW s \in Store, Empty(s), Write(s)
    PROVE  Inv'
BY InvParts DEF Write, Inv, TypeOK, ModuleAccountEmpty, Empty, TxType

\* MsgMint keeps the invariant, in each of its three outcomes.
LEMMA MintKeepsInv ==
    ASSUME Inv, NEW signer \in Signers, NEW n \in Amounts, Mint(signer, n)
    PROVE  Inv'
<1> DEFINE p == branch.params
           m == MintCoins(branch, p.Denom, n)
           r == depositCoins(m, p, n)
<1>1. Running /\ UNCHANGED <<store, today>> /\ branch \in Store /\ n \in Word /\ n \in Nat
  BY InvParts, DistroAssumption, Constants DEF Mint
<1>2. Empty(branch)
  BY <1>1, InvParts DEF Running
<1>3. CASE Fail(branch)
  BY <1>1, <1>3, FailKeepsInv
<1>4. CASE mintAllowed(branch, signer, n) /\ depositAccepted(m, p, n) /\ Continue(r)
  <2>1. p.Denom \in Denoms
    BY <1>4 DEF mintAllowed
  <2>2. r \in Store /\ Empty(r)
    BY <1>1, <1>2, <1>4, <2>1, MintEffect
  <2> HIDE DEF r
  <2> QED
    BY <1>1, <1>4, <2>2, ContinueKeepsInv
<1>5. CASE mintAllowed(branch, signer, n) /\ Fail(m)
  <2>1. p.Denom \in Denoms
    BY <1>5 DEF mintAllowed
  <2>2. m \in Store
    BY <1>1, <2>1, MintCoinsEffect
  <2> HIDE DEF m
  <2> QED
    BY <1>1, <1>5, <2>2, FailKeepsInv
<1> QED
  BY <1>3, <1>4, <1>5 DEF Mint

\* MsgUpdateParams keeps the invariant.
LEMMA UpdateParamsKeepsInv ==
    ASSUME Inv, NEW authority \in Signers, NEW p \in Proposals, UpdateParams(authority, p)
    PROVE  Inv'
<1> DEFINE r == [branch EXCEPT !.params = p]
<1>1. Running /\ UNCHANGED <<store, today>> /\ branch \in Store /\ p \in Params
  BY InvParts, DistroAssumption DEF UpdateParams
<1>2. Empty(branch)
  BY <1>1, InvParts DEF Running
<1>3. r \in Store /\ r.balance = branch.balance
  BY <1>1, StoreFields DEF Store
<1>4. Empty(r)
  BY <1>2, <1>3 DEF Empty
<1>5. Fail(branch) \/ Continue(r)
  BY DEF UpdateParams
<1> HIDE DEF r
<1> QED
  BY <1>1, <1>3, <1>4, <1>5, FailKeepsInv, ContinueKeepsInv

\* Minting and burning by other modules keeps the invariant.
LEMMA OtherModulesKeepInv ==
    ASSUME Inv, NEW a \in Accounts \ {DistroModule}, NEW d \in Denoms, NEW n \in OtherAmounts,
           OtherMint(a, d, n) \/ OtherBurn(a, d, n)
    PROVE  Inv'
<1>1. store \in Store /\ Empty(store) /\ n \in Nat
  BY InvParts, DistroAssumption
<1>2. ASSUME NEW x \in Nat, NEW y \in Nat
      PROVE  LET r == [store EXCEPT !.supply[d] = x, !.balance[a][d] = y]
             IN  r \in Store /\ Empty(r)
  <2> DEFINE mid == [store EXCEPT !.supply[d] = x]
             r == [mid EXCEPT !.balance[a][d] = y]
  <2>1. mid \in Store /\ mid.balance = store.balance
    BY <1>1, StoreFields DEF Store
  <2>2. r = [store EXCEPT !.supply[d] = x, !.balance[a][d] = y]
    BY <1>1, StoreFields
  <2> HIDE DEF mid
  <2>3. r \in Store /\ r.balance[DistroModule] = mid.balance[DistroModule]
    BY <2>1, StoreFields, Constants DEF Store
  <2>4. Empty(r)
    BY <1>1, <2>1, <2>3 DEF Empty
  <2> QED
    BY <2>2, <2>3, <2>4
<1>3. CASE OtherMint(a, d, n)
  <2>1. store.supply[d] + n \in Nat /\ store.balance[a][d] + n \in Nat
    BY <1>1, StoreFields
  <2>2. LET r == [store EXCEPT !.supply[d] = store.supply[d] + n,
                               !.balance[a][d] = store.balance[a][d] + n]
        IN  r \in Store /\ Empty(r)
    BY <1>2, <2>1
  <2>3. [store EXCEPT !.supply[d] = store.supply[d] + n,
                      !.balance[a][d] = store.balance[a][d] + n]
        = [store EXCEPT !.supply[d] = @ + n, !.balance[a][d] = @ + n]
    OBVIOUS
  <2> QED
    BY <1>3, <2>2, <2>3, WriteKeepsInv DEF OtherMint
<1>4. CASE OtherBurn(a, d, n)
  <2>1. store.supply[d] - n \in Nat /\ store.balance[a][d] - n \in Nat
    BY <1>1, <1>4, StoreFields DEF OtherBurn
  <2>2. LET r == [store EXCEPT !.supply[d] = store.supply[d] - n,
                               !.balance[a][d] = store.balance[a][d] - n]
        IN  r \in Store /\ Empty(r)
    BY <1>2, <2>1
  <2>3. [store EXCEPT !.supply[d] = store.supply[d] - n,
                      !.balance[a][d] = store.balance[a][d] - n]
        = [store EXCEPT !.supply[d] = @ - n, !.balance[a][d] = @ - n]
    OBVIOUS
  <2> QED
    BY <1>4, <2>2, <2>3, WriteKeepsInv DEF OtherBurn
<1> QED
  BY <1>3, <1>4

\* A transfer keeps the invariant: the distro module account is blocked.
LEMMA SendKeepsInv ==
    ASSUME Inv, NEW a \in Origins, NEW b \in Accounts, NEW d \in Denoms, NEW n \in OtherAmounts,
           Send(a, b, d, n)
    PROVE  Inv'
<1>1. store \in Store /\ Empty(store) /\ n \in Nat /\ a \in Accounts
  BY InvParts, DistroAssumption, Constants
<1>2. a # DistroModule /\ b # DistroModule /\ a # b /\ n <= store.balance[a][d]
  BY Constants DEF Send
<1> DEFINE r == SendCoins(store, a, b, d, n)
<1>3. /\ r \in Store
      /\ \A e \in Denoms : r.balance[DistroModule][e] = store.balance[DistroModule][e]
  BY <1>1, <1>2, SendCoinsEffect, Constants
<1> HIDE DEF r
<1>4. Empty(r)
  BY <1>1, <1>3 DEF Empty
<1> QED
  BY <1>3, <1>4, WriteKeepsInv DEF Send, r

\* The invariant holds when the chain starts.
LEMMA InvInit == Init => Inv
<1> SUFFICES ASSUME Init PROVE Inv
  OBVIOUS
<1>1. store \in Store /\ branch = store /\ tx = Idle /\ today \in Date /\ Empty(store)
  BY DistroAssumption DEF Init, Empty
<1>2. Idle \in TxType /\ Idle.status = "idle"
  BY Constants, DistroAssumption DEF TxType, Idle
<1> QED
  BY <1>1, <1>2, InvParts

\* Every step keeps the invariant.
LEMMA InvNext == Inv /\ [Next]_vars => Inv'
<1> SUFFICES ASSUME Inv, [Next]_vars PROVE Inv'
  OBVIOUS
<1>1. ASSUME NEW o \in Origins, BeginTx(o) PROVE Inv'
  <2>1. tx' \in TxType /\ tx'.status = "running" /\ branch = store
    BY <1>1, InvParts, DistroAssumption DEF BeginTx, TxType
  <2> QED
    BY <1>1, <2>1, InvParts DEF BeginTx, Inv, TypeOK, ModuleAccountEmpty, Empty, TxType
<1>2. ASSUME NEW s \in Signers, NEW n \in Amounts, Mint(s, n) PROVE Inv'
  BY <1>2, MintKeepsInv
<1>3. ASSUME NEW s \in Signers, NEW p \in Proposals, UpdateParams(s, p) PROVE Inv'
  BY <1>3, UpdateParamsKeepsInv
<1>4. CASE OutOfGas
  BY <1>4, InvParts, FailKeepsInv DEF OutOfGas
<1>5. CASE EndTx
  <2>1. tx' \in TxType /\ tx'.status = "idle" /\ branch' = store' /\ today' = today
    BY <1>5, InvParts, TxSteps DEF EndTx
  <2>2. store' \in Store /\ Empty(store')
    BY <1>5, InvParts DEF EndTx
  <2> QED
    BY <2>1, <2>2, InvParts DEF Inv, TypeOK, ModuleAccountEmpty, Empty, TxType
<1>6. ASSUME NEW a \in Accounts \ {DistroModule}, NEW d \in Denoms, NEW n \in OtherAmounts,
             OtherMint(a, d, n) \/ OtherBurn(a, d, n)
      PROVE  Inv'
  BY <1>6, OtherModulesKeepInv
<1>7. ASSUME NEW a \in Origins, NEW b \in Accounts, NEW d \in Denoms, NEW n \in OtherAmounts,
             Send(a, b, d, n)
      PROVE  Inv'
  BY <1>7, SendKeepsInv
<1>8. ASSUME NEW t \in Dates, NextBlock(t) PROVE Inv'
  <2>1. today' \in Date /\ UNCHANGED <<store, branch, tx>>
    BY <1>8, DistroAssumption DEF NextBlock
  <2> QED
    BY <2>1, InvParts DEF Inv, TypeOK, ModuleAccountEmpty, Empty
<1>9. CASE UNCHANGED vars
  BY <1>9 DEF vars, Inv, TypeOK, ModuleAccountEmpty, Empty
<1> QED
  BY <1>1, <1>2, <1>3, <1>4, <1>5, <1>6, <1>7, <1>8, <1>9 DEF Next

\* Stores, transaction and date stay well formed through every message and
\* every failure; in particular no balance goes below zero.
THEOREM TypeCorrect == Spec => []TypeOK
<1>1. Inv => TypeOK
  BY DEF Inv
<1> QED
  BY <1>1, InvInit, InvNext, PTL DEF Spec

\* Mint moves everything it creates on to the receiving address: coins never
\* stay in the distro module account, for every set of accounts, denominations,
\* amounts and any number of messages in a transaction.
THEOREM ModuleAccountStaysEmpty == Spec => []ModuleAccountEmpty
<1>1. Inv => ModuleAccountEmpty
  BY DEF Inv
<1> QED
  BY <1>1, InvInit, InvNext, PTL DEF Spec

-----------------------------------------------------------------------------
\* Parameters that differ from the committed ones were put into the branch by
\* governance, and are valid.
GovInv ==
    tx.status = "running" /\ branch.params # store.params
        => tx.origin = Gov /\ Validate(branch.params)

\* Every step keeps GovInv.
LEMMA GovInvNext == Inv /\ GovInv /\ [Next]_vars => GovInv'
<1> SUFFICES ASSUME Inv, GovInv, [Next]_vars PROVE GovInv'
  OBVIOUS
<1>1. ASSUME NEW o \in Origins, BeginTx(o) PROVE GovInv'
  BY <1>1, InvParts DEF BeginTx, GovInv
<1>2. ASSUME NEW s \in Signers, NEW n \in Amounts, Mint(s, n) PROVE GovInv'
  <2> DEFINE p == branch.params
             m == MintCoins(branch, p.Denom, n)
             r == depositCoins(m, p, n)
  <2>1. CASE tx'.status # "running"
    BY <2>1 DEF GovInv
  <2>2. CASE tx'.status = "running"
    <3>1. tx.status = "running" /\ branch \in Store /\ Empty(branch) /\ n \in Word
      BY <1>2, InvParts, DistroAssumption DEF Mint, Running
    <3>2. mintAllowed(branch, s, n) /\ depositAccepted(m, p, n) /\ branch' = r
      BY <1>2, <2>2, InvParts DEF Mint, Fail, Continue, TxType
    <3>3. p.Denom \in Denoms
      BY <3>2 DEF mintAllowed
    <3>4. r.params = p
      BY <3>1, <3>2, <3>3, MintEffect
    <3>5. tx'.origin = tx.origin /\ store' = store
      BY <1>2, InvParts DEF Mint, Fail, Continue, TxType
    <3> QED
      BY <3>1, <3>2, <3>4, <3>5 DEF GovInv
  <2> QED
    BY <2>1, <2>2
<1>3. ASSUME NEW s \in Signers, NEW p \in Proposals, UpdateParams(s, p) PROVE GovInv'
  <2>1. CASE tx'.status # "running"
    BY <2>1 DEF GovInv
  <2>2. CASE tx'.status = "running"
    <3>1. /\ Running /\ SignedBy(s) /\ StringToBytes(s) /\ s.acct = Gov /\ Validate(p)
          /\ branch' = [branch EXCEPT !.params = p] /\ tx'.origin = tx.origin
      BY <1>3, <2>2, InvParts DEF UpdateParams, Fail, Continue, TxType
    <3>2. branch'.params = p
      BY <3>1, InvParts DEF Store
    <3> QED
      BY <3>1, <3>2 DEF GovInv, SignedBy
  <2> QED
    BY <2>1, <2>2
<1>4. CASE OutOfGas
  BY <1>4, InvParts, TxSteps DEF OutOfGas, Fail, GovInv
<1>5. CASE EndTx
  BY <1>5 DEF EndTx, Idle, GovInv
<1>6. ASSUME NEW a \in Accounts \ {DistroModule}, NEW d \in Denoms, NEW n \in OtherAmounts,
             OtherMint(a, d, n) \/ OtherBurn(a, d, n)
      PROVE  GovInv'
  BY <1>6 DEF OtherMint, OtherBurn, Write, GovInv
<1>7. ASSUME NEW a \in Origins, NEW b \in Accounts, NEW d \in Denoms, NEW n \in OtherAmounts,
             Send(a, b, d, n)
      PROVE  GovInv'
  BY <1>7 DEF Send, Write, GovInv
<1>8. ASSUME NEW t \in Dates, NextBlock(t) PROVE GovInv'
  BY <1>8 DEF NextBlock, GovInv
<1>9. CASE UNCHANGED vars
  BY <1>9 DEF vars, GovInv
<1> QED
  BY <1>1, <1>2, <1>3, <1>4, <1>5, <1>6, <1>7, <1>8, <1>9 DEF Next

\* Only the end of a transaction that ran through writes parameters.
LEMMA ParamsWrittenAtEnd ==
    ASSUME Inv, GovInv, [Next]_vars, store'.params # store.params
    PROVE  tx.origin = Gov /\ Validate(store'.params)
<1>1. store \in Store
  BY InvParts
<1>2. ASSUME NEW a \in Accounts \ {DistroModule}, NEW d \in Denoms, NEW n \in OtherAmounts,
             OtherMint(a, d, n) \/ OtherBurn(a, d, n)
      PROVE  FALSE
  BY <1>1, <1>2 DEF OtherMint, OtherBurn, Write, Store
<1>3. ASSUME NEW a \in Origins, NEW b \in Accounts, NEW d \in Denoms, NEW n \in OtherAmounts,
             Send(a, b, d, n)
      PROVE  FALSE
  BY <1>1, <1>3 DEF Send, SendCoins, Write, Store
<1>4. EndTx
  BY <1>2, <1>3 DEF Next, vars, BeginTx, Mint, UpdateParams, OutOfGas, NextBlock
<1>5. tx.status = "running" /\ store' = branch
  BY <1>4 DEF EndTx
<1> QED
  BY <1>5 DEF GovInv

\* Committed parameters change only by a transaction of the gov module, and
\* only to parameters that pass Params.Validate.
THEOREM OnlyGovChangesParams == Spec => ParamsChangeByGov
<1>1. Init => GovInv
  BY DEF Init, GovInv
<1>2. Inv /\ GovInv /\ [Next]_vars =>
          [store'.params # store.params => tx.origin = Gov /\ Validate(store'.params)]_vars
  BY ParamsWrittenAtEnd
<1> QED
  BY <1>1, <1>2, InvInit, InvNext, GovInvNext, PTL DEF Spec, ParamsChangeByGov

\* A step inside a running transaction that raises a supply is a mint that
\* passed all checks.
LEMMA MintingStepIsMint ==
    ASSUME Inv, [Next]_vars, NEW d \in Denoms, MintsCoins(d)
    PROVE  \E s \in Signers, n \in Amounts :
               /\ SignedBy(s) /\ mintAllowed(branch, s, n)
               /\ d = branch.params.Denom
               /\ branch'.supply[d] = branch.supply[d] + n
<1>1. /\ tx.status = "running" /\ tx'.status = "running"
      /\ branch'.supply[d] > branch.supply[d] /\ branch \in Store
  BY InvParts DEF MintsCoins
<1>2. branch.supply[d] \in Nat
  BY <1>1, StoreFields
<1>3. ASSUME NEW s \in Signers, NEW p \in Proposals, UpdateParams(s, p) PROVE FALSE
  BY <1>1, <1>2, <1>3 DEF UpdateParams, Fail, Continue, Store
<1>4. PICK s \in Signers, n \in Amounts : Mint(s, n)
  BY <1>1, <1>2, <1>3
     DEF Next, vars, BeginTx, OutOfGas, Fail, EndTx, Idle, OtherMint, OtherBurn, Send, Write,
         NextBlock
<1> DEFINE p == branch.params
           m == MintCoins(branch, p.Denom, n)
           r == depositCoins(m, p, n)
<1>5. /\ SignedBy(s) /\ mintAllowed(branch, s, n) /\ depositAccepted(m, p, n) /\ branch' = r
  BY <1>1, <1>4, InvParts DEF Mint, Fail, Continue, TxType
<1>6. p.Denom \in Denoms /\ Empty(branch) /\ n \in Word /\ n \in Nat
  BY <1>1, <1>5, InvParts, DistroAssumption, Constants DEF mintAllowed
<1>7. r.supply[d] = IF d = p.Denom THEN branch.supply[d] + n ELSE branch.supply[d]
  BY <1>1, <1>5, <1>6, MintEffect
<1>8. d = p.Denom
  BY <1>1, <1>2, <1>5, <1>7
<1> QED
  BY <1>5, <1>7, <1>8

\* A mint that passed the checks of Mint obeys the parameters in force.
LEMMA MintObeys ==
    ASSUME Inv, [Next]_vars, NEW d \in Denoms, MintsCoins(d)
    PROVE  ObeysParams(d)
<1> DEFINE p == branch.params
           start == p.DistributionStartDate.date
           months == p.MonthsInHalvingPeriod
<1>1. PICK s \in Signers, n \in Amounts :
               /\ SignedBy(s) /\ mintAllowed(branch, s, n)
               /\ d = p.Denom
               /\ branch'.supply[d] = branch.supply[d] + n
  BY MintingStepIsMint
<1>2. p.MintingAddress.acct = tx.origin
  BY <1>1 DEF mintAllowed, IsAuthorized, SignedBy
<1>3. branch'.supply[d] <= p.MaxSupply
  BY <1>1 DEF mintAllowed
<1>4. p \in Params /\ today \in Date
  BY InvParts, StoreFields
<1>5. start \in Date /\ months \in Word /\ months # 0 /\ ~Before(today, start)
  BY <1>1, <1>4 DEF mintAllowed, validateMintingLimits, Params, DateString
<1>6. months \in Nat \ {0}
  BY <1>5, Constants
<1> HIDE DEF start, months
<1>7. InPeriod(start, months, today, currentHalvingPeriod(start, today, months))
  BY <1>4, <1>5, <1>6, PeriodContainsTarget
<1> QED
  BY <1>1, <1>2, <1>3, <1>7 DEF ObeysParams, start, months

\* Every message that creates coins was sent by the minting address in force,
\* on or after the start date, and leaves the supply within MaxSupply.
THEOREM MintingObeysParams == Spec => MintsObeyParams
<1>1. Inv /\ [Next]_vars => [\A d \in Denoms : MintsCoins(d) => ObeysParams(d)]_vars
  BY MintObeys
<1> QED
  BY <1>1, InvInit, InvNext, PTL DEF Spec, MintsObeyParams

\* A mint that passed validateMintingLimits leaves the supply on or below the
\* release curve.
LEMMA MintFollows ==
    ASSUME Inv, [Next]_vars, NEW d \in Denoms, MintsCoins(d)
    PROVE  ObeysCurve(d)
<1> DEFINE p == branch.params
           start == p.DistributionStartDate.date
           months == p.MonthsInHalvingPeriod
           supply == p.MaxSupply
           period == currentHalvingPeriod(start, today, months)
<1>1. PICK s \in Signers, n \in Amounts :
               /\ SignedBy(s) /\ mintAllowed(branch, s, n)
               /\ d = p.Denom
               /\ branch'.supply[d] = branch.supply[d] + n
  BY MintingStepIsMint
<1>2. p \in Params /\ today \in Date /\ branch.supply[d] \in Nat /\ n \in Nat
  BY InvParts, StoreFields, DistroAssumption, Constants
<1>3. /\ start \in Date /\ months \in Word /\ months # 0 /\ supply \in Word
      /\ ~Before(today, start)
      /\ branch.supply[d] + n <= totalDistributable(supply, start, months, today)
  BY <1>1, <1>2 DEF mintAllowed, validateMintingLimits, Params, DateString
<1> HIDE DEF start, months, supply
<1>4. months \in Nat \ {0} /\ branch.supply[d] + n \in Nat
  <2>1. months \in Nat \ {0}
    BY <1>3, Constants
  <2> QED
    BY <1>2, <2>1
<1>5. PeriodFits(start, months, period) =>
          WithinCurve(branch.supply[d] + n, supply, start, months, today, period)
  <2> DEFINE x == branch.supply[d] + n
  <2>1. x \in Nat /\ x <= totalDistributable(supply, start, months, today)
    BY <1>3, <1>4
  <2> HIDE DEF x
  <2>2. PeriodFits(start, months, period) =>
            WithinCurve(x, supply, start, months, today, period)
    BY <1>2, <1>3, <1>4, <2>1, TotalWithinCurve
  <2> QED
    BY <2>2 DEF x
<1> QED
  BY <1>1, <1>5 DEF ObeysCurve, start, months, supply

\* No sequence of mints takes the supply above the exact release curve of the
\* day, as long as time.Time.Sub can measure the halving period.
THEOREM MintingFollowsCurve == Spec => MintsFollowCurve
<1>1. Inv /\ [Next]_vars => [\A d \in Denoms : MintsCoins(d) => ObeysCurve(d)]_vars
  BY MintFollows
<1> QED
  BY <1>1, InvInit, InvNext, PTL DEF Spec, MintsFollowCurve

-----------------------------------------------------------------------------
\* Committed parameters that pass the genesis checks go on to pass them:
\* what UpdateParams accepts, GenesisState.Validate accepts.
THEOREM ExportStaysValid == Spec => ExportValidates
<1>1. ASSUME Inv, GovInv, [Next]_vars, ValidateGenesis(store.params)
      PROVE  ValidateGenesis(store'.params)
  <2>1. CASE store'.params = store.params
    BY <1>1, <2>1
  <2>2. CASE store'.params # store.params
    BY <1>1, <2>2, ParamsWrittenAtEnd DEF Validate, ValidateGenesis, AccAddressFromBech32
  <2> QED
    BY <2>1, <2>2
<1>2. Inv /\ GovInv /\ [Next]_vars =>
          [ValidateGenesis(store.params) => ValidateGenesis(store'.params)]_vars
  BY <1>1
<1>3. Init => GovInv
  BY DEF Init, GovInv
<1> QED
  BY <1>2, <1>3, InvInit, InvNext, GovInvNext, PTL DEF Spec, ExportValidates

-----------------------------------------------------------------------------
(***************************************************************************)
(* Under parameters that stay the same Distro implements CappedIssuance,   *)
(* for every schedule whose products fit into uint64.                      *)
(***************************************************************************)

\* The parameters of the schedule.
Start == Schedule.DistributionStartDate.date
Months == Schedule.MonthsInHalvingPeriod

\* No product validateMintingLimits forms wraps around in uint64.
ScheduleFits == \A k \in Nat \ {0} : ProductsFit(Schedule.MaxSupply, Start, Months, k)

\* What Params.Validate says about the schedule.
LEMMA ScheduleTypes ==
    ASSUME FixedSchedule
    PROVE  /\ Start \in Date /\ Months \in Nat \ {0}
           /\ Schedule.MaxSupply \in Word /\ Schedule.Denom \in Denoms
<1>1. Schedule \in Params /\ Schedule.Denom \in Denoms /\ Months # 0
  BY DEF FixedSchedule, Validate, Months
<1>2. Schedule.MaxSupply \in Word /\ Months \in Word /\ Start \in Date
  BY <1>1 DEF Params, DateString, Start, Months
<1> QED
  BY <1>1, <1>2, Constants

\* The ceiling of a day is a number, and of a later day no smaller one.
LEMMA CeilingRises ==
    ASSUME FixedSchedule, NEW t \in Dates
    PROVE  /\ Ceiling[t] \in Nat
           /\ ScheduleFits =>
                  \A u \in Dates : Before(t, u) => Ceiling[u] \in Nat /\ Ceiling[t] <= Ceiling[u]
<1> DEFINE m == Schedule.MaxSupply
           total(u) == totalDistributable(m, Start, Months, u)
<1>0. m \in Word /\ Start \in Date /\ Months \in Nat \ {0} /\ Dates \subseteq Date
  BY ScheduleTypes, DistroAssumption
<1>1. ASSUME NEW u \in Dates PROVE Ceiling[u] = IF Before(u, Start) THEN 0 ELSE total(u)
  BY <1>1 DEF Ceiling, Start, Months
<1>2. ASSUME NEW u \in Dates, ~Before(u, Start) PROVE total(u) \in Nat
  <2>1. u \in Date
    BY <1>0
  <2> HIDE DEF m
  <2>2. totalDistributable(m, Start, Months, u) \in 0 .. m
    BY <1>0, <1>2, <2>1, TotalWithinSupply
  <2> QED
    BY <2>2
<1>3. ASSUME NEW u \in Dates PROVE Ceiling[u] \in Nat
  BY <1>1, <1>2, <1>3
<1>4. ASSUME ScheduleFits, NEW u \in Dates, Before(t, u) PROVE Ceiling[t] <= Ceiling[u]
  <2>1. t \in Date /\ u \in Date
    BY <1>0
  <2>2. CASE Before(t, Start)
    BY <1>1, <1>3, <1>4, <2>2
  <2>3. CASE ~Before(t, Start)
    <3>1. ~Before(u, Start)
      <4>1. ~Before(u, t)
        BY <1>4, <2>1, BeforeOrder
      <4> QED
        BY <1>0, <2>1, <2>3, <4>1, BeforeOrder
    <3>2. currentHalvingPeriod(Start, t, Months) \in Nat \ {0}
      BY <1>0, <2>1, <2>3, PeriodContainsTarget
    <3>3. ProductsFit(m, Start, Months, currentHalvingPeriod(Start, t, Months))
      BY <1>4, <3>2 DEF ScheduleFits
    <3>4. total(t) <= total(u)
      <4> HIDE DEF m
      <4> QED
        BY <1>0, <1>4, <2>1, <2>3, <3>3, TotalNeverShrinks
    <3>5. Ceiling[t] = total(t) /\ Ceiling[u] = total(u)
      BY <1>1, <2>3, <3>1
    <3> QED
      BY <3>4, <3>5
  <2> QED
    BY <2>2, <2>3
<1> QED
  BY <1>3, <1>4

\* Neither the store nor the branch of a transaction leaves the schedule, and
\* what a transaction has minted so far is within the ceiling of the day:
\* CappedIssuance sees it only when EndTx writes it back.
ScheduleInv ==
    /\ today \in Dates
    /\ store.params = Schedule /\ branch.params = Schedule
    /\ tx.status # "failed" =>
           \/ branch.supply[Schedule.Denom] = store.supply[Schedule.Denom]
           \/ /\ store.supply[Schedule.Denom] < branch.supply[Schedule.Denom]
              /\ branch.supply[Schedule.Denom] <= Ceiling[today]

\* With no proposals and no amounts for other modules, these are the steps.
LEMMA ScheduleNext ==
    ASSUME FixedSchedule, Next
    PROVE  \/ \E o \in Origins : BeginTx(o)
           \/ \E s \in Signers, n \in Amounts : Mint(s, n)
           \/ OutOfGas
           \/ EndTx
           \/ \E t \in Dates : NextBlock(t)
BY DEF FixedSchedule, Next

\* A mint keeps the branch within the ceiling of the day.
LEMMA MintKeepsSchedule ==
    ASSUME FixedSchedule, Inv, ScheduleInv, NEW s \in Signers, NEW n \in Amounts, Mint(s, n)
    PROVE  ScheduleInv'
<1> DEFINE d == Schedule.Denom
           m == MintCoins(branch, d, n)
           r == depositCoins(m, Schedule, n)
<1>1. /\ Running /\ UNCHANGED <<store, today>> /\ branch.params = Schedule
      /\ tx.status = "running" /\ tx \in TxType
  BY InvParts DEF Mint, Running, ScheduleInv
<1>2. branch \in Store /\ store \in Store /\ Empty(branch) /\ n \in Word /\ n \in Nat /\ d \in Denoms
  BY <1>1, InvParts, ScheduleTypes, DistroAssumption, Constants
<1>3. CASE Fail(branch)
  BY <1>1, <1>3, TxSteps DEF ScheduleInv, Fail
<1>4. m.params = Schedule
  BY <1>1, <1>2, MintCoinsEffect
<1>5. CASE Fail(m)
  <2>1. tx'.status = "failed" /\ branch' = m
    BY <1>1, <1>5, TxSteps DEF Fail
  <2> HIDE DEF m
  <2> QED
    BY <1>1, <1>4, <2>1 DEF ScheduleInv
<1>6. CASE mintAllowed(branch, s, n) /\ depositAccepted(m, Schedule, n) /\ Continue(r)
  <2>1. r.params = Schedule /\ r.supply[d] = branch.supply[d] + n
    BY <1>1, <1>2, <1>6, MintEffect
  <2>2. branch' = r
    BY <1>6 DEF Continue
  <2>3. /\ ~Before(today, Start)
        /\ branch.supply[d] + n <= totalDistributable(Schedule.MaxSupply, Start, Months, today)
    BY <1>1, <1>6 DEF mintAllowed, validateMintingLimits, Start, Months
  <2>4. Ceiling[today] = totalDistributable(Schedule.MaxSupply, Start, Months, today)
    BY <2>3 DEF ScheduleInv, Ceiling, Start, Months
  <2>5. branch.supply[d] \in Nat /\ store.supply[d] \in Nat
    BY <1>2, StoreFields
  <2>6. store.supply[d] <= branch.supply[d]
    BY <1>1, <2>5 DEF ScheduleInv
  <2> HIDE DEF r
  <2>7. /\ branch'.params = Schedule /\ today' = today /\ store' = store
        /\ branch'.supply[d] = branch.supply[d] + n
        /\ branch'.supply[d] <= Ceiling[today]
    BY <1>1, <2>1, <2>2, <2>3, <2>4
  <2>8. \/ branch'.supply[d] = store.supply[d]
        \/ store.supply[d] < branch'.supply[d] /\ branch'.supply[d] <= Ceiling[today]
    <3>1. CASE n = 0
      BY <1>1, <2>5, <2>7, <3>1 DEF ScheduleInv
    <3>2. CASE n > 0
      BY <1>2, <2>5, <2>6, <2>7, <3>2
    <3> QED
      BY <1>2, <3>1, <3>2
  <2> QED
    BY <2>7, <2>8 DEF ScheduleInv
<1> QED
  BY <1>1, <1>3, <1>5, <1>6 DEF Mint

\* The invariant holds in every state.
LEMMA ScheduleInvariant ==
    ASSUME FixedSchedule
    PROVE  Spec => [](Inv /\ ScheduleInv)
<1>1. Init => ScheduleInv
  BY DEF FixedSchedule, Init, ScheduleInv
<1>2. ASSUME Inv, ScheduleInv, [Next]_vars PROVE ScheduleInv'
  <2>0. tx \in TxType /\ (tx.status = "idle" => branch = store)
    BY <1>2, InvParts
  <2>1. CASE \E o \in Origins : BeginTx(o)
    BY <1>2, <2>1 DEF BeginTx, ScheduleInv
  <2>2. CASE \E s \in Signers, n \in Amounts : Mint(s, n)
    BY <1>2, <2>2, MintKeepsSchedule
  <2>3. CASE OutOfGas
    BY <1>2, <2>0, <2>3, TxSteps DEF OutOfGas, Fail, ScheduleInv
  <2>4. CASE EndTx
    BY <1>2, <2>4 DEF EndTx, ScheduleInv
  <2>5. CASE \E t \in Dates : NextBlock(t)
    BY <1>2, <2>0, <2>5 DEF NextBlock, ScheduleInv
  <2>6. CASE UNCHANGED vars
    BY <1>2, <2>6 DEF vars, ScheduleInv
  <2> QED
    BY <1>2, <2>1, <2>2, <2>3, <2>4, <2>5, <2>6, ScheduleNext
<1> QED
  BY <1>1, <1>2, InvInit, InvNext, PTL DEF Spec

\* While the parameters stay the same the distro module is CappedIssuance: the
\* committed supply only grows and no commit takes it above the ceiling of the
\* day, however many mints its transaction held, and a new day never lowers
\* the ceiling.
THEOREM ImplementsCappedIssuance ==
    ASSUME FixedSchedule, ScheduleFits
    PROVE  Spec => RefinesCappedIssuance
<1> DEFINE d == Schedule.Denom
           issued == store.supply[d]
           ceiling == Ceiling[today]
<1>1. ASSUME Inv, ScheduleInv PROVE issued \in Nat /\ ceiling \in Nat
  <2>1. store \in Store /\ d \in Denoms /\ today \in Dates
    BY <1>1, InvParts, ScheduleTypes DEF ScheduleInv
  <2> QED
    BY <2>1, StoreFields, CeilingRises
<1>2. Inv /\ ScheduleInv => Abstract!Init
  BY <1>1 DEF Abstract!Init
<1>3. ASSUME Inv, ScheduleInv, [Next]_vars
      PROVE  \/ issued' > issued /\ issued' <= ceiling /\ ceiling' = ceiling
             \/ ceiling' > ceiling /\ issued' = issued
             \/ issued' = issued /\ ceiling' = ceiling
  <2>0. issued \in Nat /\ ceiling \in Nat /\ branch.supply[d] \in Nat
    <3>1. branch \in Store /\ d \in Denoms
      BY <1>3, InvParts, ScheduleTypes
    <3> QED
      BY <1>1, <1>3, <3>1, StoreFields
  <2>1. CASE UNCHANGED <<store, today>>
    BY <2>1
  <2>2. CASE EndTx
    <3>1. CASE tx.status = "running" /\ store' = branch /\ today' = today
      <4>1. \/ branch.supply[d] = issued
            \/ issued < branch.supply[d] /\ branch.supply[d] <= ceiling
        BY <1>3, <3>1 DEF ScheduleInv
      <4>2. issued' = branch.supply[d] /\ ceiling' = ceiling
        BY <3>1
      <4> HIDE DEF issued, ceiling
      <4> QED
        BY <2>0, <4>1, <4>2
    <3>2. CASE store' = store /\ today' = today
      BY <3>2
    <3> QED
      BY <2>2, <3>1, <3>2 DEF EndTx
  <2>3. ASSUME NEW t \in Dates, NextBlock(t)
        PROVE  issued' = issued /\ (ceiling' > ceiling \/ ceiling' = ceiling)
    <3>1. store' = store /\ today' = t /\ Before(today, t) /\ today \in Dates
      BY <1>3, <2>3 DEF NextBlock, ScheduleInv
    <3>2. Ceiling[t] \in Nat /\ ceiling <= Ceiling[t]
      BY <3>1, CeilingRises
    <3>3. issued' = issued /\ ceiling' = Ceiling[t]
      BY <3>1
    <3> HIDE DEF issued, ceiling
    <3> QED
      BY <2>0, <3>2, <3>3
  <2> QED
    BY <1>3, <2>1, <2>2, <2>3, ScheduleNext DEF BeginTx, Mint, OutOfGas, vars
<1>4. Inv /\ ScheduleInv /\ [Next]_vars => [Abstract!Next]_(Abstract!vars)
  BY <1>3 DEF Abstract!Next, Abstract!Issue, Abstract!Raise, Abstract!vars
<1> QED
  BY <1>2, <1>4, ScheduleInvariant, PTL DEF Spec, RefinesCappedIssuance, Abstract!Spec


-----------------------------------------------------------------------------
(***************************************************************************)
(* The walk of ScheduleWalk for every choice of start dates and periods.   *)
(***************************************************************************)

\* The day after a date is a calendar date, and later.
LEMMA NextDayDate ==
    ASSUME NEW t \in Date
    PROVE  NextDay(t) \in Date /\ Before(t, NextDay(t))
<1>1. t.year \in Nat /\ t.month \in 1..12 /\ t.day \in 1..31
  BY DEF Date
<1>2. \A y, m : LastDay(y, m) \in 28..31
  BY LastDayRange
<1>3. CASE t.day < LastDay(t.year, t.month)
  <2>1. NextDay(t) = [year |-> t.year, month |-> t.month, day |-> t.day + 1]
    BY <1>3 DEF NextDay, Date
  <2>2. t.day + 1 \in 1..31 /\ t.day + 1 <= LastDay(t.year, t.month)
    BY <1>1, <1>2, <1>3
  <2> QED
    BY <1>1, <2>1, <2>2 DEF Date, Before
<1>4. CASE ~(t.day < LastDay(t.year, t.month)) /\ t.month < 12
  <2>1. NextDay(t) = [year |-> t.year, month |-> t.month + 1, day |-> 1]
    BY <1>4 DEF NextDay
  <2>2. t.month + 1 \in 1..12 /\ 1 <= LastDay(t.year, t.month + 1)
    BY <1>1, <1>2, <1>4
  <2> QED
    BY <1>1, <2>1, <2>2 DEF Date, Before
<1>5. CASE ~(t.day < LastDay(t.year, t.month)) /\ ~(t.month < 12)
  <2>1. NextDay(t) = [year |-> t.year + 1, month |-> 1, day |-> 1]
    BY <1>5 DEF NextDay
  <2>2. t.year + 1 \in Nat /\ 1 <= LastDay(t.year + 1, 1)
    BY <1>1, <1>2
  <2> QED
    BY <1>1, <2>1, <2>2 DEF Date, Before
<1> QED
  BY <1>3, <1>4, <1>5

\* The start date has been reached and what is released is what
\* validateMintingLimits computes: the facts about totalDistributable apply.
WalkInv ==
    /\ firstDay \in Date /\ blockDate \in Date /\ halvingMonths \in Nat \ {0}
    /\ maxSupply \in Word
    /\ ~Before(blockDate, firstDay)
    /\ released = totalDistributable(maxSupply, firstDay, halvingMonths, blockDate)

\* The start date is a day of the schedule.
LEMMA WalkBegins == WalkInit => WalkInv
BY WalkAssumption, BeforeOrder DEF WalkInit, WalkInv

\* Each step goes to the next calendar day and leaves the parameters alone.
LEMMA WalkStep ==
    ASSUME WalkInv, Tomorrow
    PROVE  /\ WalkInv'
           /\ Before(blockDate, blockDate')
           /\ UNCHANGED <<firstDay, maxSupply, halvingMonths>>
<1>1. /\ blockDate' = NextDay(blockDate) /\ UNCHANGED <<firstDay, maxSupply, halvingMonths>>
      /\ released' = totalDistributable(maxSupply, firstDay, halvingMonths, NextDay(blockDate))
  BY DEF Tomorrow
<1>2. NextDay(blockDate) \in Date /\ Before(blockDate, NextDay(blockDate))
  BY NextDayDate DEF WalkInv
<1>3. ~Before(NextDay(blockDate), blockDate)
  BY <1>2, BeforeOrder DEF WalkInv
<1>4. ~Before(NextDay(blockDate), firstDay)
  BY <1>2, <1>3, BeforeOrder DEF WalkInv
<1> QED
  BY <1>1, <1>2, <1>4 DEF WalkInv

\* The invariant holds on every day.
LEMMA WalkInvariant == WalkSpec => []WalkInv
<1>1. WalkInv /\ [Tomorrow]_walkVars => WalkInv'
  <2> SUFFICES ASSUME WalkInv, [Tomorrow]_walkVars PROVE WalkInv'
    OBVIOUS
  <2>1. CASE Tomorrow
    BY <2>1, WalkStep
  <2>2. CASE UNCHANGED walkVars
    BY <2>2 DEF WalkInv, walkVars
  <2> QED
    BY <2>1, <2>2
<1> QED
  BY <1>1, WalkBegins, PTL DEF WalkSpec

\* On every day of every schedule the month count and the period boundaries of
\* mint.go agree: PeriodsAgree holds for all start dates and period lengths.
THEOREM WalkPeriodsAgree == WalkSpec => []PeriodsAgree
<1>1. WalkInv => PeriodsAgree
  BY PeriodContainsTarget, ElapsedWithinPeriod DEF WalkInv, PeriodsAgree, Period
<1> QED
  BY <1>1, WalkInvariant, PTL

\* What validateMintingLimits allows is on every day between zero and
\* MaxSupply, whatever wraps around in uint64 on the way.
THEOREM WalkTypeCorrect == WalkSpec => []WalkTypeOK
<1>1. WalkInv => WalkTypeOK
  BY TotalWithinSupply DEF WalkInv, WalkTypeOK
<1> QED
  BY <1>1, WalkInvariant, PTL

\* The schedule of mint.go never runs ahead of the exact release curve, for
\* every start date, supply and period that time.Time.Sub can measure.
THEOREM WalkNeverAhead == WalkSpec => []NeverAheadOfCurve
<1>1. ASSUME WalkInv, PeriodFits(firstDay, halvingMonths, Period)
      PROVE  WithinCurve(released, maxSupply, firstDay, halvingMonths, blockDate, Period)
  <2>1. /\ released = totalDistributable(maxSupply, firstDay, halvingMonths, blockDate)
        /\ released \in 0 .. maxSupply
    BY <1>1, TotalWithinSupply DEF WalkInv
  <2>2. /\ released \in Nat
        /\ released <= totalDistributable(maxSupply, firstDay, halvingMonths, blockDate)
    BY <2>1
  <2> QED
    BY <1>1, <2>2, TotalWithinCurve DEF WalkInv, Period
<1>2. WalkInv => NeverAheadOfCurve
  BY <1>1 DEF NeverAheadOfCurve
<1> QED
  BY <1>2, WalkInvariant, PTL

\* It stays behind the curve by less than one token for each rounding step.
THEOREM WalkFollowsCurve == WalkSpec => []FollowsCurve
<1>1. WalkInv => FollowsCurve
  BY TotalFollowsCurve DEF WalkInv, FollowsCurve, Period
<1> QED
  BY <1>1, WalkInvariant, PTL

\* From one day to the next the schedule of mint.go takes nothing back.
THEOREM WalkNeverShrinks == WalkSpec => ReleasedNeverShrinks
<1>1. WalkInv /\ [Tomorrow]_walkVars =>
        [ProductsFit(maxSupply, firstDay, halvingMonths, Period) => released' >= released]_walkVars
  <2> SUFFICES ASSUME WalkInv, Tomorrow, ProductsFit(maxSupply, firstDay, halvingMonths, Period)
               PROVE  released' >= released
    OBVIOUS
  <2>1. /\ WalkInv' /\ Before(blockDate, blockDate')
        /\ UNCHANGED <<firstDay, maxSupply, halvingMonths>>
    BY WalkStep
  <2>2. /\ released = totalDistributable(maxSupply, firstDay, halvingMonths, blockDate)
        /\ released' = totalDistributable(maxSupply, firstDay, halvingMonths, blockDate')
    BY <2>1 DEF WalkInv
  <2>3. blockDate' \in Date
    BY <2>1 DEF WalkInv
  <2>4. released <= released'
    BY <2>1, <2>2, <2>3, TotalNeverShrinks DEF WalkInv, Period
  <2>5. released \in Nat /\ released' \in Nat
    <3>1. /\ totalDistributable(maxSupply, firstDay, halvingMonths, blockDate) \in 0 .. maxSupply
      BY TotalWithinSupply DEF WalkInv
    <3>2. /\ totalDistributable(maxSupply, firstDay, halvingMonths, blockDate') \in 0 .. maxSupply
      BY <2>1, <2>3, TotalWithinSupply DEF WalkInv
    <3> QED
      BY <2>2, <3>1, <3>2
  <2> QED
    BY <2>4, <2>5
<1> QED
  BY <1>1, WalkInvariant, PTL DEF WalkSpec, ReleasedNeverShrinks
=============================================================================
