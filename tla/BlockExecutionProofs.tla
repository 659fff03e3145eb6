------------------------ MODULE BlockExecutionProofs ------------------------
(***************************************************************************)
(* Block execution with crashes, for every set of nodes and accounts and   *)
(* every list of accounts to burn.                                         *)
(***************************************************************************)
EXTENDS BlockExecution, ArithmeticProofs, TLAPS

(***************************************************************************)
(* What a block does to a state, as functions of the state before it.      *)
(***************************************************************************)

\* The accounts the loop of applySecurityBurn has passed.
Cleared(next) == {securityBurnAccounts[i] : i \in 1 .. next - 1}

\* The burn runs in the block after this state.
BurnsNext(s) == s.height + 1 = SecurityBurnHeight

\* The state of BeginBlocker once the accounts in C have been burnt.
AfterBurn(s, C) ==
    [height      |-> s.height + 1,
     supply      |-> s.supply - SumFunctionOnSet(s.balance, C),
     balance     |-> [a \in Accounts |-> IF a \in C THEN 0 ELSE s.balance[a]],
     minGasPrice |-> IF s.height + 1 = MinGasPriceHotfixHeight THEN 0 ELSE s.minGasPrice]

AfterBegin(s) == AfterBurn(s, IF BurnsNext(s) THEN BurnSet ELSE {})

AfterModules(s) ==
    [s EXCEPT !.supply = @ + Inflation, !.balance[FeeCollector] = @ + Inflation]

Accepted(s, t, lk) ==
    t.to \notin ModuleAccounts /\ t.from \notin lk /\ t.amount <= s.balance[t.from]

AfterTxs(s, t, lk) ==
    IF Accepted(s, t, lk)
    THEN [s EXCEPT !.balance = Paid(@, t)]
    ELSE s

AfterBlock(s, t, lk) == AfterTxs(AfterModules(AfterBegin(s)), t, lk)

(***************************************************************************)
(* The invariant of one node: how its working state follows from its last  *)
(* commit, for every place in the block a crash can interrupt.             *)
(***************************************************************************)
BurnLocals == [next : 1 .. Len(securityBurnAccounts) + 1, balances : Nat]

Consistent(s) == s \in State /\ s.supply = Total(s.balance)

\* Between collecting the coins of an account and burning them.
Collected(old, new, b) ==
    LET acct == securityBurnAccounts[b.next]
        done == AfterBurn(old, Cleared(b.next) \cup {acct})
    IN  /\ BurnsNext(old) /\ b.next <= Len(securityBurnAccounts)
        /\ acct \notin Cleared(b.next) /\ b.balances = old.balance[acct]
        /\ new.height = done.height /\ new.minGasPrice = done.minGasPrice
        /\ new.supply = done.supply + b.balances
        /\ new.balance[EvmModule] = b.balances
        /\ \A a \in Accounts \ {EvmModule} : new.balance[a] = done.balance[a]

Progress(old, new, ph, b, blks, lk) ==
    /\ ph \in {"idle", "down"} => new = old
    /\ ph \notin {"idle", "down"} => old.height < Len(blks)
    /\ ph = "begin" => new = [old EXCEPT !.height = @ + 1] /\ b.next = 1
    /\ ph = "burn" => new = AfterBurn(old, IF BurnsNext(old) THEN Cleared(b.next) ELSE {})
    /\ ph = "collected" => Collected(old, new, b)
    /\ ph = "modules" => new = AfterBegin(old)
    /\ ph = "txs" => new = AfterModules(AfterBegin(old))
    /\ ph = "end" => new = AfterBlock(old, blks[old.height + 1], lk)

NodeInv(old, new, ph, b, blks, lk) ==
    /\ Consistent(old) /\ old.balance[EvmModule] = 0 /\ old.height <= Len(blks)
    /\ Consistent(new)
    /\ new.balance[EvmModule] = IF ph = "collected" THEN b.balances ELSE 0
    /\ ph \in Phases /\ b \in BurnLocals
    /\ Progress(old, new, ph, b, blks, lk)

Node(n) == NodeInv(committed[n], working[n], phase[n], burn[n], blocks, locked)

IInv == TypeOK /\ \A n \in Nodes : Node(n)

-----------------------------------------------------------------------------
(***************************************************************************)
(* Facts about the constants, the states and the sums.                     *)
(***************************************************************************)
\* What the proofs use of the assumption on the constants.
LEMMA BlockConstants ==
    /\ IsFiniteSet(Accounts) /\ EvmModule \in Accounts /\ FeeCollector \in Accounts
    /\ EvmModule # FeeCollector /\ Inflation \in Nat
    /\ Len(securityBurnAccounts) \in Nat
    /\ \A i \in 1 .. Len(securityBurnAccounts) :
           securityBurnAccounts[i] \in Accounts \ ModuleAccounts
    /\ EvmModule \in ModuleAccounts
BY BlockAssumption

\* The fields of a state.
LEMMA StateFields ==
    ASSUME NEW s \in State
    PROVE  /\ s.height \in Nat /\ s.supply \in Nat /\ s.minGasPrice \in Nat
           /\ s.balance \in [Accounts -> Nat]
           /\ \A a \in Accounts : s.balance[a] \in Nat
           /\ s = [height |-> s.height, supply |-> s.supply, balance |-> s.balance,
                   minGasPrice |-> s.minGasPrice]
BY DEF State

\* The accounts passed by the loop, at its start, from one to the next and at
\* its end.
LEMMA ClearedSteps ==
    ASSUME NEW next \in 1 .. Len(securityBurnAccounts) + 1
    PROVE  /\ Cleared(1) = {}
           /\ Cleared(next) \subseteq Accounts \ ModuleAccounts
           /\ IsFiniteSet(Cleared(next))
           /\ next <= Len(securityBurnAccounts) =>
                  Cleared(next + 1) = Cleared(next) \cup {securityBurnAccounts[next]}
           /\ next = Len(securityBurnAccounts) + 1 => Cleared(next) = BurnSet
<1> DEFINE L == Len(securityBurnAccounts)
<1>0. /\ L \in Nat /\ DOMAIN securityBurnAccounts = 1 .. L
      /\ \A i \in 1 .. L : securityBurnAccounts[i] \in Accounts \ ModuleAccounts
  BY BlockAssumption
<1>1. Cleared(1) = {}
  BY DEF Cleared
<1>2. Cleared(next) \subseteq Accounts \ ModuleAccounts
  BY <1>0 DEF Cleared
<1>3. IsFiniteSet(Cleared(next))
  BY <1>2, BlockConstants, FS_Subset
<1>4. ASSUME next <= L PROVE Cleared(next + 1) = Cleared(next) \cup {securityBurnAccounts[next]}
  <2>1. 1 .. (next + 1) - 1 = (1 .. next - 1) \cup {next}
    BY <1>0, <1>4
  <2> QED
    BY <2>1, Zenon DEF Cleared
<1>5. ASSUME next = L + 1 PROVE Cleared(next) = BurnSet
  <2>1. 1 .. next - 1 = 1 .. L
    BY <1>0, <1>5
  <2> QED
    BY <1>0, <2>1, Zenon DEF Cleared, BurnSet, Range
<1> QED
  BY <1>1, <1>2, <1>3, <1>4, <1>5

\* One more account in a sum.
LEMMA SumAdd ==
    ASSUME NEW f \in [Accounts -> Nat], NEW C \in SUBSET Accounts, NEW a \in Accounts, a \notin C
    PROVE  /\ SumFunctionOnSet(f, C \cup {a}) = SumFunctionOnSet(f, C) + f[a]
           /\ SumFunctionOnSet(f, C) \in Nat
<1>1. IsFiniteSet(C) /\ IsFiniteSet(C \cup {a})
  BY BlockConstants, FS_Subset
<1>2. \A x \in C : f[x] \in Nat
  OBVIOUS
<1>3. SumFunctionOnSet(f, C) \in Nat
  BY <1>1, <1>2, SumType
<1> DEFINE D == C \cup {a}
<1>4. a \in D /\ D \ {a} = C /\ \A x \in D : f[x] \in Int
  OBVIOUS
<1> HIDE DEF D
<1>5. SumFunctionOnSet(f, D) = f[a] + SumFunctionOnSet(f, D \ {a})
  BY <1>1, <1>4, SumRemove DEF D
<1>6. SumFunctionOnSet(f, D) = f[a] + SumFunctionOnSet(f, C) /\ f[a] \in Nat
  BY <1>4, <1>5
<1>7. SumFunctionOnSet(f, D) = SumFunctionOnSet(f, C) + f[a]
  BY <1>3, <1>6
<1> QED
  BY <1>3, <1>7 DEF D

\* The sum over no account.
LEMMA SumEmpty ==
    ASSUME NEW f
    PROVE  SumFunctionOnSet(f, {}) = 0
BY SumRecursion, FS_EmptySet

\* A change of one balance changes the total by the same amount.
LEMMA TotalUpdate ==
    ASSUME NEW f \in [Accounts -> Nat], NEW g \in [Accounts -> Nat], NEW a \in Accounts,
           \A x \in Accounts \ {a} : g[x] = f[x]
    PROVE  Total(g) = Total(f) - f[a] + g[a] /\ Total(f) \in Nat /\ f[a] <= Total(f)
<1>1. \A x \in Accounts : f[x] \in Int /\ g[x] \in Int
  OBVIOUS
<1>2. SumFunctionOnSet(g, Accounts) = SumFunctionOnSet(f, Accounts) - f[a] + g[a]
  BY <1>1, BlockConstants, SumUpdate
<1>3. \A x \in Accounts : f[x] \in Nat
  OBVIOUS
<1>4. SumFunctionOnSet(f, Accounts) \in Nat
  BY <1>3, BlockConstants, SumType
<1>5. f[a] <= SumFunctionOnSet(f, Accounts)
  BY <1>3, BlockConstants, SumBound
<1> QED
  BY <1>2, <1>4, <1>5 DEF Total

\* A transfer leaves the total alone.
LEMMA TotalMove ==
    ASSUME NEW f \in [Accounts -> Nat], NEW g \in [Accounts -> Nat], NEW a \in Accounts,
           NEW b \in Accounts, a # b, g[a] + g[b] = f[a] + f[b],
           \A x \in Accounts \ {a, b} : g[x] = f[x]
    PROVE  Total(g) = Total(f)
<1> DEFINE h == [f EXCEPT ![a] = g[a]]
<1>1. /\ h \in [Accounts -> Nat] /\ h[a] = g[a] /\ h[b] = f[b]
      /\ \A x \in Accounts \ {a} : h[x] = f[x]
  OBVIOUS
<1>2. \A x \in Accounts \ {b} : g[x] = h[x]
  OBVIOUS
<1> HIDE DEF h
<1>3. Total(h) = Total(f) - f[a] + h[a] /\ Total(f) \in Nat
  BY <1>1, TotalUpdate
<1>4. Total(g) = Total(h) - h[b] + g[b]
  BY <1>1, <1>2, TotalUpdate
<1>5. f[a] \in Nat /\ f[b] \in Nat /\ g[a] \in Nat /\ g[b] \in Nat
  OBVIOUS
<1> QED
  BY <1>1, <1>3, <1>4, <1>5

\* Sending everything an account has to the empty x/vm module account.
LEMMA ToEvmModuleEffect ==
    ASSUME NEW f \in [Accounts -> Nat], NEW a \in Accounts, a # EvmModule, f[EvmModule] = 0
    PROVE  LET g == ToEvmModule(f, a)
           IN  /\ g \in [Accounts -> Nat] /\ g[a] = 0 /\ g[EvmModule] = f[a]
               /\ \A x \in Accounts \ {a, EvmModule} : g[x] = f[x]
               /\ Total(g) = Total(f)
<1> DEFINE g == ToEvmModule(f, a)
           n == f[a]
<1>1. EvmModule \in Accounts /\ n \in Nat
  BY BlockConstants
<1>2. /\ g \in [Accounts -> Nat]
      /\ \A x \in Accounts : g[x] = IF x = a THEN 0 ELSE IF x = EvmModule THEN n ELSE f[x]
  BY <1>1 DEF ToEvmModule
<1> HIDE DEF g
<1>3. Total(g) = Total(f)
  <2>1. g[a] + g[EvmModule] = f[a] + f[EvmModule]
    BY <1>1, <1>2
  <2>2. \A x \in Accounts \ {a, EvmModule} : g[x] = f[x]
    BY <1>2
  <2> QED
    BY <1>1, <1>2, <2>1, <2>2, TotalMove
<1>4. g[a] = 0 /\ g[EvmModule] = n /\ \A x \in Accounts \ {a, EvmModule} : g[x] = f[x]
  BY <1>1, <1>2
<1> QED
  BY <1>2, <1>3, <1>4 DEF g, n

-----------------------------------------------------------------------------
(***************************************************************************)
(* The steps of one node preserve its invariant.                           *)
(***************************************************************************)

\* The fields of the state that AfterBurn describes.
BurnFields(s, w, C) ==
    /\ w.height = s.height + 1
    /\ w.supply = s.supply - SumFunctionOnSet(s.balance, C)
    /\ \A a \in Accounts : w.balance[a] = IF a \in C THEN 0 ELSE s.balance[a]
    /\ w.minGasPrice = IF s.height + 1 = MinGasPriceHotfixHeight THEN 0 ELSE s.minGasPrice

\* They determine it.
LEMMA IsAfterBurn ==
    ASSUME NEW s \in State, NEW w \in State, NEW C, BurnFields(s, w, C)
    PROVE  w = AfterBurn(s, C)
<1>1. w.balance = [a \in Accounts |-> IF a \in C THEN 0 ELSE s.balance[a]]
  BY StateFields DEF BurnFields
<1> QED
  BY <1>1, StateFields DEF AfterBurn, BurnFields

\* A block starts from the committed state.
LEMMA StartStep ==
    ASSUME NEW old, NEW new, NEW b, NEW blks \in Seq(Transfers), NEW lk,
           NodeInv(old, new, "idle", b, blks, lk), old.height < Len(blks)
    PROVE  NodeInv(old, [old EXCEPT !.height = @ + 1], "begin", NoBurn, blks, lk)
<1> DEFINE w == [old EXCEPT !.height = @ + 1]
<1>1. Consistent(old) /\ old \in State /\ old.balance[EvmModule] = 0
  BY DEF NodeInv, Consistent
<1>2. w \in State /\ w.supply = old.supply /\ w.balance = old.balance
  BY <1>1, SMTT(60) DEF State
<1>3. NoBurn \in BurnLocals /\ NoBurn.next = 1 /\ "begin" \in Phases
  BY BlockConstants DEF NoBurn, BurnLocals, Phases
<1>4. Consistent(w) /\ w.balance[EvmModule] = 0
  BY <1>1, <1>2 DEF Consistent
<1>5. Progress(old, w, "begin", NoBurn, blks, lk)
  BY <1>3 DEF Progress
<1>6. old.height <= Len(blks)
  BY DEF NodeInv
<1> HIDE DEF w
<1>7. NodeInv(old, w, "begin", NoBurn, blks, lk)
  BY <1>1, <1>3, <1>4, <1>5, <1>6 DEF NodeInv
<1> QED
  BY <1>7 DEF w

\* The hotfix.
LEMMA HotfixStep ==
    ASSUME NEW old, NEW new, NEW b, NEW blks \in Seq(Transfers), NEW lk,
           NodeInv(old, new, "begin", b, blks, lk),
           NEW w, w = IF new.height = MinGasPriceHotfixHeight
                      THEN [new EXCEPT !.minGasPrice = 0] ELSE new
    PROVE  NodeInv(old, w, "burn", b, blks, lk)
<1>1. /\ old \in State /\ new \in State /\ Consistent(old) /\ Consistent(new)
      /\ old.balance[EvmModule] = 0 /\ b \in BurnLocals /\ old.height <= Len(blks)
      /\ new.balance[EvmModule] = 0
  BY DEF NodeInv, Consistent
<1>2. new = [old EXCEPT !.height = @ + 1] /\ b.next = 1 /\ old.height < Len(blks)
  BY DEF NodeInv, Progress
<1>3. new.height = old.height + 1 /\ new.supply = old.supply /\ new.balance = old.balance
      /\ new.minGasPrice = old.minGasPrice
  BY <1>1, <1>2 DEF State
<1>4. /\ w \in State /\ w.height = new.height /\ w.supply = new.supply
      /\ w.balance = new.balance
      /\ w.minGasPrice = IF new.height = MinGasPriceHotfixHeight THEN 0 ELSE new.minGasPrice
  <2>1. CASE new.height = MinGasPriceHotfixHeight
    BY <1>1, <2>1 DEF State
  <2>2. CASE new.height # MinGasPriceHotfixHeight
    BY <1>1, <2>2 DEF State
  <2> QED
    BY <2>1, <2>2
<1>5. Consistent(w) /\ w.balance[EvmModule] = 0
  BY <1>1, <1>4 DEF Consistent
<1> DEFINE C == IF BurnsNext(old) THEN Cleared(b.next) ELSE {}
<1>6. C = {}
  BY <1>2 DEF Cleared
<1> HIDE DEF C
<1>7. w = AfterBurn(old, C)
  <2>1. old.supply \in Nat /\ SumFunctionOnSet(old.balance, C) = 0
    BY <1>1, <1>6, SumEmpty, StateFields
  <2>2. w.supply = old.supply - SumFunctionOnSet(old.balance, C)
    BY <1>3, <1>4, <2>1
  <2>3. \A a \in Accounts : w.balance[a] = IF a \in C THEN 0 ELSE old.balance[a]
    BY <1>3, <1>4, <1>6
  <2>4. w.height = old.height + 1
    BY <1>3, <1>4
  <2>5. w.minGasPrice = IF old.height + 1 = MinGasPriceHotfixHeight THEN 0 ELSE old.minGasPrice
    BY <1>3, <1>4
  <2>6. old \in State /\ w \in State
    BY <1>1, <1>4
  <2> QED
    <3>1. BurnFields(old, w, C)
      BY <2>2, <2>3, <2>4, <2>5, Zenon DEF BurnFields
    <3> QED
      BY <2>6, <3>1, IsAfterBurn, Zenon
<1>8. Progress(old, w, "burn", b, blks, lk)
  BY <1>2, <1>7 DEF Progress, C
<1> QED
  BY <1>1, <1>5, <1>8 DEF NodeInv, Phases

\* The accounts in C have been burnt.
Burned(old, new, C) ==
    /\ new = AfterBurn(old, C)
    /\ new.supply = old.supply - SumFunctionOnSet(old.balance, C)
    /\ \A a \in Accounts : new.balance[a] = IF a \in C THEN 0 ELSE old.balance[a]

\* What the loop of applySecurityBurn finds.
LEMMA BurnPhase ==
    ASSUME NEW old, NEW new, NEW b, NEW blks \in Seq(Transfers), NEW lk,
           NodeInv(old, new, "burn", b, blks, lk)
    PROVE  /\ old \in State /\ new \in State /\ Consistent(old) /\ Consistent(new)
           /\ old.balance[EvmModule] = 0 /\ new.balance[EvmModule] = 0
           /\ old.height < Len(blks) /\ old.height <= Len(blks)
           /\ b \in BurnLocals /\ b.next \in 1 .. Len(securityBurnAccounts) + 1
           /\ new.height = old.height + 1
           /\ BurnsNext(old) <=> new.height = SecurityBurnHeight
           /\ new.minGasPrice = IF old.height + 1 = MinGasPriceHotfixHeight
                                THEN 0 ELSE old.minGasPrice
           /\ BurnsNext(old) => Burned(old, new, Cleared(b.next))
           /\ ~BurnsNext(old) => Burned(old, new, {})
<1>1. /\ old \in State /\ new \in State /\ Consistent(old) /\ Consistent(new)
      /\ old.balance[EvmModule] = 0 /\ new.balance[EvmModule] = 0
      /\ old.height < Len(blks) /\ old.height <= Len(blks)
      /\ b \in BurnLocals
  BY DEF NodeInv, Consistent, Progress
<1>2. b.next \in 1 .. Len(securityBurnAccounts) + 1
  BY <1>1 DEF BurnLocals
<1> DEFINE C == IF BurnsNext(old) THEN Cleared(b.next) ELSE {}
<1>3. new = AfterBurn(old, C)
  BY DEF NodeInv, Progress
<1> HIDE DEF C
<1>4. /\ new.height = old.height + 1
      /\ new.supply = old.supply - SumFunctionOnSet(old.balance, C)
      /\ new.minGasPrice = IF old.height + 1 = MinGasPriceHotfixHeight
                           THEN 0 ELSE old.minGasPrice
      /\ \A a \in Accounts : new.balance[a] = IF a \in C THEN 0 ELSE old.balance[a]
  BY <1>3 DEF AfterBurn
<1>5. BurnsNext(old) <=> new.height = SecurityBurnHeight
  BY <1>4 DEF BurnsNext
<1>6. Burned(old, new, C)
  BY <1>3, <1>4 DEF Burned
<1>7. /\ BurnsNext(old) => Burned(old, new, Cleared(b.next))
      /\ ~BurnsNext(old) => Burned(old, new, {})
  BY <1>6 DEF C
<1> QED
  BY <1>1, <1>2, <1>4, <1>5, <1>7

\* An account without coins is skipped.
LEMMA SkipStep ==
    ASSUME NEW old, NEW new, NEW b, NEW blks \in Seq(Transfers), NEW lk,
           NodeInv(old, new, "burn", b, blks, lk),
           new.height = SecurityBurnHeight, b.next <= Len(securityBurnAccounts),
           new.balance[securityBurnAccounts[b.next]] = 0
    PROVE  NodeInv(old, new, "burn", [b EXCEPT !.next = @ + 1], blks, lk)
<1> DEFINE acct == securityBurnAccounts[b.next]
           C == Cleared(b.next)
           D == Cleared(b.next + 1)
           c == [b EXCEPT !.next = @ + 1]
           f == old.balance
<1>1. /\ old \in State /\ new \in State /\ Consistent(old) /\ Consistent(new)
      /\ old.balance[EvmModule] = 0 /\ new.balance[EvmModule] = 0
      /\ old.height < Len(blks) /\ old.height <= Len(blks)
      /\ b \in BurnLocals /\ b.next \in 1 .. Len(securityBurnAccounts) + 1
      /\ BurnsNext(old) /\ new.height = old.height + 1
      /\ new.minGasPrice = IF old.height + 1 = MinGasPriceHotfixHeight
                           THEN 0 ELSE old.minGasPrice
      /\ new.supply = old.supply - SumFunctionOnSet(old.balance, C)
      /\ \A a \in Accounts : new.balance[a] = IF a \in C THEN 0 ELSE old.balance[a]
  <2>1. /\ old \in State /\ new \in State /\ Consistent(old) /\ Consistent(new)
        /\ old.balance[EvmModule] = 0 /\ new.balance[EvmModule] = 0
        /\ old.height < Len(blks) /\ old.height <= Len(blks)
        /\ b \in BurnLocals /\ b.next \in 1 .. Len(securityBurnAccounts) + 1
        /\ BurnsNext(old) /\ new.height = old.height + 1
        /\ new.minGasPrice = IF old.height + 1 = MinGasPriceHotfixHeight
                             THEN 0 ELSE old.minGasPrice
        /\ Burned(old, new, C)
    BY BurnPhase
  <2> QED
    BY <2>1 DEF Burned
<1>2. c \in BurnLocals /\ c.next = b.next + 1
  BY <1>1, BlockConstants, SMTT(60) DEF BurnLocals
<1>3. D = C \cup {acct} /\ acct \in Accounts /\ C \subseteq Accounts
  BY <1>1, ClearedSteps, BlockConstants
<1>4. f \in [Accounts -> Nat] /\ old.supply \in Nat
  BY <1>1, StateFields
<1> HIDE DEF C, D, acct, f
<1>5. SumFunctionOnSet(f, D) = SumFunctionOnSet(f, C)
  <2>1. CASE acct \in C
    BY <1>3, <2>1
  <2>2. CASE acct \notin C
    <3>1. f[acct] = 0
      BY <1>1, <1>3, <2>2 DEF acct, f
    <3>2. SumFunctionOnSet(f, D) = SumFunctionOnSet(f, C) + f[acct]
          /\ SumFunctionOnSet(f, C) \in Nat
      BY <1>3, <1>4, <2>2, SumAdd
    <3> QED
      BY <3>1, <3>2
  <2> QED
    BY <2>1, <2>2
<1>6. \A a \in Accounts : new.balance[a] = IF a \in D THEN 0 ELSE old.balance[a]
  BY <1>1, <1>3 DEF acct
<1>7. new.supply = old.supply - SumFunctionOnSet(old.balance, D)
  BY <1>1, <1>5 DEF f
<1>8. new = AfterBurn(old, D)
  <2>1. old \in State /\ new \in State /\ new.height = old.height + 1
    BY <1>1
  <2>2. new.minGasPrice = IF old.height + 1 = MinGasPriceHotfixHeight
                          THEN 0 ELSE old.minGasPrice
    BY <1>1
  <2> QED
    <3>1. BurnFields(old, new, D)
      BY <1>6, <1>7, <2>1, <2>2, Zenon DEF BurnFields
    <3> QED
      BY <2>1, <3>1, IsAfterBurn, Zenon
<1> HIDE DEF c
<1>9. Progress(old, new, "burn", c, blks, lk)
  BY <1>1, <1>2, <1>8 DEF Progress, D
<1>10. NodeInv(old, new, "burn", c, blks, lk)
  BY <1>1, <1>2, <1>9 DEF NodeInv, Phases
<1> QED
  BY <1>10 DEF c

\* The coins of an account move to the x/vm module account.
LEMMA CollectStep ==
    ASSUME NEW old, NEW new, NEW b, NEW blks \in Seq(Transfers), NEW lk,
           NodeInv(old, new, "burn", b, blks, lk),
           new.height = SecurityBurnHeight, b.next <= Len(securityBurnAccounts),
           NEW acct, acct = securityBurnAccounts[b.next],
           NEW amount, amount = new.balance[acct], amount # 0,
           NEW w, w = [new EXCEPT !.balance = ToEvmModule(@, acct)]
    PROVE  NodeInv(old, w, "collected", [b EXCEPT !.balances = amount], blks, lk)
<1> DEFINE C == Cleared(b.next)
           D == C \cup {acct}
           c == [b EXCEPT !.balances = amount]
           f == new.balance
           g == ToEvmModule(f, acct)
<1>1. /\ old \in State /\ new \in State /\ Consistent(old) /\ Consistent(new)
      /\ old.balance[EvmModule] = 0 /\ new.balance[EvmModule] = 0
      /\ old.height < Len(blks) /\ old.height <= Len(blks)
      /\ b \in BurnLocals /\ b.next \in 1 .. Len(securityBurnAccounts) + 1
      /\ BurnsNext(old) /\ new.height = old.height + 1
      /\ new.minGasPrice = IF old.height + 1 = MinGasPriceHotfixHeight
                           THEN 0 ELSE old.minGasPrice
      /\ new.supply = old.supply - SumFunctionOnSet(old.balance, C)
      /\ \A a \in Accounts : new.balance[a] = IF a \in C THEN 0 ELSE old.balance[a]
  <2>1. /\ old \in State /\ new \in State /\ Consistent(old) /\ Consistent(new)
        /\ old.balance[EvmModule] = 0 /\ new.balance[EvmModule] = 0
        /\ old.height < Len(blks) /\ old.height <= Len(blks)
        /\ b \in BurnLocals /\ b.next \in 1 .. Len(securityBurnAccounts) + 1
        /\ BurnsNext(old) /\ new.height = old.height + 1
        /\ new.minGasPrice = IF old.height + 1 = MinGasPriceHotfixHeight
                             THEN 0 ELSE old.minGasPrice
        /\ Burned(old, new, C)
    BY BurnPhase
  <2> QED
    BY <2>1 DEF Burned
<1>2. /\ acct \in Accounts /\ acct # EvmModule /\ EvmModule \in Accounts
      /\ C \subseteq Accounts /\ EvmModule \notin C
  BY <1>1, ClearedSteps, BlockConstants
<1>3. /\ f \in [Accounts -> Nat] /\ amount \in Nat
      /\ old.balance \in [Accounts -> Nat] /\ old.supply \in Nat /\ new.supply \in Nat
  BY <1>1, <1>2, StateFields
<1>4. acct \notin C /\ amount = old.balance[acct]
  BY <1>1, <1>2
<1>5. /\ g \in [Accounts -> Nat] /\ g[acct] = 0 /\ g[EvmModule] = amount
      /\ \A a \in Accounts \ {acct, EvmModule} : g[a] = f[a]
      /\ Total(g) = Total(f)
  <2> HIDE DEF f
  <2>1. f[EvmModule] = 0 /\ f[acct] = amount /\ f \in [Accounts -> Nat]
    BY <1>1, <1>3 DEF f
  <2> QED
    BY <1>2, <2>1, ToEvmModuleEffect
<1>6. /\ w \in State /\ w.balance = g /\ w.supply = new.supply /\ w.height = new.height
      /\ w.minGasPrice = new.minGasPrice
  <2>1. w = [new EXCEPT !.balance = g]
    BY Zenon
  <2> HIDE DEF g
  <2> QED
    BY <1>1, <1>5, <2>1 DEF State
<1> HIDE DEF C, D, f, g
<1>8. Consistent(w) /\ w.balance[EvmModule] = amount
  BY <1>1, <1>5, <1>6 DEF Consistent, f
<1>9. c \in BurnLocals /\ c.next = b.next /\ c.balances = amount
  BY <1>1, <1>3 DEF BurnLocals
<1>10. SumFunctionOnSet(old.balance, D) = SumFunctionOnSet(old.balance, C) + amount
       /\ SumFunctionOnSet(old.balance, C) \in Nat
  <2> DEFINE h == old.balance
  <2>1. h \in [Accounts -> Nat] /\ C \in SUBSET Accounts
    BY <1>2, <1>3
  <2> HIDE DEF h
  <2>2. SumFunctionOnSet(h, C \cup {acct}) = SumFunctionOnSet(h, C) + h[acct]
        /\ SumFunctionOnSet(h, C) \in Nat
    BY <1>2, <1>4, <2>1, SumAdd
  <2> QED
    BY <1>4, <2>2 DEF h, D
<1>11. w.supply = (old.supply - SumFunctionOnSet(old.balance, D)) + amount
  <2>1. w.supply = old.supply - SumFunctionOnSet(old.balance, C)
    BY <1>1, <1>6
  <2> QED
    BY <1>3, <1>10, <2>1
<1>12. \A a \in Accounts \ {EvmModule} : w.balance[a] = IF a \in D THEN 0 ELSE old.balance[a]
  BY <1>1, <1>5, <1>6 DEF D, f
<1> HIDE DEF c
<1>13. Collected(old, w, c)
  <2> DEFINE done == AfterBurn(old, D)
  <2>1. /\ done.height = old.height + 1
        /\ done.supply = old.supply - SumFunctionOnSet(old.balance, D)
        /\ done.minGasPrice = IF old.height + 1 = MinGasPriceHotfixHeight
                              THEN 0 ELSE old.minGasPrice
        /\ \A a \in Accounts : done.balance[a] = IF a \in D THEN 0 ELSE old.balance[a]
    BY DEF AfterBurn
  <2> HIDE DEF done
  <2>2. /\ w.height = done.height /\ w.minGasPrice = done.minGasPrice
        /\ w.supply = done.supply + c.balances
        /\ \A a \in Accounts \ {EvmModule} : w.balance[a] = done.balance[a]
    BY <1>1, <1>6, <1>9, <1>11, <1>12, <2>1
  <2>3. /\ acct = securityBurnAccounts[c.next] /\ C = Cleared(c.next)
        /\ c.next <= Len(securityBurnAccounts) /\ c.balances = old.balance[acct]
        /\ w.balance[EvmModule] = c.balances
    BY <1>4, <1>8, <1>9 DEF C
  <2>4. done = AfterBurn(old, Cleared(c.next) \cup {securityBurnAccounts[c.next]})
    BY <2>3 DEF done, D
  <2>5. securityBurnAccounts[c.next] \notin Cleared(c.next)
    BY <1>4, <2>3
  <2> QED
    BY <1>1, <2>2, <2>3, <2>4, <2>5 DEF Collected
<1>14. Progress(old, w, "collected", c, blks, lk)
  BY <1>1, <1>13 DEF Progress
<1>15. NodeInv(old, w, "collected", c, blks, lk)
  BY <1>1, <1>8, <1>9, <1>14 DEF NodeInv, Phases
<1> QED
  BY <1>15 DEF c

\* BurnCoins takes the collected coins out of existence.
LEMMA BurnStep ==
    ASSUME NEW old, NEW new, NEW b, NEW blks \in Seq(Transfers), NEW lk,
           NodeInv(old, new, "collected", b, blks, lk)
    PROVE  NodeInv(old, [new EXCEPT !.supply = @ - b.balances,
                                    !.balance[EvmModule] = @ - b.balances],
                   "burn", [b EXCEPT !.next = @ + 1], blks, lk)
<1> DEFINE w == [new EXCEPT !.supply = @ - b.balances, !.balance[EvmModule] = @ - b.balances]
           c == [b EXCEPT !.next = @ + 1]
           n == b.balances
           acct == securityBurnAccounts[b.next]
           D == Cleared(b.next) \cup {acct}
           f == new.balance
           g == [f EXCEPT ![EvmModule] = 0]
<1>1. /\ old \in State /\ new \in State /\ Consistent(old) /\ Consistent(new)
      /\ old.balance[EvmModule] = 0 /\ f[EvmModule] = n
      /\ old.height < Len(blks) /\ old.height <= Len(blks)
      /\ b \in BurnLocals /\ BurnsNext(old) /\ b.next <= Len(securityBurnAccounts)
  BY DEF NodeInv, Consistent, Progress, Collected
<1>2. b.next \in 1 .. Len(securityBurnAccounts) + 1 /\ n \in Nat
  BY <1>1 DEF BurnLocals
<1>3. c \in BurnLocals /\ c.next = b.next + 1
  BY <1>1, <1>2, BlockConstants DEF BurnLocals
<1>4. /\ EvmModule \in Accounts /\ EvmModule \notin D /\ D = Cleared(b.next + 1)
  <2> HIDE DEF acct
  <2>1. /\ Cleared(b.next) \subseteq Accounts \ ModuleAccounts
        /\ b.next <= Len(securityBurnAccounts) =>
               Cleared(b.next + 1) = Cleared(b.next) \cup {securityBurnAccounts[b.next]}
    BY <1>2, ClearedSteps
  <2>2. Cleared(b.next + 1) = D /\ acct \in Accounts \ ModuleAccounts
    <3>1. b.next \in 1 .. Len(securityBurnAccounts)
      BY <1>1, <1>2, BlockConstants
    <3> QED
      BY <1>1, <2>1, <3>1, BlockConstants DEF acct
  <2>3. EvmModule \in Accounts /\ EvmModule \in ModuleAccounts
    BY BlockConstants
  <2> QED
    BY <2>1, <2>2, <2>3
<1>5. Collected(old, new, b)
  BY DEF NodeInv, Progress
<1>6. /\ new.height = old.height + 1
      /\ new.minGasPrice = IF old.height + 1 = MinGasPriceHotfixHeight
                           THEN 0 ELSE old.minGasPrice
      /\ new.supply = (old.supply - SumFunctionOnSet(old.balance, D)) + n
      /\ \A a \in Accounts \ {EvmModule} : f[a] = IF a \in D THEN 0 ELSE old.balance[a]
  <2> HIDE DEF D
  <2>1. /\ new.height = AfterBurn(old, D).height
        /\ new.minGasPrice = AfterBurn(old, D).minGasPrice
        /\ new.supply = AfterBurn(old, D).supply + n
        /\ \A a \in Accounts \ {EvmModule} : f[a] = AfterBurn(old, D).balance[a]
    BY <1>5, Zenon DEF Collected, D
  <2> QED
    BY <2>1 DEF AfterBurn
<1>7. /\ old.supply \in Nat /\ new.supply \in Nat /\ f \in [Accounts -> Nat]
      /\ new.supply = Total(f) /\ old.balance \in [Accounts -> Nat]
  BY <1>1, StateFields DEF Consistent
<1> HIDE DEF f
<1>8. /\ g \in [Accounts -> Nat] /\ g[EvmModule] = 0
      /\ \A a \in Accounts \ {EvmModule} : g[a] = f[a]
  BY <1>4, <1>7
<1> HIDE DEF g
<1>9. Total(g) = new.supply - n /\ n <= new.supply
  <2>1. Total(g) = Total(f) - f[EvmModule] + g[EvmModule] /\ f[EvmModule] <= Total(f)
    BY <1>4, <1>7, <1>8, TotalUpdate
  <2> QED
    BY <1>1, <1>2, <1>7, <1>8, <2>1
<1>10. /\ w \in State /\ w.supply = new.supply - n /\ w.balance = g
       /\ w.height = new.height /\ w.minGasPrice = new.minGasPrice
  <2> DEFINE x == new.supply - n
             mid == [new EXCEPT !.supply = x]
  <2>1. x \in Nat
    BY <1>2, <1>7, <1>9
  <2>2. w = [mid EXCEPT !.balance[EvmModule] = @ - n]
    BY <1>1, StateFields
  <2> HIDE DEF x
  <2>3. /\ mid \in State /\ mid.supply = x /\ mid.balance = f /\ mid.height = new.height
        /\ mid.minGasPrice = new.minGasPrice
    BY <1>1, <2>1 DEF State, f
  <2> HIDE DEF mid
  <2>4. f[EvmModule] - n = 0
    BY <1>1, <1>2
  <2>5. w = [mid EXCEPT !.balance = g]
    BY <2>2, <2>3, <2>4 DEF g, State
  <2> HIDE DEF w
  <2>6. /\ w \in State /\ w.supply = x /\ w.balance = g
        /\ w.height = new.height /\ w.minGasPrice = new.minGasPrice
    BY <1>8, <2>3, <2>5 DEF State
  <2> QED
    BY <2>6 DEF x
<1> HIDE DEF w, c
<1>11. Consistent(w) /\ w.balance[EvmModule] = 0
  BY <1>8, <1>9, <1>10 DEF Consistent
<1>12. w = AfterBurn(old, D)
  <2>1. SumFunctionOnSet(old.balance, D) \in Nat
    <3>1. IsFiniteSet(D)
      BY <1>2, <1>3, <1>4, ClearedSteps DEF BurnLocals
    <3>2. D \subseteq Accounts
      BY <1>2, <1>3, <1>4, ClearedSteps DEF BurnLocals
    <3>3. \A a \in D : old.balance[a] \in Nat
      BY <1>7, <3>2
    <3> QED
      BY <3>1, <3>3, SumType
  <2> HIDE DEF D
  <2>2. w.supply = old.supply - SumFunctionOnSet(old.balance, D)
    BY <1>2, <1>6, <1>7, <1>10, <2>1
  <2>3. \A a \in Accounts : w.balance[a] = IF a \in D THEN 0 ELSE old.balance[a]
    BY <1>1, <1>4, <1>6, <1>8, <1>10
  <2>4. w.height = old.height + 1
    BY <1>6, <1>10
  <2>5. w.minGasPrice = IF old.height + 1 = MinGasPriceHotfixHeight
                        THEN 0 ELSE old.minGasPrice
    BY <1>6, <1>10
  <2>6. old \in State /\ w \in State
    BY <1>1, <1>10
  <2> QED
    <3>1. BurnFields(old, w, D)
      BY <2>2, <2>3, <2>4, <2>5, Zenon DEF BurnFields
    <3> QED
      BY <2>6, <3>1, IsAfterBurn, Zenon
<1>13. w = AfterBurn(old, Cleared(c.next))
  BY <1>3, <1>4, <1>12
<1>14. Progress(old, w, "burn", c, blks, lk)
  BY <1>1, <1>13 DEF Progress
<1>15. NodeInv(old, w, "burn", c, blks, lk)
  BY <1>1, <1>3, <1>11, <1>14 DEF NodeInv, Phases
<1> QED
  BY <1>15 DEF w, c

\* The loop ends, or there is nothing to burn in this block.
LEMMA BurnDoneStep ==
    ASSUME NEW old, NEW new, NEW b, NEW blks \in Seq(Transfers), NEW lk,
           NodeInv(old, new, "burn", b, blks, lk),
           ~(new.height = SecurityBurnHeight /\ b.next <= Len(securityBurnAccounts))
    PROVE  NodeInv(old, new, "modules", b, blks, lk)
<1>1. /\ old \in State /\ new \in State /\ Consistent(old) /\ Consistent(new)
      /\ old.balance[EvmModule] = 0 /\ new.balance[EvmModule] = 0
      /\ old.height < Len(blks) /\ old.height <= Len(blks)
      /\ b \in BurnLocals /\ b.next \in 1 .. Len(securityBurnAccounts) + 1
      /\ BurnsNext(old) <=> new.height = SecurityBurnHeight
      /\ BurnsNext(old) => Burned(old, new, Cleared(b.next))
      /\ ~BurnsNext(old) => Burned(old, new, {})
  BY BurnPhase
<1>2. new = AfterBegin(old)
  <2>1. CASE BurnsNext(old)
    <3>1. b.next = Len(securityBurnAccounts) + 1
      BY <1>1, <2>1, BlockConstants
    <3>2. Cleared(b.next) = BurnSet
      BY <1>1, <3>1, ClearedSteps
    <3> QED
      BY <1>1, <2>1, <3>2 DEF AfterBegin, Burned
  <2>2. CASE ~BurnsNext(old)
    BY <1>1, <2>2 DEF AfterBegin, Burned
  <2> QED
    BY <2>1, <2>2
<1>3. Progress(old, new, "modules", b, blks, lk)
  BY <1>1, <1>2 DEF Progress
<1> QED
  BY <1>1, <1>3 DEF NodeInv, Phases

\* x/mint creates the inflation of the block.
LEMMA ModulesStep ==
    ASSUME NEW old, NEW new, NEW b, NEW blks \in Seq(Transfers), NEW lk,
           NodeInv(old, new, "modules", b, blks, lk)
    PROVE  NodeInv(old, AfterModules(new), "txs", b, blks, lk)
<1> DEFINE w == AfterModules(new)
           f == new.balance
           g == [f EXCEPT ![FeeCollector] = @ + Inflation]
<1>1. /\ old \in State /\ new \in State /\ Consistent(old) /\ Consistent(new)
      /\ old.balance[EvmModule] = 0 /\ f[EvmModule] = 0
      /\ old.height < Len(blks) /\ old.height <= Len(blks) /\ b \in BurnLocals
      /\ new = AfterBegin(old)
  BY DEF NodeInv, Consistent, Progress
<1>2. /\ EvmModule \in Accounts /\ FeeCollector \in Accounts /\ EvmModule # FeeCollector
      /\ Inflation \in Nat
  BY BlockConstants
<1>3. new.supply \in Nat /\ f \in [Accounts -> Nat] /\ new.supply = Total(f)
  BY <1>1, StateFields DEF Consistent
<1> DEFINE x == new.supply + Inflation
           mid == [new EXCEPT !.supply = x]
<1>4. w = [mid EXCEPT !.balance[FeeCollector] = @ + Inflation]
  BY <1>1, StateFields DEF AfterModules
<1>5. x \in Nat
  BY <1>2, <1>3
<1> HIDE DEF x
<1>6. mid \in State /\ mid.supply = x /\ mid.balance = f
  BY <1>1, <1>5 DEF State
<1> HIDE DEF mid, f
<1>7. /\ g \in [Accounts -> Nat] /\ g[FeeCollector] = f[FeeCollector] + Inflation
      /\ \A a \in Accounts \ {FeeCollector} : g[a] = f[a]
  BY <1>2, <1>3
<1>8. w = [mid EXCEPT !.balance = g]
  BY <1>4, <1>6 DEF State
<1> HIDE DEF w, g
<1>9. w \in State /\ w.supply = x /\ w.balance = g
  BY <1>6, <1>7, <1>8 DEF State
<1>10. Total(g) = x
  <2>1. Total(g) = Total(f) - f[FeeCollector] + g[FeeCollector] /\ Total(f) \in Nat
    BY <1>2, <1>3, <1>7, TotalUpdate
  <2>2. f[FeeCollector] \in Nat
    BY <1>2, <1>3
  <2> QED
    BY <1>2, <1>3, <1>7, <2>1, <2>2 DEF x
<1>11. Consistent(w) /\ w.balance[EvmModule] = 0
  BY <1>1, <1>2, <1>7, <1>9, <1>10 DEF Consistent
<1>12. w = AfterModules(AfterBegin(old))
  BY <1>1 DEF w
<1>13. Progress(old, w, "txs", b, blks, lk)
  BY <1>1, <1>12 DEF Progress
<1>14. NodeInv(old, w, "txs", b, blks, lk)
  BY <1>1, <1>11, <1>13 DEF NodeInv, Phases
<1> QED
  BY <1>14 DEF w

\* The height during a block, which the block's transactions are looked up by.
LEMMA HeightInBlock ==
    ASSUME NEW s \in State
    PROVE  AfterModules(AfterBegin(s)).height = s.height + 1
<1> DEFINE C == IF BurnsNext(s) THEN BurnSet ELSE {}
           r == AfterBurn(s, C)
<1>1. r.height = s.height + 1 /\ r = AfterBegin(s)
  BY DEF AfterBurn, AfterBegin
<1>2. AfterModules(r).height = r.height
  BY DEF AfterModules, AfterBurn
<1> QED
  BY <1>1, <1>2

\* A transfer the bank accepts.
LEMMA PaidEffect ==
    ASSUME NEW f \in [Accounts -> Nat], NEW t \in Transfers, t.amount <= f[t.from],
           t.to \notin ModuleAccounts
    PROVE  /\ Paid(f, t) \in [Accounts -> Nat]
           /\ Paid(f, t)[EvmModule] = f[EvmModule]
           /\ Total(Paid(f, t)) = Total(f)
<1> DEFINE from == t.from
           to == t.to
           n == t.amount
           h == [f EXCEPT ![from] = @ - n]
           g == [h EXCEPT ![to] = @ + n]
<1>1. /\ from \in Accounts \ ModuleAccounts /\ to \in Accounts /\ n \in Nat
      /\ EvmModule \in ModuleAccounts /\ EvmModule \in Accounts
  BY BlockAssumption
<1>2. g = Paid(f, t)
  BY DEF Paid
<1>3. n <= f[from] /\ to \notin ModuleAccounts
  OBVIOUS
<1> HIDE DEF from, to, n
<1>4. /\ h \in [Accounts -> Nat] /\ h[from] = f[from] - n
      /\ \A a \in Accounts \ {from} : h[a] = f[a]
  BY <1>1, <1>3
<1> HIDE DEF h
<1>5. /\ g \in [Accounts -> Nat] /\ g[to] = h[to] + n
      /\ \A a \in Accounts \ {to} : g[a] = h[a]
  BY <1>1, <1>4
<1> HIDE DEF g
<1>6. Total(h) = Total(f) - f[from] + h[from] /\ Total(f) \in Nat
  BY <1>1, <1>4, TotalUpdate
<1>7. Total(g) = Total(h) - h[to] + g[to]
  BY <1>1, <1>4, <1>5, TotalUpdate
<1>8. f[from] \in Nat /\ h[to] \in Nat
  BY <1>1, <1>4
<1>9. Total(g) = Total(f)
  BY <1>1, <1>4, <1>5, <1>6, <1>7, <1>8
<1>10. g[EvmModule] = f[EvmModule]
  BY <1>1, <1>3, <1>4, <1>5
<1> QED
  BY <1>2, <1>5, <1>9, <1>10

\* The transactions of the block.
LEMMA TxsStep ==
    ASSUME NEW old, NEW new, NEW b, NEW blks \in Seq(Transfers), NEW lk,
           NodeInv(old, new, "txs", b, blks, lk)
    PROVE  /\ new.height = old.height + 1
           /\ NodeInv(old, AfterTxs(new, blks[new.height], lk), "end", b, blks, lk)
<1> DEFINE t == blks[new.height]
           w == AfterTxs(new, t, lk)
           f == new.balance
<1>1. /\ old \in State /\ new \in State /\ Consistent(old) /\ Consistent(new)
      /\ old.balance[EvmModule] = 0 /\ f[EvmModule] = 0
      /\ old.height < Len(blks) /\ old.height <= Len(blks) /\ b \in BurnLocals
      /\ new = AfterModules(AfterBegin(old))
  BY DEF NodeInv, Consistent, Progress
<1>2. new.height = old.height + 1
  BY <1>1, HeightInBlock
<1>3. t \in Transfers
  <2>1. old.height \in Nat /\ Len(blks) \in Nat
    BY <1>1, StateFields
  <2>2. new.height \in 1 .. Len(blks)
    BY <1>1, <1>2, <2>1
  <2> QED
    BY <2>2
<1>4. f \in [Accounts -> Nat] /\ new.supply = Total(f)
  BY <1>1, StateFields DEF Consistent
<1>5. Consistent(w) /\ w.balance[EvmModule] = 0
  <2>1. CASE Accepted(new, t, lk)
    <3> DEFINE g == Paid(f, t)
    <3>1. t.amount <= f[t.from] /\ t.to \notin ModuleAccounts
      BY <2>1 DEF Accepted
    <3>2. w = [new EXCEPT !.balance = g]
      BY <2>1 DEF AfterTxs
    <3> HIDE DEF t, f
    <3>3. g \in [Accounts -> Nat] /\ g[EvmModule] = f[EvmModule] /\ Total(g) = Total(f)
      BY <1>3, <1>4, <3>1, PaidEffect
    <3> HIDE DEF g, w
    <3>4. w \in State /\ w.balance = g /\ w.supply = new.supply
      BY <1>1, <3>2, <3>3 DEF State
    <3> QED
      BY <1>1, <1>4, <3>3, <3>4 DEF Consistent
  <2>2. CASE ~Accepted(new, t, lk)
    BY <1>1, <2>2 DEF AfterTxs
  <2> QED
    BY <2>1, <2>2
<1>6. w = AfterBlock(old, blks[old.height + 1], lk)
  BY <1>1, <1>2, Zenon DEF AfterBlock
<1> HIDE DEF w
<1>7. Progress(old, w, "end", b, blks, lk)
  BY <1>1, <1>6 DEF Progress
<1>8. NodeInv(old, w, "end", b, blks, lk)
  BY <1>1, <1>5, <1>7 DEF NodeInv, Phases
<1> QED
  BY <1>2, <1>8 DEF w

\* The height and the supply after a block.
LEMMA BlockLedger ==
    ASSUME NEW s \in State, NEW t, NEW lk
    PROVE  /\ AfterBlock(s, t, lk).height = s.height + 1
           /\ AfterBlock(s, t, lk).supply =
                  (s.supply - (IF BurnsNext(s) THEN SumFunctionOnSet(s.balance, BurnSet) ELSE 0))
                      + Inflation
<1> DEFINE C == IF BurnsNext(s) THEN BurnSet ELSE {}
           r == AfterBurn(s, C)
           q == AfterModules(r)
<1>1. r = AfterBegin(s)
  BY DEF AfterBegin
<1>2. r.supply = s.supply - SumFunctionOnSet(s.balance, C) /\ r.height = s.height + 1
  BY DEF AfterBurn
<1>3. SumFunctionOnSet(s.balance, C) =
          IF BurnsNext(s) THEN SumFunctionOnSet(s.balance, BurnSet) ELSE 0
  BY SumEmpty
<1>4. q.supply = r.supply + Inflation /\ q.height = r.height
  BY DEF AfterModules, AfterBurn
<1>5. AfterTxs(q, t, lk).supply = q.supply /\ AfterTxs(q, t, lk).height = q.height
  BY DEF AfterTxs, AfterModules, AfterBurn
<1>6. AfterBlock(s, t, lk) = AfterTxs(q, t, lk)
  BY <1>1 DEF AfterBlock
<1> HIDE DEF q, r, C
<1> QED
  BY <1>2, <1>3, <1>4, <1>5, <1>6

\* Commit makes the working state permanent.
LEMMA CommitStep ==
    ASSUME NEW old, NEW new, NEW b, NEW blks \in Seq(Transfers), NEW lk,
           NodeInv(old, new, "end", b, blks, lk)
    PROVE  NodeInv(new, new, "idle", b, blks, lk)
<1>1. /\ old \in State /\ new \in State /\ Consistent(old) /\ Consistent(new)
      /\ new.balance[EvmModule] = 0
      /\ old.height < Len(blks) /\ b \in BurnLocals
      /\ new = AfterBlock(old, blks[old.height + 1], lk)
  BY DEF NodeInv, Consistent, Progress
<1>2. new.height = old.height + 1
  BY <1>1, BlockLedger
<1>3. new.height <= Len(blks)
  BY <1>1, <1>2, StateFields
<1>4. Progress(new, new, "idle", b, blks, lk)
  BY DEF Progress
<1> QED
  BY <1>1, <1>3, <1>4 DEF NodeInv, Phases

\* A crash or a panic loses the working state and nothing else; a restart
\* goes on from the last commit.
LEMMA StopStep ==
    ASSUME NEW old, NEW new, NEW ph, NEW b, NEW blks, NEW lk, NEW st \in {"idle", "down"},
           NodeInv(old, new, ph, b, blks, lk)
    PROVE  NodeInv(old, old, st, b, blks, lk)
<1>1. Progress(old, old, st, b, blks, lk)
  BY DEF Progress
<1> QED
  BY <1>1 DEF NodeInv, Phases

\* A further decided block changes nothing for the nodes.
LEMMA DecideStep ==
    ASSUME NEW old, NEW new, NEW ph, NEW b, NEW blks \in Seq(Transfers), NEW lk,
           NEW t \in Transfers, NodeInv(old, new, ph, b, blks, lk)
    PROVE  NodeInv(old, new, ph, b, Append(blks, t), lk)
<1> DEFINE more == Append(blks, t)
<1>1. /\ Len(more) = Len(blks) + 1 /\ Len(blks) \in Nat
      /\ \A i \in 1 .. Len(blks) : more[i] = blks[i]
  OBVIOUS
<1> HIDE DEF more
<1>2. old \in State /\ old.height <= Len(blks) /\ Progress(old, new, ph, b, blks, lk)
  BY DEF NodeInv, Consistent
<1>3. old.height \in Nat /\ old.height <= Len(more)
  BY <1>1, <1>2, StateFields
<1>4. old.height < Len(blks) =>
          old.height < Len(more) /\ more[old.height + 1] = blks[old.height + 1]
  BY <1>1, <1>3
<1>5. Progress(old, new, ph, b, more, lk)
  BY <1>2, <1>4 DEF Progress
<1>6. NodeInv(old, new, ph, b, more, lk)
  BY <1>3, <1>5 DEF NodeInv
<1> QED
  BY <1>6 DEF more

-----------------------------------------------------------------------------
(***************************************************************************)
(* The invariant of all nodes.                                             *)
(***************************************************************************)

\* A step of node n that takes it to a state of its invariant.
Moves(n, old, new, ph, b) ==
    /\ committed' = [committed EXCEPT ![n] = old]
    /\ working' = [working EXCEPT ![n] = new]
    /\ phase' = [phase EXCEPT ![n] = ph]
    /\ burn' = [burn EXCEPT ![n] = b]
    /\ UNCHANGED <<blocks, locked>>

\* Such a step keeps the invariant of all nodes: it touches no other node.
LEMMA MovesKeepsIInv ==
    ASSUME IInv, NEW n \in Nodes, NEW old, NEW new, NEW ph, NEW b,
           Moves(n, old, new, ph, b), NodeInv(old, new, ph, b, blocks, locked),
           crashes' \in [Nodes -> 0 .. MaxCrashes]
    PROVE  IInv'
<1>1. /\ committed \in [Nodes -> State] /\ working \in [Nodes -> State]
      /\ phase \in [Nodes -> Phases] /\ burn \in [Nodes -> BurnLocals]
      /\ blocks \in Seq(Transfers) /\ Len(blocks) <= MaxHeight /\ locked \subseteq Accounts
  BY DEF IInv, TypeOK, BurnLocals
<1>2. old \in State /\ new \in State /\ ph \in Phases /\ b \in BurnLocals
  BY DEF NodeInv, Consistent
<1>3. /\ committed' \in [Nodes -> State] /\ working' \in [Nodes -> State]
      /\ phase' \in [Nodes -> Phases] /\ burn' \in [Nodes -> BurnLocals]
      /\ UNCHANGED <<blocks, locked>>
  BY <1>1, <1>2 DEF Moves
<1>4. TypeOK'
  BY <1>1, <1>3 DEF TypeOK, BurnLocals
<1>5. ASSUME NEW m \in Nodes
      PROVE  NodeInv(committed'[m], working'[m], phase'[m], burn'[m], blocks, locked)
  <2>1. CASE m = n
    <3>1. committed'[m] = old /\ working'[m] = new /\ phase'[m] = ph /\ burn'[m] = b
      BY <1>1, <2>1 DEF Moves
    <3> QED
      BY <3>1
  <2>2. CASE m # n
    <3>1. /\ committed'[m] = committed[m] /\ working'[m] = working[m]
          /\ phase'[m] = phase[m] /\ burn'[m] = burn[m]
      BY <1>1, <2>2 DEF Moves
    <3>2. NodeInv(committed[m], working[m], phase[m], burn[m], blocks, locked)
      BY DEF IInv, Node
    <3> QED
      BY <3>1, <3>2
  <2> QED
    BY <2>1, <2>2
<1>6. \A m \in Nodes : Node(m)'
  BY <1>3, <1>5 DEF Node
<1> QED
  BY <1>4, <1>6 DEF IInv

\* A function that is not changed is changed nowhere.
LEMMA SameAt ==
    ASSUME NEW S, NEW T, NEW f \in [S -> T], NEW n \in S
    PROVE  f = [f EXCEPT ![n] = f[n]]
OBVIOUS

\* The x/vm module account holds what BurnCoins is asked for: the bank never
\* refuses it.
LEMMA EnoughCollected ==
    ASSUME NEW old, NEW new, NEW b, NEW blks, NEW lk,
           NodeInv(old, new, "collected", b, blks, lk)
    PROVE  b.balances <= new.balance[EvmModule]
BY DEF NodeInv, BurnLocals

\* Every step a running node takes keeps the invariant.
LEMMA ExecuteKeepsIInv ==
    ASSUME IInv, NEW n \in Nodes, Execute(n)
    PROVE  IInv'
<1> DEFINE old == committed[n]
           new == working[n]
           b == burn[n]
           inv(ph) == NodeInv(old, new, ph, b, blocks, locked)
<1>1. /\ committed \in [Nodes -> State] /\ working \in [Nodes -> State]
      /\ phase \in [Nodes -> Phases] /\ burn \in [Nodes -> BurnLocals]
      /\ blocks \in Seq(Transfers) /\ crashes \in [Nodes -> 0 .. MaxCrashes]
  BY DEF IInv, TypeOK, BurnLocals
<1>2. inv(phase[n])
  BY DEF IInv, Node
<1>3. /\ committed = [committed EXCEPT ![n] = old] /\ working = [working EXCEPT ![n] = new]
      /\ burn = [burn EXCEPT ![n] = b] /\ phase = [phase EXCEPT ![n] = phase[n]]
  BY <1>1, SameAt
<1>4. UNCHANGED crashes => crashes' \in [Nodes -> 0 .. MaxCrashes]
  BY <1>1
<1>5. CASE StartBlock(n)
  <2> DEFINE w == [old EXCEPT !.height = @ + 1]
  <2>1. Moves(n, old, w, "begin", NoBurn) /\ UNCHANGED crashes
    BY <1>3, <1>5 DEF StartBlock, Work, Enter, Moves
  <2>2. inv("idle") /\ old.height < Len(blocks)
    BY <1>2, <1>5 DEF StartBlock
  <2>3. NodeInv(old, w, "begin", NoBurn, blocks, locked)
    BY <1>1, <2>2, StartStep
  <2> HIDE DEF w, inv
  <2> QED
    BY <1>4, <2>1, <2>3, MovesKeepsIInv
<1>6. CASE ApplyHotfix(n)
  <2> DEFINE w == IF new.height = MinGasPriceHotfixHeight
                  THEN [new EXCEPT !.minGasPrice = 0] ELSE new
  <2>1. Moves(n, old, w, "burn", b) /\ UNCHANGED crashes
    BY <1>3, <1>6 DEF ApplyHotfix, Work, Enter, Moves
  <2>2. inv("begin")
    BY <1>2, <1>6 DEF ApplyHotfix
  <2>3. NodeInv(old, w, "burn", b, blocks, locked)
    BY <1>1, <2>2, HotfixStep
  <2> HIDE DEF w, inv
  <2> QED
    BY <1>4, <2>1, <2>3, MovesKeepsIInv
<1>7. CASE CollectBurn(n)
  <2> DEFINE acct == securityBurnAccounts[b.next]
             amount == new.balance[acct]
  <2>1. /\ inv("burn") /\ phase[n] = "burn" /\ UNCHANGED <<blocks, locked, committed, crashes>>
        /\ new.height = SecurityBurnHeight /\ b.next <= Len(securityBurnAccounts)
    BY <1>2, <1>7 DEF CollectBurn, burnDue
  <2>2. CASE amount = 0 /\ burn' = [burn EXCEPT ![n].next = @ + 1] /\ UNCHANGED <<working, phase>>
    <3> DEFINE c == [b EXCEPT !.next = @ + 1]
    <3>1. Moves(n, old, new, "burn", c)
      BY <1>1, <1>3, <2>1, <2>2 DEF Moves
    <3>2. NodeInv(old, new, "burn", c, blocks, locked)
      BY <1>1, <2>1, <2>2, SkipStep
    <3> HIDE DEF c, inv
    <3> QED
      BY <1>4, <2>1, <3>1, <3>2, MovesKeepsIInv
  <2>3. CASE Stop(n) /\ UNCHANGED burn
    <3>1. Moves(n, old, old, "down", b)
      BY <1>3, <2>1, <2>3 DEF Moves, Stop, Work, Enter
    <3>2. NodeInv(old, old, "down", b, blocks, locked)
      BY <2>1, StopStep
    <3> HIDE DEF inv
    <3> QED
      BY <1>4, <2>1, <3>1, <3>2, MovesKeepsIInv
  <2>4. CASE /\ amount # 0
             /\ Work(n, [new EXCEPT !.balance = ToEvmModule(@, acct)])
             /\ Enter(n, "collected")
             /\ burn' = [burn EXCEPT ![n].balances = amount]
    <3> DEFINE w == [new EXCEPT !.balance = ToEvmModule(@, acct)]
               c == [b EXCEPT !.balances = amount]
    <3>1. Moves(n, old, w, "collected", c)
      BY <1>1, <1>3, <2>1, <2>4 DEF Moves, Work, Enter
    <3>2. NodeInv(old, w, "collected", c, blocks, locked)
      BY <1>1, <2>1, <2>4, CollectStep
    <3> HIDE DEF w, c, inv
    <3> QED
      BY <1>4, <2>1, <3>1, <3>2, MovesKeepsIInv
  <2> QED
    BY <1>7, <2>2, <2>3, <2>4 DEF CollectBurn
<1>8. CASE BurnCollected(n)
  <2> DEFINE w == [new EXCEPT !.supply = @ - b.balances, !.balance[EvmModule] = @ - b.balances]
             c == [b EXCEPT !.next = @ + 1]
  <2>1. inv("collected") /\ b.balances <= new.balance[EvmModule]
    BY <1>2, <1>8, EnoughCollected DEF BurnCollected, BurnCoins
  <2>2. Moves(n, old, w, "burn", c) /\ UNCHANGED crashes
    BY <1>1, <1>3, <1>8, <2>1 DEF BurnCollected, BurnCoins, Work, Enter, Moves
  <2>3. NodeInv(old, w, "burn", c, blocks, locked)
    BY <1>1, <2>1, BurnStep
  <2> HIDE DEF w, c, inv
  <2> QED
    BY <1>4, <2>2, <2>3, MovesKeepsIInv
<1>9. CASE BurnDone(n)
  <2>1. Moves(n, old, new, "modules", b) /\ UNCHANGED crashes
    BY <1>3, <1>9 DEF BurnDone, Enter, Moves
  <2>2. /\ inv("burn")
        /\ ~(new.height = SecurityBurnHeight /\ b.next <= Len(securityBurnAccounts))
    BY <1>2, <1>9 DEF BurnDone, burnDue
  <2>3. NodeInv(old, new, "modules", b, blocks, locked)
    BY <1>1, <2>2, BurnDoneStep
  <2> HIDE DEF inv
  <2> QED
    BY <1>4, <2>1, <2>3, MovesKeepsIInv
<1>10. CASE ModulesBeginBlock(n)
  <2> DEFINE w == AfterModules(new)
  <2>1. Moves(n, old, w, "txs", b) /\ UNCHANGED crashes
    BY <1>3, <1>10 DEF ModulesBeginBlock, Work, Enter, Moves, AfterModules
  <2>2. inv("modules")
    BY <1>2, <1>10 DEF ModulesBeginBlock
  <2>3. NodeInv(old, w, "txs", b, blocks, locked)
    BY <1>1, <2>2, ModulesStep
  <2> HIDE DEF w, inv
  <2> QED
    BY <1>4, <2>1, <2>3, MovesKeepsIInv
<1>11. CASE DeliverTxs(n)
  <2> DEFINE w == AfterTxs(new, blocks[new.height], locked)
  <2>1. Moves(n, old, w, "end", b) /\ UNCHANGED crashes
    BY <1>3, <1>11 DEF DeliverTxs, Work, Enter, Moves, AfterTxs, Accepted
  <2>2. inv("txs")
    BY <1>2, <1>11 DEF DeliverTxs
  <2>3. NodeInv(old, w, "end", b, blocks, locked)
    BY <1>1, <2>2, TxsStep
  <2> HIDE DEF w, inv
  <2> QED
    BY <1>4, <2>1, <2>3, MovesKeepsIInv
<1>12. CASE Commit(n)
  <2>1. Moves(n, new, new, "idle", b) /\ UNCHANGED crashes
    BY <1>3, <1>12 DEF Commit, Enter, Moves
  <2>2. inv("end")
    BY <1>2, <1>12 DEF Commit
  <2>3. NodeInv(new, new, "idle", b, blocks, locked)
    BY <1>1, <2>2, CommitStep
  <2> HIDE DEF inv
  <2> QED
    BY <1>4, <2>1, <2>3, MovesKeepsIInv
<1> QED
  BY <1>5, <1>6, <1>7, <1>8, <1>9, <1>10, <1>11, <1>12 DEF Execute

\* Every node starts idle, on a state whose supply is the sum of its balances.
LEMMA IInvInit == Init => IInv
<1> SUFFICES ASSUME Init PROVE IInv
  OBVIOUS
<1>1. PICK f \in Balances :
          committed = [n \in Nodes |->
              [height |-> 0, supply |-> Total(f), balance |-> f, minGasPrice |-> 1]]
  BY DEF Init
<1> DEFINE s == [height |-> 0, supply |-> Total(f), balance |-> f, minGasPrice |-> 1]
<1>2. f \in [Accounts -> Nat] /\ f[EvmModule] = 0 /\ EvmModule \in Accounts
  BY BlockAssumption
<1>3. Total(f) \in Nat
  BY <1>2, TotalUpdate
<1>4. s \in State /\ Consistent(s) /\ s.balance[EvmModule] = 0 /\ s.height = 0
  BY <1>2, <1>3 DEF State, Consistent
<1> HIDE DEF s
<1>5. committed = [n \in Nodes |-> s] /\ working = committed
  BY <1>1 DEF Init, s
<1>6. NoBurn \in BurnLocals /\ "idle" \in Phases
  BY BlockConstants DEF NoBurn, BurnLocals, Phases
<1>7. blocks \in Seq(Transfers) /\ Len(blocks) = 0
  BY DEF Init
<1>8. TypeOK
  BY <1>4, <1>5, <1>6, <1>7, BlockAssumption DEF TypeOK, Init, BurnLocals
<1>9. NodeInv(s, s, "idle", NoBurn, blocks, locked)
  <2>1. Progress(s, s, "idle", NoBurn, blocks, locked)
    BY DEF Progress
  <2> QED
    BY <1>4, <1>6, <1>7, <2>1 DEF NodeInv
<1>10. \A n \in Nodes : Node(n)
  BY <1>5, <1>9 DEF Node, Init
<1> QED
  BY <1>8, <1>10 DEF IInv

\* Every step keeps the invariant.
LEMMA IInvNext == IInv /\ [Next]_vars => IInv'
<1> SUFFICES ASSUME IInv, [Next]_vars PROVE IInv'
  OBVIOUS
<1>0. /\ committed \in [Nodes -> State] /\ working \in [Nodes -> State]
      /\ phase \in [Nodes -> Phases] /\ burn \in [Nodes -> BurnLocals]
      /\ blocks \in Seq(Transfers) /\ Len(blocks) <= MaxHeight
      /\ crashes \in [Nodes -> 0 .. MaxCrashes] /\ MaxCrashes \in Nat /\ MaxHeight \in Nat
  BY BlockAssumption DEF IInv, TypeOK, BurnLocals
<1>1. ASSUME NEW t \in Transfers, Decide(t) PROVE IInv'
  <2>1. /\ blocks' = Append(blocks, t) /\ Len(blocks) < MaxHeight
        /\ UNCHANGED <<locked, committed, working, phase, burn, crashes>>
    BY <1>1 DEF Decide
  <2>2. blocks' \in Seq(Transfers) /\ Len(blocks') <= MaxHeight
    BY <1>0, <2>1
  <2>3. TypeOK'
    BY <2>1, <2>2 DEF IInv, TypeOK
  <2>4. ASSUME NEW n \in Nodes
        PROVE  NodeInv(committed[n], working[n], phase[n], burn[n], Append(blocks, t), locked)
    <3>1. NodeInv(committed[n], working[n], phase[n], burn[n], blocks, locked)
      BY DEF IInv, Node
    <3> QED
      BY <1>0, <3>1, DecideStep
  <2>5. \A n \in Nodes : Node(n)'
    BY <2>1, <2>4 DEF Node
  <2> QED
    BY <2>3, <2>5 DEF IInv
<1>2. ASSUME NEW n \in Nodes, Crash(n) PROVE IInv'
  <2>1. Moves(n, committed[n], committed[n], "down", burn[n])
    BY <1>0, <1>2 DEF Crash, Stop, Work, Enter, Moves
  <2>2. NodeInv(committed[n], committed[n], "down", burn[n], blocks, locked)
    BY StopStep DEF IInv, Node
  <2>3. crashes' \in [Nodes -> 0 .. MaxCrashes]
    BY <1>0, <1>2 DEF Crash
  <2> QED
    BY <2>1, <2>2, <2>3, MovesKeepsIInv
<1>3. ASSUME NEW n \in Nodes, Restart(n) PROVE IInv'
  <2>1. NodeInv(committed[n], working[n], "down", burn[n], blocks, locked)
    BY <1>3 DEF IInv, Node, Restart
  <2>2. working[n] = committed[n]
    BY <2>1 DEF NodeInv, Progress
  <2>3. Moves(n, committed[n], committed[n], "idle", burn[n]) /\ UNCHANGED crashes
    BY <1>0, <1>3, <2>2 DEF Restart, Enter, Moves
  <2>4. NodeInv(committed[n], committed[n], "idle", burn[n], blocks, locked)
    BY <2>1, StopStep
  <2> QED
    BY <1>0, <2>3, <2>4, MovesKeepsIInv
<1>4. CASE UNCHANGED vars
  BY <1>4 DEF vars, IInv, TypeOK, Node
<1> QED
  BY <1>1, <1>2, <1>3, <1>4, ExecuteKeepsIInv DEF Next

\* At every moment, crashes included, the working state of a node follows from
\* its last commit by the part of the block executed so far.
THEOREM ExecutionInvariant == Spec => []IInv
BY IInvInit, IInvNext, PTL DEF Spec

\* No balance and no supply of any node goes below zero.
THEOREM NodesTypeCorrect == Spec => []TypeOK
<1>1. IInv => TypeOK
  BY DEF IInv
<1> QED
  BY <1>1, ExecutionInvariant, PTL

\* A node that does not crash goes down only for locked coins: nothing else in
\* applySecurityBurn can fail, for every list of accounts and all balances.
THEOREM BurnPanicsOnlyOnLocked == Spec => PanicsOnlyOnLocked
<1>1. ASSUME IInv, [Next]_vars, NEW n \in Nodes,
             phase[n] # "down", phase'[n] = "down", UNCHANGED crashes
      PROVE  locked \cap BurnSet # {}
  <2>0. /\ phase \in [Nodes -> Phases] /\ crashes \in [Nodes -> 0 .. MaxCrashes]
        /\ burn \in [Nodes -> BurnLocals]
    BY <1>1 DEF IInv, TypeOK, BurnLocals
  <2>1. ASSUME NEW m \in Nodes, Crash(m) PROVE FALSE
    BY <1>1, <2>0, <2>1 DEF Crash
  <2>2. ASSUME NEW m \in Nodes, BurnCollected(m) PROVE FALSE
    <3>1. burn[m].balances <= working[m].balance[EvmModule]
      BY <1>1, <2>2, EnoughCollected DEF IInv, Node, BurnCollected, BurnCoins
    <3> QED
      BY <1>1, <2>0, <2>2, <3>1 DEF BurnCollected, BurnCoins, Enter
  <2>3. PICK m \in Nodes : CollectBurn(m)
    BY <1>1, <2>0, <2>1, <2>2
       DEF Next, vars, Decide, Execute, StartBlock, ApplyHotfix, BurnDone, ModulesBeginBlock,
           DeliverTxs, Commit, Restart, Enter
  <2> DEFINE i == burn[m].next
  <2>4. securityBurnAccounts[i] \in locked
    BY <1>1, <2>0, <2>3 DEF CollectBurn, Enter
  <2>5. i \in 1 .. Len(securityBurnAccounts)
    BY <2>0, <2>3, BlockConstants DEF CollectBurn, burnDue, BurnLocals
  <2>6. securityBurnAccounts[i] \in BurnSet
    BY <2>5, BlockAssumption DEF BurnSet, Range
  <2> QED
    BY <2>4, <2>6
<1>2. IInv /\ [Next]_vars =>
          [\A n \in Nodes :
              phase[n] # "down" /\ phase'[n] = "down" /\ UNCHANGED crashes
                  => locked \cap BurnSet # {}]_vars
  BY <1>1
<1> QED
  BY <1>2, ExecutionInvariant, PTL DEF Spec, PanicsOnlyOnLocked

\* BeginBlocker empties the listed accounts at SecurityBurnHeight, sets
\* MinGasPrice at the hotfix height and touches nothing else, for every list
\* of accounts: repeated ones, empty ones and an empty list included.
THEOREM BeginBlockerDoesExactly == Spec => []BeginBlockerEffect
<1>1. ASSUME IInv, NEW n \in Nodes, phase[n] = "modules"
      PROVE  LET old == committed[n]
                 new == working[n]
             IN  /\ \A a \in Accounts : new.balance[a] =
                        IF new.height = SecurityBurnHeight /\ a \in BurnSet
                        THEN 0 ELSE old.balance[a]
                 /\ new.minGasPrice =
                        IF new.height = MinGasPriceHotfixHeight THEN 0 ELSE old.minGasPrice
  <2> DEFINE old == committed[n]
             new == working[n]
             C == IF BurnsNext(old) THEN BurnSet ELSE {}
  <2>1. new = AfterBurn(old, C)
    BY <1>1 DEF IInv, Node, NodeInv, Progress, AfterBegin
  <2> HIDE DEF old, new, C
  <2>2. /\ new.height = old.height + 1
        /\ \A a \in Accounts : new.balance[a] = IF a \in C THEN 0 ELSE old.balance[a]
        /\ new.minGasPrice =
               IF old.height + 1 = MinGasPriceHotfixHeight THEN 0 ELSE old.minGasPrice
    BY <2>1 DEF AfterBurn
  <2>3. BurnsNext(old) <=> new.height = SecurityBurnHeight
    BY <2>2 DEF BurnsNext
  <2>4. \A a \in Accounts : new.balance[a] =
            IF new.height = SecurityBurnHeight /\ a \in BurnSet THEN 0 ELSE old.balance[a]
    BY <2>2, <2>3 DEF C
  <2> QED
    BY <2>2, <2>4 DEF old, new
<1>2. IInv => BeginBlockerEffect
  BY <1>1 DEF BeginBlockerEffect
<1> QED
  BY <1>2, ExecutionInvariant, PTL

\* A commit is the only step that changes a committed state, and what it
\* writes is the whole block applied to the state before it.
LEMMA CommitWritesBlock ==
    ASSUME IInv, [Next]_vars, NEW n \in Nodes, committed'[n] # committed[n]
    PROVE  /\ committed[n] \in State /\ committed[n].height < Len(blocks)
           /\ UNCHANGED <<blocks, locked>>
           /\ committed'[n] =
                  AfterBlock(committed[n], blocks[committed[n].height + 1], locked)
<1>0. committed \in [Nodes -> State]
  BY DEF IInv, TypeOK
<1>1. PICK m \in Nodes : Commit(m)
  BY DEF Next, vars, Decide, Execute, StartBlock, ApplyHotfix, CollectBurn, BurnCollected,
         BurnCoins, BurnDone, ModulesBeginBlock, DeliverTxs, Crash, Restart
<1>2. m = n /\ phase[n] = "end" /\ committed'[n] = working[n] /\ UNCHANGED <<blocks, locked>>
  BY <1>0, <1>1 DEF Commit
<1>3. NodeInv(committed[n], working[n], "end", burn[n], blocks, locked)
  BY <1>2 DEF IInv, Node
<1>4. /\ committed[n].height < Len(blocks)
      /\ working[n] = AfterBlock(committed[n], blocks[committed[n].height + 1], locked)
  BY <1>3 DEF NodeInv, Progress
<1> QED
  BY <1>0, <1>2, <1>4

\* From one commit of a node to the next the supply changes by the inflation
\* and, once, by the burn: a crash in the middle of the burn neither repeats
\* nor loses a part of it.
THEOREM LedgerOfCommits == Spec => SupplyLedger
<1>1. ASSUME IInv, [Next]_vars, NEW n \in Nodes, committed'[n] # committed[n]
      PROVE  /\ committed'[n].height = committed[n].height + 1
             /\ committed'[n].supply = committed[n].supply + Inflation
                    - (IF committed'[n].height = SecurityBurnHeight
                       THEN SumFunctionOnSet(committed[n].balance, BurnSet) ELSE 0)
  <2> DEFINE old == committed[n]
             x == IF BurnsNext(old) THEN SumFunctionOnSet(old.balance, BurnSet) ELSE 0
  <2>1. /\ old \in State
        /\ committed'[n] = AfterBlock(old, blocks[old.height + 1], locked)
    BY <1>1, CommitWritesBlock
  <2>2. committed'[n].height = old.height + 1 /\ committed'[n].supply = (old.supply - x) + Inflation
    BY <2>1, BlockLedger
  <2>3. x \in Nat
    <3>1. BurnSet \subseteq Accounts
      BY BlockAssumption DEF BurnSet, Range
    <3>2. IsFiniteSet(BurnSet)
      BY <3>1, BlockConstants, FS_Subset
    <3>3. \A a \in BurnSet : old.balance[a] \in Nat
      BY <2>1, <3>1, StateFields
    <3>4. SumFunctionOnSet(old.balance, BurnSet) \in Nat
      BY <3>2, <3>3, SumType
    <3> QED
      BY <3>4
  <2>4. x = IF committed'[n].height = SecurityBurnHeight
            THEN SumFunctionOnSet(old.balance, BurnSet) ELSE 0
    BY <2>2 DEF BurnsNext
  <2>5. old.supply \in Nat /\ Inflation \in Nat
    BY <2>1, StateFields, BlockConstants
  <2> HIDE DEF x
  <2>6. committed'[n].supply = old.supply + Inflation - x
    BY <2>2, <2>3, <2>5
  <2> QED
    BY <2>2, <2>4, <2>6
<1>2. IInv /\ [Next]_vars => [\A n \in Nodes : committed'[n] # committed[n] =>
        /\ committed'[n].height = committed[n].height + 1
        /\ committed'[n].supply = committed[n].supply + Inflation
               - (IF committed'[n].height = SecurityBurnHeight
                  THEN SumFunctionOnSet(committed[n].balance, BurnSet) ELSE 0)]_vars
  BY <1>1
<1> QED
  BY <1>2, IInvInit, IInvNext, PTL DEF Spec, SupplyLedger

(***************************************************************************)
(* Agreement.  A node may commit a height long after another one, so what  *)
(* the others committed there is not part of the state any more: the       *)
(* invariant says that some sequence of states, each the block applied to  *)
(* the one before, passes through the last commit of every node.           *)
(***************************************************************************)
IsHistory(h) ==
    /\ \A k \in 0 .. Len(blocks) - 1 : h[k + 1] = AfterBlock(h[k], blocks[k + 1], locked)
    /\ \A n \in Nodes :
           committed[n].height \in 0 .. Len(blocks) /\ committed[n] = h[committed[n].height]

HistInv == \E h : IsHistory(h)

\* Before the first block the history is the genesis state.
LEMMA HistInit == Init => HistInv
<1> SUFFICES ASSUME Init PROVE HistInv
  OBVIOUS
<1>1. PICK f \in Balances :
          committed = [n \in Nodes |->
              [height |-> 0, supply |-> Total(f), balance |-> f, minGasPrice |-> 1]]
  BY DEF Init
<1> DEFINE s == [height |-> 0, supply |-> Total(f), balance |-> f, minGasPrice |-> 1]
           h == [k \in {0} |-> s]
<1>2. Len(blocks) = 0
  BY DEF Init
<1>3. h[0] = s /\ s.height = 0
  OBVIOUS
<1> HIDE DEF s
<1>4. \A n \in Nodes : committed[n] = s
  BY <1>1 DEF s
<1> HIDE DEF h
<1>5. IsHistory(h)
  BY <1>2, <1>3, <1>4 DEF IsHistory
<1> QED
  BY <1>5 DEF HistInv

\* A decided block extends the history; a commit moves a node along it.
LEMMA HistNext == IInv /\ HistInv /\ [Next]_vars => HistInv'
<1> SUFFICES ASSUME IInv, HistInv, [Next]_vars PROVE HistInv'
  OBVIOUS
<1>0. blocks \in Seq(Transfers) /\ Len(blocks) \in Nat /\ committed \in [Nodes -> State]
  BY DEF IInv, TypeOK
<1>1. PICK h : IsHistory(h)
  BY DEF HistInv
<1>2. ASSUME NEW t \in Transfers, Decide(t) PROVE HistInv'
  <2> DEFINE L == Len(blocks)
             more == [k \in 0 .. L + 1 |->
                         IF k <= L THEN h[k] ELSE AfterBlock(h[L], t, locked)]
  <2>1. /\ blocks' = Append(blocks, t) /\ locked' = locked /\ committed' = committed
    BY <1>2 DEF Decide
  <2>2. /\ Len(blocks') = L + 1 /\ blocks'[L + 1] = t
        /\ \A i \in 1 .. L : blocks'[i] = blocks[i]
    BY <1>0, <2>1
  <2>3. PICK g : /\ \A k \in 0 .. L : g[k] = h[k]
                 /\ g[L + 1] = AfterBlock(h[L], t, locked)
    <3>1. /\ \A k \in 0 .. L : more[k] = h[k]
          /\ more[L + 1] = AfterBlock(h[L], t, locked)
      BY <1>0
    <3> QED
      BY <3>1
  <2>4. ASSUME NEW k \in 0 .. Len(blocks') - 1
        PROVE  g[k + 1] = AfterBlock(g[k], blocks'[k + 1], locked)
    <3>1. CASE k = L
      <4>1. g[k] = h[L] /\ g[k + 1] = g[L + 1] /\ blocks'[k + 1] = t
        BY <1>0, <2>2, <2>3, <3>1
      <4> QED
        BY <2>3, <4>1
    <3>2. CASE k # L
      <4>1. k \in 0 .. L - 1 /\ k \in 0 .. L /\ k + 1 \in 0 .. L /\ k + 1 \in 1 .. L
        BY <1>0, <2>2, <3>2
      <4>2. h[k + 1] = AfterBlock(h[k], blocks[k + 1], locked)
        BY <1>1, <4>1 DEF IsHistory
      <4>3. g[k] = h[k] /\ g[k + 1] = h[k + 1] /\ blocks'[k + 1] = blocks[k + 1]
        BY <2>2, <2>3, <4>1
      <4> QED
        BY <4>2, <4>3
    <3> QED
      BY <3>1, <3>2
  <2>5. ASSUME NEW n \in Nodes
        PROVE  /\ committed[n].height \in 0 .. Len(blocks')
               /\ committed[n] = g[committed[n].height]
    BY <1>0, <1>1, <2>2, <2>3 DEF IsHistory
  <2>6. IsHistory(g)'
    BY <2>1, <2>4, <2>5 DEF IsHistory
  <2> QED
    BY <2>6 DEF HistInv
<1>3. ASSUME UNCHANGED <<blocks, locked>> PROVE HistInv'
  <2>1. ASSUME NEW n \in Nodes
        PROVE  /\ committed'[n].height \in 0 .. Len(blocks)
               /\ committed'[n] = h[committed'[n].height]
    <3>1. CASE committed'[n] = committed[n]
      BY <1>1, <3>1 DEF IsHistory
    <3>2. CASE committed'[n] # committed[n]
      <4> DEFINE k == committed[n].height
      <4>1. /\ committed[n] \in State /\ k < Len(blocks)
            /\ committed'[n] = AfterBlock(committed[n], blocks[k + 1], locked)
        BY <3>2, CommitWritesBlock
      <4>2. committed'[n].height = k + 1
        BY <4>1, BlockLedger
      <4>3. k \in 0 .. Len(blocks) - 1 /\ k + 1 \in 0 .. Len(blocks)
        BY <1>0, <4>1, StateFields
      <4>4. committed[n] = h[k] /\ h[k + 1] = AfterBlock(h[k], blocks[k + 1], locked)
        BY <1>1, <4>3 DEF IsHistory
      <4> QED
        BY <4>1, <4>2, <4>3, <4>4
    <3> QED
      BY <3>1, <3>2
  <2>2. IsHistory(h)'
    BY <1>1, <1>3, <2>1 DEF IsHistory
  <2> QED
    BY <2>2 DEF HistInv
<1> QED
  BY <1>2, <1>3
     DEF Next, vars, Execute, StartBlock, ApplyHotfix, CollectBurn, BurnCollected,
         BurnCoins, BurnDone, ModulesBeginBlock, DeliverTxs, Commit, Crash, Restart

\* Nodes that have committed the same height are in the same state, however
\* far apart in time, and whatever each of them had to execute again.
THEOREM NodesAgree == Spec => []Agreement
<1>1. HistInv => Agreement
  BY DEF HistInv, IsHistory, Agreement
<1> QED
  BY <1>1, IInvInit, IInvNext, HistInit, HistNext, PTL DEF Spec

=============================================================================
