----------------------- MODULE ZeroHeightExportProofs -----------------------
(***************************************************************************)
(* Safety of the zero height export, for any validators, delegations,      *)
(* rewards and fractions of a token.                                       *)
(***************************************************************************)
EXTENDS ZeroHeightExport, ArithmeticProofs

ValidatorPasses == {"commission", "validators", "staking"}
DelegationPasses == {"rewards", "delegations"}
OtherPasses == {"parse", "clear", "unbonding", "set", "slashing", "done", "panicked"}

PassInv ==
    /\ pass \in ValidatorPasses \cup DelegationPasses \cup OtherPasses
    /\ pass \in ValidatorPasses => todo \subseteq Validators
    /\ pass \in DelegationPasses => todo \subseteq Delegations

\* The delegations whose rewards have not been withdrawn.
Unpaid == CASE pass \in {"parse", "commission"} -> Delegations
            [] pass = "rewards"               -> todo
            [] OTHER                          -> {}

PaidInv ==
    pass # "panicked" =>
        \A d \in Delegations :
            s.paid[d] = IF d \in Unpaid \cup s.refused THEN 0 ELSE s.claim[d] \div Unit

StrandedInv == s.refused \cap Validators = {} => s.stranded = 0

\* References to the period p of validator v, by the delegations in D and by
\* the current period.
Refs(t, v, D, p) ==
    Cardinality({d \in D : t.start[d].period = p}) + (IF p = t.period[v] - 1 THEN 1 ELSE 0)

\* The records of validator v, when those in D are all the delegations to it
\* that have begun.
Counts(t, v, D) ==
    /\ DOMAIN t.hist[v] = {t.start[d].period : d \in D} \cup {t.period[v] - 1}
    /\ \A p \in DOMAIN t.hist[v] : t.hist[v][p] = Refs(t, v, D, p)
    /\ \A d \in D : t.start[d].period <= t.period[v] - 1

Begun == IF pass = "delegations" THEN Delegations \ todo ELSE Delegations

RecordsInv ==
    /\ pass \in {"validators", "delegations"} => DOMAIN s.hist = Validators
    /\ pass = "validators" =>
           \A v \in Validators :
               IF v \in todo THEN DOMAIN s.hist[v] = {} ELSE Counts(s, v, {})
    /\ pass \in {"delegations", "unbonding", "staking", "set", "slashing", "done"} =>
           /\ \A v \in Validators : Counts(s, v, Of(v) \cap Begun)
           /\ \A d \in Begun : s.start[d].height = 0

IInv ==
    /\ s \in State(s.hist)
    /\ PassInv
    /\ Covered(s)
    /\ Reserved(s, Unpaid)
    /\ PaidInv
    /\ StrandedInv
    /\ RecordsInv

-----------------------------------------------------------------------------
(***************************************************************************)
(* Arithmetic and the operators of x/distribution.                         *)
(***************************************************************************)

\* What ExportAssumption says.
LEMMA Constants ==
    /\ IsFiniteSet(Validators) /\ IsFiniteSet(Delegations)
    /\ Unit \in Nat /\ Unit > 0
    /\ \A d \in Delegations : validatorOf[d] \in Validators
    /\ \A v \in Validators : IsFiniteSet(Of(v)) /\ Of(v) \subseteq Delegations
<1>1. \A v \in Validators : Of(v) \subseteq Delegations
  BY DEF Of
<1> QED
  BY <1>1, ExportAssumption, FS_Subset

\* Rewards are whole tokens and a fraction.
LEMMA WholeAndFraction ==
    ASSUME NEW r \in Nat
    PROVE  /\ r \div Unit \in Nat /\ r % Unit \in Nat
           /\ r = (r \div Unit) * Unit + (r % Unit)
           /\ (r \div Unit) * Unit <= r
<1>1. Unit \in Nat /\ Unit > 0
  BY Constants
<1>2. r = Unit * (r \div Unit) + (r % Unit) /\ r % Unit \in 0 .. Unit - 1 /\ r \div Unit \in Int
  BY <1>1
<1> DEFINE q == r \div Unit
<1>3. ASSUME q < 0 PROVE FALSE
  <2>1. q + 1 <= 0
    BY <1>2, <1>3
  <2>2. Unit * (q + 1) <= 0
    BY <2>1, <1>1, <1>2
  <2>3. Unit * (q + 1) = Unit * q + Unit
    BY <1>1, <1>2
  <2> QED
    BY <2>2, <2>3, <1>1, <1>2
<1>4. Unit * q = q * Unit
  BY <1>1, <1>2
<1> QED
  BY <1>1, <1>2, <1>3, <1>4

\* Of two amounts the smaller one is paid.
LEMMA SmallerIsPaid ==
    ASSUME NEW a \in Nat, NEW b \in Nat, a <= b
    PROVE  Min({a, b}) = a
  BY DEF Min

\* The module account can pay whole tokens that are part of what it holds.
LEMMA AccountCanPay ==
    ASSUME NEW balance \in Nat, NEW whole \in Nat, whole * Unit <= balance * Unit
    PROVE  /\ balance - whole \in Nat
           /\ (balance - whole) * Unit = balance * Unit - whole * Unit
<1>1. Unit \in Nat /\ Unit > 0
  BY Constants
<1>2. ASSUME balance < whole PROVE FALSE
  <2>1. (balance + 1) * Unit <= whole * Unit
    BY <1>1, <1>2
  <2>2. (balance + 1) * Unit = balance * Unit + Unit
    BY <1>1
  <2> QED
    BY <2>1, <2>2, <1>1
<1>3. (balance - whole) * Unit = balance * Unit - whole * Unit
  BY <1>1
<1> QED
  BY <1>2, <1>3

\* The outstanding rewards of a validator are part of what the module
\* account holds.
LEMMA OutstandingHeld ==
    ASSUME NEW t, t \in State(t.hist), Covered(t), NEW v \in Validators
    PROVE  /\ t.outstanding[v] <= t.moduleBalance * Unit
           /\ SumFunctionOnSet(t.outstanding, Validators) \in Nat
<1>1. /\ t.outstanding \in [Validators -> Nat]
      /\ t.communityPool \in Nat /\ t.moduleBalance \in Nat /\ t.stranded \in Nat
  BY DEF State
<1>2. SumFunctionOnSet(t.outstanding, Validators) \in Nat
  BY <1>1, Constants, SumType
<1>3. t.outstanding[v] <= SumFunctionOnSet(t.outstanding, Validators)
  BY <1>1, Constants, SumBound
<1>4. t.outstanding[v] \in Nat
  BY <1>1
<1> QED
  BY <1>1, <1>2, <1>3, <1>4 DEF Covered

\* Changing what is outstanding for one validator changes the sum by as much.
LEMMA OutstandingSum ==
    ASSUME NEW f \in [Validators -> Nat], NEW v \in Validators, NEW n \in Nat
    PROVE  SumFunctionOnSet([f EXCEPT ![v] = n], Validators)
               = SumFunctionOnSet(f, Validators) - f[v] + n
<1> DEFINE g == [f EXCEPT ![v] = n]
<1>1. g[v] = n /\ \A w \in Validators : f[w] \in Int /\ g[w] \in Int
  OBVIOUS
<1>2. \A w \in Validators \ {v} : g[w] = f[w]
  OBVIOUS
<1>3. IsFiniteSet(Validators)
  BY Constants
<1>4. SumFunctionOnSet(g, Validators) = SumFunctionOnSet(f, Validators) - f[v] + g[v]
  <2> HIDE DEF g
  <2> QED
    BY <1>1, <1>2, <1>3, SumUpdate
<1> QED
  BY <1>1, <1>4

\* The state u after a period of v has ended in the state t.
Incremented(t, v, u) ==
    /\ u \in State(u.hist) /\ Covered(u)
    /\ u.claim = t.claim /\ u.paid = t.paid /\ u.commission = t.commission
    /\ u.tokens = t.tokens /\ u.start = t.start
    /\ u.refused = t.refused /\ u.stranded = t.stranded
    /\ u.current = [t.current EXCEPT ![v] = 0]
    /\ u.outstanding = [t.outstanding EXCEPT ![v] = @ - Unclaimed(t, v)]
    /\ u.period = [t.period EXCEPT ![v] = @ + 1]
    /\ u.hist = [t.hist EXCEPT ![v] = Record(Release(@, t.period[v] - 1), t.period[v])]

\* Ending a period moves rewards nobody has a share in to the community pool,
\* and leaves claims, payments and commission alone.
LEMMA IncrementEffect ==
    ASSUME NEW t, t \in State(t.hist), Covered(t), NEW v \in Validators,
           Unclaimed(t, v) <= t.outstanding[v]
    PROVE  Incremented(t, v, IncrementValidatorPeriod(t, v))
<1> DEFINE u == IncrementValidatorPeriod(t, v)
           g == Unclaimed(t, v)
           out == [t.outstanding EXCEPT ![v] = @ - g]
           h == [t.hist EXCEPT ![v] = Record(Release(@, t.period[v] - 1), t.period[v])]
<1>1. /\ t.outstanding \in [Validators -> Nat] /\ t.current \in [Validators -> Nat]
      /\ t.tokens \in [Validators -> Nat] /\ t.period \in [Validators -> Nat \ {0}]
      /\ t.communityPool \in Nat /\ t.moduleBalance \in Nat /\ t.stranded \in Nat
  BY DEF State
<1>2. g \in Nat
  BY <1>1 DEF Unclaimed
<1>3. u = [t EXCEPT !.hist = h,
                    !.period = [t.period EXCEPT ![v] = @ + 1],
                    !.current = [t.current EXCEPT ![v] = 0],
                    !.outstanding = out,
                    !.communityPool = @ + g]
  BY <1>1 DEF IncrementValidatorPeriod, State
<1> HIDE DEF u
<1>4. out \in [Validators -> Nat]
  BY <1>1, <1>2
<1>5. [t.period EXCEPT ![v] = @ + 1] \in [Validators -> Nat \ {0}]
  BY <1>1
<1>6. [t.current EXCEPT ![v] = 0] \in [Validators -> Nat]
  BY <1>1
<1>7. t.communityPool + g \in Nat
  BY <1>1, <1>2
<1> HIDE DEF g, out, h
<1>8. /\ u.claim = t.claim /\ u.paid = t.paid /\ u.commission = t.commission
      /\ u.tokens = t.tokens /\ u.start = t.start /\ u.moduleBalance = t.moduleBalance
      /\ u.refused = t.refused /\ u.stranded = t.stranded
      /\ u.current = [t.current EXCEPT ![v] = 0]
      /\ u.outstanding = out
      /\ u.period = [t.period EXCEPT ![v] = @ + 1]
      /\ u.hist = h
      /\ u.communityPool = t.communityPool + g
  BY <1>3 DEF State
<1>9. u \in State(u.hist)
  BY <1>3, <1>4, <1>5, <1>6, <1>7, <1>8 DEF State
<1>10. Covered(u)
  <2>1. SumFunctionOnSet(out, Validators)
            = SumFunctionOnSet(t.outstanding, Validators) - t.outstanding[v]
              + (t.outstanding[v] - g)
    <3>1. t.outstanding[v] - g \in Nat
      BY <1>1, <1>2 DEF g
    <3> QED
      BY <3>1, <1>1, OutstandingSum DEF out
  <2>2. SumFunctionOnSet(t.outstanding, Validators) \in Nat
    BY OutstandingHeld
  <2>3. t.outstanding[v] \in Nat
    BY <1>1
  <2> QED
    BY <2>1, <2>2, <2>3, <1>1, <1>2, <1>8 DEF Covered
<1>11. Incremented(t, v, u)
  BY <1>8, <1>9, <1>10 DEF Incremented, out, g, h
<1> QED
  BY <1>11 DEF u

\* The state u after the whole claim of d was paid in the state t.
Paid(t, d, u) ==
    /\ u \in State(u.hist) /\ Covered(u)
    /\ u.claim = t.claim /\ u.commission = t.commission /\ u.current = t.current
    /\ u.tokens = t.tokens /\ u.start = t.start /\ u.period = t.period
    /\ u.refused = t.refused /\ u.stranded = t.stranded
    /\ u.paid = [t.paid EXCEPT ![d] = @ + t.claim[d] \div Unit]
    /\ u.outstanding = [t.outstanding EXCEPT ![validatorOf[d]] = @ - t.claim[d]]

\* A delegation whose claim is outstanding is paid the whole tokens of it.
LEMMA PayEffect ==
    ASSUME NEW t, t \in State(t.hist), Covered(t), NEW d \in Delegations,
           t.claim[d] <= t.outstanding[validatorOf[d]]
    PROVE  Paid(t, d, PayRewards(t, d))
<1> DEFINE u == PayRewards(t, d)
           v == validatorOf[d]
           r == t.claim[d]
           w == r \div Unit
           out == [t.outstanding EXCEPT ![v] = @ - r]
           h == [t.hist EXCEPT ![v] = Release(@, t.start[d].period)]
<1>1. /\ t.outstanding \in [Validators -> Nat] /\ t.claim \in [Delegations -> Nat]
      /\ t.paid \in [Delegations -> Nat]
      /\ t.communityPool \in Nat /\ t.moduleBalance \in Nat /\ t.stranded \in Nat
  BY DEF State
<1>2. v \in Validators /\ r \in Nat /\ t.outstanding[v] \in Nat
  BY <1>1, Constants
<1>3. Min({r, t.outstanding[v]}) = r
  BY <1>2, SmallerIsPaid
<1>4. w \in Nat /\ r % Unit \in Nat /\ r = w * Unit + (r % Unit) /\ w * Unit <= r
  BY <1>2, WholeAndFraction
<1>5. u = [t EXCEPT !.paid = [t.paid EXCEPT ![d] = @ + w],
                    !.moduleBalance = @ - w,
                    !.outstanding = out,
                    !.communityPool = @ + (r % Unit),
                    !.hist = h]
  BY <1>1, <1>3 DEF PayRewards, State
<1> HIDE DEF u
<1>6. out \in [Validators -> Nat]
  BY <1>1, <1>2
<1>7. [t.paid EXCEPT ![d] = @ + w] \in [Delegations -> Nat]
  BY <1>1, <1>4
<1>8. /\ t.moduleBalance - w \in Nat
      /\ (t.moduleBalance - w) * Unit = t.moduleBalance * Unit - w * Unit
  <2>1. w * Unit <= t.moduleBalance * Unit
    <3>1. t.outstanding[v] <= t.moduleBalance * Unit
      BY <1>2, OutstandingHeld
    <3>2. w * Unit \in Int /\ t.moduleBalance * Unit \in Int
      BY <1>1, <1>4, Constants
    <3> QED
      BY <3>1, <3>2, <1>2, <1>4
  <2> QED
    BY <2>1, <1>1, <1>4, AccountCanPay
<1>9. t.communityPool + (r % Unit) \in Nat
  BY <1>1, <1>4
<1> HIDE DEF v, r, w, out, h
<1>10. /\ u.claim = t.claim /\ u.commission = t.commission /\ u.current = t.current
       /\ u.tokens = t.tokens /\ u.start = t.start /\ u.period = t.period
       /\ u.refused = t.refused /\ u.stranded = t.stranded
       /\ u.paid = [t.paid EXCEPT ![d] = @ + w]
       /\ u.moduleBalance = t.moduleBalance - w
       /\ u.outstanding = out
       /\ u.hist = h
       /\ u.communityPool = t.communityPool + (r % Unit)
  BY <1>5 DEF State
<1>11. u \in State(u.hist)
  BY <1>5, <1>6, <1>7, <1>8, <1>9, <1>10 DEF State
<1>12. Covered(u)
  <2>1. SumFunctionOnSet(out, Validators)
            = SumFunctionOnSet(t.outstanding, Validators) - t.outstanding[v]
              + (t.outstanding[v] - r)
    <3>1. t.outstanding[v] - r \in Nat
      BY <1>2 DEF r, v
    <3> QED
      BY <3>1, <1>1, <1>2, OutstandingSum DEF out
  <2>2. SumFunctionOnSet(t.outstanding, Validators) \in Nat
    BY <1>2, OutstandingHeld
  <2>3. w * Unit \in Int /\ t.moduleBalance * Unit \in Int
    BY <1>1, <1>4, Constants
  <2> QED
    BY <2>1, <2>2, <2>3, <1>1, <1>2, <1>4, <1>8, <1>10 DEF Covered
<1>13. Paid(t, d, u)
  BY <1>10, <1>11, <1>12 DEF Paid, out, r, v, w
<1> QED
  BY <1>13 DEF u

\* The state u after d has begun, at some height, in the state t.
Initialized(t, d, height, u) ==
    /\ u \in State(u.hist) /\ Covered(u)
    /\ u.claim = t.claim /\ u.commission = t.commission /\ u.current = t.current
    /\ u.tokens = t.tokens /\ u.period = t.period /\ u.paid = t.paid
    /\ u.refused = t.refused /\ u.stranded = t.stranded
    /\ u.outstanding = t.outstanding
    /\ u.start = [t.start EXCEPT
           ![d] = [period |-> t.period[validatorOf[d]] - 1, height |-> height]]
    /\ u.hist = [t.hist EXCEPT
           ![validatorOf[d]] = Retain(@, t.period[validatorOf[d]] - 1)]

\* A delegation begins in the last period of its validator.
LEMMA InitializeEffect ==
    ASSUME NEW t, t \in State(t.hist), Covered(t), NEW d \in Delegations, NEW height \in Nat
    PROVE  Initialized(t, d, height, InitializeDelegation(t, d, height))
<1> DEFINE u == InitializeDelegation(t, d, height)
           v == validatorOf[d]
           st == [t.start EXCEPT ![d] = [period |-> t.period[v] - 1, height |-> height]]
           h == [t.hist EXCEPT ![v] = Retain(@, t.period[v] - 1)]
<1>1. /\ t.start \in [Delegations -> [period : Nat, height : Nat]]
      /\ t.period \in [Validators -> Nat \ {0}]
  BY DEF State
<1>2. v \in Validators
  BY Constants
<1>3. t.period[v] - 1 \in Nat
  BY <1>1, <1>2
<1>4. st \in [Delegations -> [period : Nat, height : Nat]]
  BY <1>1, <1>3
<1>5. u = [t EXCEPT !.hist = h, !.start = st]
  BY DEF InitializeDelegation, State
<1> HIDE DEF h, st, u
<1>6. /\ u.claim = t.claim /\ u.commission = t.commission /\ u.current = t.current
      /\ u.tokens = t.tokens /\ u.period = t.period /\ u.paid = t.paid
      /\ u.refused = t.refused /\ u.stranded = t.stranded
      /\ u.outstanding = t.outstanding /\ u.start = st /\ u.hist = h
      /\ u.moduleBalance = t.moduleBalance /\ u.communityPool = t.communityPool
  BY <1>5 DEF State
<1>7. u \in State(u.hist)
  BY <1>4, <1>5, <1>6 DEF State
<1>8. Covered(u)
  BY <1>6 DEF Covered
<1>9. Initialized(t, d, height, u)
  BY <1>6, <1>7, <1>8 DEF Initialized, h, st
<1> QED
  BY <1>9 DEF u

-----------------------------------------------------------------------------
(***************************************************************************)
(* The records of the periods.                                             *)
(***************************************************************************)

\* The claims of the delegations in D to v are that of d and the others.
Split(c, v, D, d) ==
    /\ SumFunctionOnSet(c, Of(v) \cap D) \in Nat
    /\ SumFunctionOnSet(c, Of(v) \cap (D \ {d})) \in Nat
    /\ SumFunctionOnSet(c, Of(v) \cap D) = c[d] + SumFunctionOnSet(c, Of(v) \cap (D \ {d}))

\* A delegation can be taken out of the sum of the claims on its validator.
LEMMA ClaimsWithout ==
    ASSUME NEW c \in [Delegations -> Nat], NEW D, D \subseteq Delegations, NEW d \in D
    PROVE  Split(c, validatorOf[d], D, d)
<1> DEFINE v == validatorOf[d]
           S == Of(v) \cap D
           R == Of(v) \cap (D \ {d})
<1>1. IsFiniteSet(S) /\ IsFiniteSet(R)
  BY Constants, FS_Subset
<1>2. (\A x \in S : c[x] \in Nat) /\ \A x \in R : c[x] \in Nat
  OBVIOUS
<1>3. d \in S /\ R = S \ {d} /\ \A x \in S : c[x] \in Int
  BY DEF Of
<1> HIDE DEF S, R
<1>4. SumFunctionOnSet(c, S) \in Nat /\ SumFunctionOnSet(c, R) \in Nat
  BY <1>1, <1>2, SumType
<1>5. SumFunctionOnSet(c, S) = c[d] + SumFunctionOnSet(c, R)
  BY <1>1, <1>3, SumRemove
<1> QED
  BY <1>4, <1>5 DEF Split, S, R

\* No delegation, no claim.
LEMMA NoClaims ==
    ASSUME NEW c, NEW v
    PROVE  SumFunctionOnSet(c, Of(v) \cap {}) = 0
<1>1. Of(v) \cap {} = {} /\ IsFiniteSet({})
  BY FS_EmptySet
<1> QED
  BY <1>1, SumRecursion

\* The first record of a validator is referred to by its current period only.
LEMMA FirstRecord ==
    ASSUME NEW t, NEW v, DOMAIN t.hist[v] = {0}, t.hist[v][0] = 1, t.period[v] = 1
    PROVE  Counts(t, v, {})
<1>1. {d \in {} : t.start[d].period = 0} = {}
  OBVIOUS
<1>2. Cardinality({}) = 0
  BY FS_EmptySet
<1>3. {t.start[d].period : d \in {}} = {}
  OBVIOUS
<1> QED
  BY <1>1, <1>2, <1>3 DEF Counts, Refs

\* What Release and Record make of the records.
LEMMA ReleaseEffect ==
    ASSUME NEW h, NEW p
    PROVE  /\ h[p] > 1 => /\ DOMAIN Release(h, p) = DOMAIN h
                          /\ \A q \in DOMAIN h : Release(h, p)[q] = IF q = p THEN h[q] - 1 ELSE h[q]
           /\ ~ (h[p] > 1) => /\ DOMAIN Release(h, p) = DOMAIN h \ {p}
                              /\ \A q \in DOMAIN h \ {p} : Release(h, p)[q] = h[q]
  BY DEF Release, Restrict

\* A new record has one reference.
LEMMA RecordEffect ==
    ASSUME NEW h, NEW p
    PROVE  /\ DOMAIN Record(h, p) = DOMAIN h \cup {p}
           /\ \A q \in DOMAIN h \cup {p} : Record(h, p)[q] = IF q = p THEN 1 ELSE h[q]
  BY DEF Record

\* One more reference to a record.
LEMMA RetainEffect ==
    ASSUME NEW h, NEW p
    PROVE  /\ DOMAIN Retain(h, p) = DOMAIN h
           /\ \A q \in DOMAIN h : Retain(h, p)[q] = IF q = p THEN h[q] + 1 ELSE h[q]
  BY DEF Retain

\* A period of the validator ends and a delegation to it begins: its records
\* are those of one more delegation.
LEMMA CountsOneMore ==
    ASSUME NEW t, t \in State(t.hist), NEW v \in Validators,
           NEW D, D \subseteq Delegations, NEW d \in Delegations \ D, Counts(t, v, D),
           NEW u, u.period[v] = t.period[v] + 1,
           u.start = [t.start EXCEPT ![d] = [period |-> t.period[v], height |-> 0]],
           u.hist[v] = Retain(Record(Release(t.hist[v], t.period[v] - 1), t.period[v]),
                              t.period[v])
    PROVE  Counts(u, v, D \cup {d})
<1> DEFINE p == t.period[v]
           from(q) == {e \in D : t.start[e].period = q}
           starts == {t.start[e].period : e \in D}
           h == Release(t.hist[v], p - 1)
           g == Record(h, p)
<1>1. p \in Nat /\ p > 0
  BY DEF State
<1>2. \A e \in D : t.start[e].period \in Nat /\ t.start[e].period <= p - 1
  BY DEF State, Counts
<1>3. \A q : IsFiniteSet(from(q)) /\ Cardinality(from(q)) \in Nat
             /\ (Cardinality(from(q)) = 0 <=> from(q) = {})
  <2>1. \A q : from(q) \subseteq Delegations
    OBVIOUS
  <2> QED
    BY <2>1, Constants, FS_Subset, FS_CardinalityType, FS_EmptySet
<1>4. /\ DOMAIN t.hist[v] = starts \cup {p - 1}
      /\ \A q \in starts \cup {p - 1} :
             t.hist[v][q] = Cardinality(from(q)) + (IF q = p - 1 THEN 1 ELSE 0)
  BY DEF Counts, Refs
<1>5. \A q : from(q) # {} <=> q \in starts
  OBVIOUS
<1> HIDE DEF from, starts, p
<1>6. /\ DOMAIN h = starts
      /\ \A q \in starts : h[q] = Cardinality(from(q))
  <2>1. t.hist[v][p - 1] = Cardinality(from(p - 1)) + 1
    BY <1>4
  <2>2. CASE p - 1 \in starts
    <3>1. t.hist[v][p - 1] > 1
      BY <2>1, <2>2, <1>3, <1>5
    <3>2. /\ DOMAIN h = DOMAIN t.hist[v]
          /\ \A q \in DOMAIN t.hist[v] :
                 h[q] = IF q = p - 1 THEN t.hist[v][q] - 1 ELSE t.hist[v][q]
      BY <3>1, ReleaseEffect
    <3> HIDE DEF h
    <3>3. DOMAIN h = starts
      BY <3>2, <2>2, <1>4
    <3>4. \A q \in starts : h[q] = Cardinality(from(q))
      BY <3>2, <1>3, <1>4
    <3> QED
      BY <3>3, <3>4
  <2>3. CASE p - 1 \notin starts
    <3>1. ~ (t.hist[v][p - 1] > 1)
      BY <2>1, <2>3, <1>3, <1>5
    <3>2. /\ DOMAIN h = DOMAIN t.hist[v] \ {p - 1}
          /\ \A q \in DOMAIN t.hist[v] \ {p - 1} : h[q] = t.hist[v][q]
      BY <3>1, ReleaseEffect, ZenonT(90)
    <3> HIDE DEF h
    <3>3. DOMAIN h = starts
      BY <3>2, <2>3, <1>4
    <3>4. \A q \in starts : h[q] = Cardinality(from(q))
      BY <3>2, <2>3, <1>3, <1>4
    <3> QED
      BY <3>3, <3>4
  <2> QED
    BY <2>2, <2>3
<1>7. p \notin starts
  BY <1>1, <1>2 DEF starts
<1> HIDE DEF h
<1>8. /\ DOMAIN g = starts \cup {p}
      /\ \A q \in starts : g[q] = Cardinality(from(q))
      /\ g[p] = 1
  <2>1. /\ DOMAIN g = DOMAIN h \cup {p}
        /\ \A q \in DOMAIN h \cup {p} : g[q] = IF q = p THEN 1 ELSE h[q]
    BY DEF Record
  <2> HIDE DEF g
  <2> QED
    BY <2>1, <1>6, <1>7
<1> HIDE DEF g
<1>9. /\ DOMAIN u.hist[v] = starts \cup {p}
      /\ \A q \in starts : u.hist[v][q] = Cardinality(from(q))
      /\ u.hist[v][p] = 2
  <2>1. u.hist[v] = Retain(g, p)
    BY DEF g, h, p
  <2> QED
    BY <2>1, <1>7, <1>8, RetainEffect
<1>10. /\ u.start[d].period = p
       /\ \A e \in D : u.start[e].period = t.start[e].period
  BY DEF State, p
<1>11. {u.start[e].period : e \in D \cup {d}} = starts \cup {p}
  BY <1>10 DEF starts
<1>12. /\ \A q \in starts : {e \in D \cup {d} : u.start[e].period = q} = from(q)
       /\ {e \in D \cup {d} : u.start[e].period = p} = {d}
  <2>1. \A e \in D : t.start[e].period # p
    BY <1>7 DEF starts
  <2> QED
    BY <2>1, <1>7, <1>10 DEF from
<1>13. u.period[v] - 1 = p
  BY <1>1 DEF p
<1>14. Cardinality({d}) = 1
  BY FS_Singleton
<1>15. \A q \in starts \cup {p} : u.hist[v][q] = Refs(u, v, D \cup {d}, q)
  <2>1. ASSUME NEW q \in starts PROVE u.hist[v][q] = Refs(u, v, D \cup {d}, q)
    <3>1. q # p
      BY <1>7
    <3>2. Refs(u, v, D \cup {d}, q) = Cardinality(from(q)) + 0
      <4>1. {e \in D \cup {d} : u.start[e].period = q} = from(q)
        BY <1>12
      <4> QED
        BY <4>1, <3>1, <1>13, Zenon DEF Refs
    <3> QED
      BY <3>2, <1>3, <1>9
  <2>2. u.hist[v][p] = Refs(u, v, D \cup {d}, p)
    <3>1. Refs(u, v, D \cup {d}, p) = Cardinality({d}) + 1
      <4>1. {e \in D \cup {d} : u.start[e].period = p} = {d}
        BY <1>12
      <4> QED
        BY <4>1, <1>13, Zenon DEF Refs
    <3> QED
      BY <3>1, <1>9, <1>14
  <2> QED
    BY <2>1, <2>2
<1>16. \A e \in D \cup {d} : u.start[e].period <= p
  BY <1>1, <1>2, <1>10 DEF p
<1> QED
  BY <1>9, <1>11, <1>13, <1>15, <1>16 DEF Counts

\* The records of a validator depend on nothing else.
LEMMA CountsSame ==
    ASSUME NEW t, NEW u, NEW v, NEW D, Counts(t, v, D),
           u.hist[v] = t.hist[v], u.period[v] = t.period[v],
           \A e \in D : u.start[e] = t.start[e]
    PROVE  Counts(u, v, D)
<1>1. \A p : {d \in D : u.start[d].period = p} = {d \in D : t.start[d].period = p}
  OBVIOUS
<1>2. \A p : Refs(u, v, D, p) = Refs(t, v, D, p)
  BY <1>1, Zenon DEF Refs
<1>3. {u.start[d].period : d \in D} = {t.start[d].period : d \in D}
  OBVIOUS
<1> QED
  BY <1>2, <1>3 DEF Counts

-----------------------------------------------------------------------------
(***************************************************************************)
(* Every step preserves the invariant.                                     *)
(***************************************************************************)

\* Without the claims less is reserved.
LEMMA ReservedForFewer ==
    ASSUME NEW t, t \in State(t.hist), Reserved(t, Delegations)
    PROVE  Reserved(t, {})
<1> SUFFICES ASSUME NEW v \in Validators
             PROVE  t.commission[v] + Unclaimed(t, v)
                        + SumFunctionOnSet(t.claim, Of(v) \cap {}) <= t.outstanding[v]
  BY DEF Reserved
<1>1. /\ t.commission[v] \in Nat /\ Unclaimed(t, v) \in Nat /\ t.outstanding[v] \in Nat
      /\ t.claim \in [Delegations -> Nat]
  BY DEF State, Unclaimed
<1>2. SumFunctionOnSet(t.claim, Of(v) \cap Delegations) \in Nat
  <2>1. IsFiniteSet(Of(v) \cap Delegations)
    BY Constants, FS_Subset
  <2>2. \A d \in Of(v) \cap Delegations : t.claim[d] \in Nat
    BY <1>1
  <2> QED
    BY <2>1, <2>2, SumType
<1>3. SumFunctionOnSet(t.claim, Of(v) \cap {}) = 0
  BY NoClaims
<1>4. t.commission[v] + Unclaimed(t, v)
          + SumFunctionOnSet(t.claim, Of(v) \cap Delegations) <= t.outstanding[v]
  BY DEF Reserved
<1> QED
  BY <1>1, <1>2, <1>3, <1>4

\* A chain that is exported satisfies the invariant.
LEMMA InitInv == Init => IInv
<1> SUFFICES ASSUME Init PROVE IInv
  OBVIOUS
<1>1. s \in State(s.hist) /\ Covered(s) /\ Reserved(s, Delegations)
      /\ s.stranded = 0 /\ \A d \in Delegations : s.paid[d] = 0
  BY ChainsAssumption DEF Init
<1>2. Unpaid = Delegations
  BY DEF Init, Unpaid
<1>3. PassInv /\ RecordsInv
  BY DEF Init, PassInv, RecordsInv, ValidatorPasses, DelegationPasses, OtherPasses
<1>4. PaidInv /\ StrandedInv
  BY <1>1, <1>2 DEF PaidInv, StrandedInv
<1> QED
  BY <1>1, <1>2, <1>3, <1>4 DEF IInv

\* Reading the list changes nothing.
LEMMA ParseInv ==
    ASSUME IInv, ParseAllowList
    PROVE  IInv'
<1>1. /\ pass = "parse" /\ s' = s
      /\ \/ pass' = "panicked"
         \/ pass' = "commission" /\ todo' = Validators
  BY DEF ParseAllowList, Enter
<1>2. PassInv' /\ RecordsInv'
  BY <1>1 DEF PassInv, RecordsInv, ValidatorPasses, DelegationPasses, OtherPasses
<1>3. Unpaid = Delegations /\ Unpaid' \in {Delegations, {}}
  BY <1>1 DEF Unpaid
<1>4. Reserved(s, Delegations)
  BY <1>3 DEF IInv
<1>5. s \in State(s.hist)
  BY DEF IInv
<1>6. Reserved(s, {})
  BY <1>4, <1>5, ReservedForFewer
<1>7. Reserved(s, Unpaid)'
  <2>1. Reserved(s, Unpaid')
    BY <1>3, <1>4, <1>6
  <2> QED
    BY <2>1, <1>1 DEF Reserved, Unclaimed
<1>8. PaidInv' /\ StrandedInv'
  BY <1>1, <1>3 DEF IInv, PaidInv, StrandedInv, Unpaid
<1>9. Covered(s)'
  BY <1>1 DEF IInv, Covered
<1> QED
  BY <1>1, <1>2, <1>5, <1>7, <1>8, <1>9 DEF IInv

\* The passes after the records were begun anew change none of the accounts
\* and records.
LateSteps == ResetUnbonding \/ (\E v \in Validators : ResetValidator(v))
             \/ CloseIteratorFails \/ ApplyValidatorSet \/ ResetSigningInfos

\* They change heights, flags and the bonded set only.
LEMMA LateStepEffect ==
    ASSUME s \in State(s.hist), LateSteps
    PROVE  /\ s' \in State(s'.hist)
           /\ s'.hist = s.hist /\ s'.period = s.period /\ s'.start = s.start
           /\ s'.claim = s.claim /\ s'.paid = s.paid /\ s'.commission = s.commission
           /\ s'.current = s.current /\ s'.tokens = s.tokens
           /\ s'.outstanding = s.outstanding /\ s'.moduleBalance = s.moduleBalance
           /\ s'.communityPool = s.communityPool
           /\ s'.refused = s.refused /\ s'.stranded = s.stranded
<1>1. CASE ResetUnbonding
  BY <1>1 DEF ResetUnbonding, State
<1>2. CASE \E v \in Validators : ResetValidator(v)
  <2>1. PICK v \in Validators : ResetValidator(v)
    BY <1>2
  <2> DEFINE heights == [s.unbondingHeight EXCEPT ![v] = 0]
             flag == s.jailed[v] \/ (jailAllowedAddrs # {} /\ v \notin jailAllowedAddrs)
             flags == [s.jailed EXCEPT ![v] = flag]
  <2>2. s' = [s EXCEPT !.unbondingHeight = heights, !.jailed = flags]
    BY <2>1 DEF ResetValidator, State
  <2>3. heights \in [Validators -> Nat]
    BY DEF State
  <2>4. flags \in [Validators -> BOOLEAN]
    <3>1. flag \in BOOLEAN /\ s.jailed \in [Validators -> BOOLEAN]
      BY DEF State
    <3> HIDE DEF flag
    <3> QED
      BY <3>1, Zenon
  <2> HIDE DEF heights, flags
  <2> QED
    BY <2>2, <2>3, <2>4 DEF State
<1>3. CASE ApplyValidatorSet
  <2>1. PICK B \in TopSets(s) : s' = s \/ s' = [s EXCEPT !.bonded = B]
    BY <1>3 DEF ApplyValidatorSet
  <2>2. B \subseteq Validators
    BY <2>1 DEF TopSets, State
  <2> QED
    BY <2>1, <2>2, ZenonT(90) DEF State
<1>4. CASE ResetSigningInfos
  BY <1>4 DEF ResetSigningInfos, State
<1>5. CASE CloseIteratorFails
  BY <1>5 DEF CloseIteratorFails
<1> QED
  BY <1>1, <1>2, <1>3, <1>4, <1>5 DEF LateSteps

\* They go from one of the last passes to the next, or to the panic.
LEMMA LateStepPasses ==
    ASSUME PassInv, LateSteps
    PROVE  /\ PassInv'
           /\ pass \in {"unbonding", "staking", "set", "slashing"}
           /\ pass' \in {"staking", "set", "slashing", "done", "panicked"}
<1>1. CASE ResetUnbonding
  BY <1>1 DEF ResetUnbonding, Enter, PassInv, ValidatorPasses, DelegationPasses, OtherPasses
<1>2. CASE \E v \in Validators : ResetValidator(v)
  BY <1>2 DEF ResetValidator, Loop, Enter, PassInv,
              ValidatorPasses, DelegationPasses, OtherPasses
<1>3. CASE ApplyValidatorSet
  BY <1>3 DEF ApplyValidatorSet, Enter, PassInv,
              ValidatorPasses, DelegationPasses, OtherPasses
<1>4. CASE ResetSigningInfos
  BY <1>4 DEF ResetSigningInfos, Enter, PassInv,
              ValidatorPasses, DelegationPasses, OtherPasses
<1>5. CASE CloseIteratorFails
  BY <1>5 DEF CloseIteratorFails, Enter, PassInv,
              ValidatorPasses, DelegationPasses, OtherPasses
<1> QED
  BY <1>1, <1>2, <1>3, <1>4, <1>5 DEF LateSteps

\* The last passes preserve the invariant.
LEMMA LateStepInv ==
    ASSUME IInv, LateSteps
    PROVE  IInv'
<1>1. /\ s' \in State(s'.hist)
      /\ s'.hist = s.hist /\ s'.period = s.period /\ s'.start = s.start
      /\ s'.claim = s.claim /\ s'.paid = s.paid /\ s'.commission = s.commission
      /\ s'.current = s.current /\ s'.tokens = s.tokens
      /\ s'.outstanding = s.outstanding /\ s'.moduleBalance = s.moduleBalance
      /\ s'.communityPool = s.communityPool
      /\ s'.refused = s.refused /\ s'.stranded = s.stranded
  BY LateStepEffect DEF IInv
<1>2. /\ PassInv'
      /\ pass \in {"unbonding", "staking", "set", "slashing"}
      /\ pass' \in {"staking", "set", "slashing", "done", "panicked"}
  BY LateStepPasses DEF IInv
<1>3. Unpaid = {} /\ Unpaid' = {} /\ Begun = Delegations /\ Begun' = Delegations
  BY <1>2 DEF Unpaid, Begun
<1>4. Covered(s)' /\ Reserved(s, Unpaid)'
  BY <1>1, <1>3 DEF IInv, Covered, Reserved, Unclaimed
<1>5. PaidInv' /\ StrandedInv'
  BY <1>1, <1>2, <1>3 DEF IInv, PaidInv, StrandedInv
<1>6. RecordsInv'
  <2>1. \A v \in Validators : Counts(s, v, Of(v) \cap Delegations)
    BY <1>2, <1>3 DEF IInv, RecordsInv
  <2>2. \A v \in Validators : Counts(s', v, Of(v) \cap Delegations)
    BY <2>1, <1>1, CountsSame
  <2>3. \A d \in Delegations : s'.start[d].height = 0
    BY <1>1, <1>2, <1>3 DEF IInv, RecordsInv
  <2> QED
    BY <2>2, <2>3, <1>2, <1>3 DEF RecordsInv
<1> QED
  BY <1>1, <1>2, <1>4, <1>5, <1>6 DEF IInv

\* The loop variable of a pass: an item is visited, or the pass is over.
LEMMA LoopCases ==
    ASSUME NEW x, NEW next, NEW items, Loop(x, next, items)
    PROVE  \/ todo = {x} /\ pass' = next /\ todo' = items
           \/ todo # {x} /\ pass' = pass /\ todo' = todo \ {x}
  BY DEF Loop, Enter

\* Withdrawing the commission pays whole tokens out of what is outstanding.
LEMMA CommissionInv ==
    ASSUME IInv, NEW v \in Validators, WithdrawCommission(v)
    PROVE  IInv'
<1> DEFINE c == s.commission[v]
           w == c \div Unit
           o == s.outstanding[v]
           out == [s.outstanding EXCEPT ![v] = o - w * Unit]
           com == [s.commission EXCEPT ![v] = c % Unit]
           sent == IF v \in s.refused THEN 0 ELSE w
           ear == [s.earned EXCEPT ![v] = @ + sent]
           kept == (w - sent) * Unit
<1>1. /\ s.outstanding \in [Validators -> Nat] /\ s.commission \in [Validators -> Nat]
      /\ s.earned \in [Validators -> Nat] /\ s.claim \in [Delegations -> Nat]
      /\ s.current \in [Validators -> Nat] /\ s.tokens \in [Validators -> Nat]
      /\ s.communityPool \in Nat /\ s.moduleBalance \in Nat /\ s.stranded \in Nat
  BY DEF IInv, State
<1>2. c \in Nat /\ o \in Nat
  BY <1>1
<1>3. w \in Nat /\ c % Unit \in Nat /\ c = w * Unit + (c % Unit) /\ w * Unit <= c
  BY <1>2, WholeAndFraction
<1>4. w * Unit \in Nat
  BY <1>3, Constants
<1>5. pass = "commission" /\ v \in todo
  BY DEF WithdrawCommission
<1>6. /\ PassInv'
      /\ Unpaid = Delegations /\ Unpaid' = Delegations
      /\ pass' \in {"commission", "rewards"}
  <2>1. \/ pass' = "rewards" /\ todo' = Delegations
        \/ pass' = "commission" /\ todo' = todo \ {v}
    BY <1>5, LoopCases DEF WithdrawCommission
  <2>2. todo \subseteq Validators
    BY <1>5 DEF IInv, PassInv, ValidatorPasses
  <2> QED
    BY <2>1, <2>2, <1>5 DEF PassInv, ValidatorPasses, DelegationPasses, OtherPasses, Unpaid
<1>7. \A x \in Validators :
          SumFunctionOnSet(s.claim, Of(x) \cap Delegations) \in Nat
  <2> SUFFICES ASSUME NEW x \in Validators
               PROVE  SumFunctionOnSet(s.claim, Of(x) \cap Delegations) \in Nat
    OBVIOUS
  <2>1. IsFiniteSet(Of(x) \cap Delegations)
    BY Constants, FS_Subset
  <2>2. \A d \in Of(x) \cap Delegations : s.claim[d] \in Nat
    BY <1>1
  <2> QED
    BY <2>1, <2>2, SumType
<1>8. \A x \in Validators : Unclaimed(s, x) \in Nat
  BY <1>1 DEF Unclaimed
<1>9. \A x \in Validators :
          s.commission[x] + Unclaimed(s, x)
              + SumFunctionOnSet(s.claim, Of(x) \cap Delegations) <= s.outstanding[x]
  BY <1>6 DEF IInv, Reserved
<1> DEFINE g == Unclaimed(s, v)
           k == SumFunctionOnSet(s.claim, Of(v) \cap Delegations)
           paid == w * Unit
<1>a. g \in Nat /\ k \in Nat /\ c + g + k <= o
  BY <1>7, <1>8, <1>9
<1>b. paid \in Nat /\ paid <= c /\ c = paid + (c % Unit)
  BY <1>3, <1>4
<1> HIDE DEF g, k, paid
<1>10. w * Unit <= o /\ o - w * Unit \in Nat
  <2> HIDE DEF c, o, w
  <2>1. paid <= o /\ o - paid \in Nat
    BY <1>a, <1>b, <1>2
  <2> QED
    BY <2>1 DEF paid
<1>11. s' = [s EXCEPT !.commission = com, !.outstanding = out,
                      !.moduleBalance = @ - sent, !.earned = ear, !.stranded = @ + kept]
  BY <1>1 DEF WithdrawCommission, IInv, State
<1>12. /\ s.moduleBalance - sent \in Nat /\ kept \in Nat
       /\ (s.moduleBalance - sent) * Unit = s.moduleBalance * Unit - w * Unit + kept
       /\ v \notin s.refused => kept = 0
  <2>1. w * Unit <= s.moduleBalance * Unit
    <3>1. o <= s.moduleBalance * Unit
      BY OutstandingHeld DEF IInv
    <3>2. s.moduleBalance * Unit \in Int
      BY <1>1, Constants
    <3> QED
      BY <3>1, <3>2, <1>2, <1>4, <1>10
  <2>2. CASE v \in s.refused
    <3>1. sent = 0 /\ kept = w * Unit
      BY <2>2, <1>3
    <3>2. s.moduleBalance * Unit \in Int
      BY <1>1, Constants
    <3> QED
      BY <3>1, <3>2, <2>2, <1>1, <1>4
  <2>3. CASE v \notin s.refused
    <3>1. sent = w /\ kept = 0
      BY <2>3, <1>3, Constants
    <3>2. /\ s.moduleBalance - w \in Nat
          /\ (s.moduleBalance - w) * Unit = s.moduleBalance * Unit - w * Unit
      BY <2>1, <1>1, <1>3, AccountCanPay
    <3>3. s.moduleBalance * Unit \in Int
      BY <1>1, Constants
    <3> QED
      BY <3>1, <3>2, <3>3, <1>4
  <2> QED
    BY <2>2, <2>3
<1>13. /\ out \in [Validators -> Nat] /\ com \in [Validators -> Nat]
       /\ ear \in [Validators -> Nat]
  BY <1>1, <1>3, <1>10
<1>14. /\ SumFunctionOnSet(out, Validators)
              = SumFunctionOnSet(s.outstanding, Validators) - o + (o - w * Unit)
       /\ SumFunctionOnSet(s.outstanding, Validators) \in Nat
  BY <1>1, <1>10, OutstandingSum, OutstandingHeld DEF IInv
<1>15. /\ out[v] = o - w * Unit /\ com[v] = c % Unit
       /\ \A x \in Validators \ {v} : out[x] = s.outstanding[x] /\ com[x] = s.commission[x]
  BY <1>1
<1> HIDE DEF w, c, o, out, com, sent, ear, kept
<1>16. /\ s'.commission = com /\ s'.outstanding = out
       /\ s'.moduleBalance = s.moduleBalance - sent
       /\ s'.stranded = s.stranded + kept /\ s'.refused = s.refused
       /\ s'.claim = s.claim /\ s'.paid = s.paid /\ s'.current = s.current
       /\ s'.tokens = s.tokens /\ s'.communityPool = s.communityPool
  BY <1>11 DEF IInv, State
<1>17. s' \in State(s'.hist)
  <2>1. s.stranded + kept \in Nat
    BY <1>1, <1>12
  <2> QED
    BY <2>1, <1>11, <1>12, <1>13 DEF IInv, State
<1>18. Covered(s)'
  <2>1. s.moduleBalance * Unit =
            s.communityPool + SumFunctionOnSet(s.outstanding, Validators) + s.stranded
    BY DEF IInv, Covered
  <2>2. s.moduleBalance * Unit \in Int
    BY <1>1, Constants
  <2> QED
    BY <2>1, <2>2, <1>1, <1>2, <1>4, <1>12, <1>14, <1>16 DEF Covered
<1>19. Reserved(s, Unpaid)'
  <2> SUFFICES ASSUME NEW x \in Validators
               PROVE  com[x] + Unclaimed(s, x)
                          + SumFunctionOnSet(s.claim, Of(x) \cap Delegations) <= out[x]
    BY <1>6, <1>16 DEF Reserved, Unclaimed
  <2>1. CASE x = v
    <3>1. (c % Unit) + g + k <= o - paid
      BY <1>2, <1>3, <1>a, <1>b
    <3> QED
      BY <3>1, <2>1, <1>15 DEF g, k, paid
  <2>2. CASE x # v
    BY <2>2, <1>9, <1>15
  <2> QED
    BY <2>1, <2>2
<1>20. PaidInv' /\ StrandedInv'
  BY <1>1, <1>5, <1>6, <1>12, <1>16 DEF IInv, PaidInv, StrandedInv
<1>21. RecordsInv'
  BY <1>6 DEF RecordsInv
<1> QED
  BY <1>6, <1>17, <1>18, <1>19, <1>20, <1>21 DEF IInv

\* Withdrawing the rewards of a delegation pays the whole tokens of its claim:
\* what is outstanding covers it, whoever was paid before.  A withdrawal that
\* fails leaves the claim among what is outstanding.
LEMMA RewardsInv ==
    ASSUME IInv, NEW d \in Delegations, WithdrawRewards(d)
    PROVE  IInv'
<1> DEFINE v == validatorOf[d]
           t == IncrementValidatorPeriod(s, v)
           u == PayRewards(t, d)
           g == Unclaimed(s, v)
           r == s.claim[d]
           o == s.outstanding[v]
           k == SumFunctionOnSet(s.claim, Of(v) \cap todo)
           j == SumFunctionOnSet(s.claim, Of(v) \cap (todo \ {d}))
           c == s.commission[v]
<1>1. /\ s.outstanding \in [Validators -> Nat] /\ s.commission \in [Validators -> Nat]
      /\ s.claim \in [Delegations -> Nat] /\ s.paid \in [Delegations -> Nat]
      /\ s.current \in [Validators -> Nat] /\ s.tokens \in [Validators -> Nat]
      /\ s.height \in Nat
  BY DEF IInv, State
<1>2. v \in Validators
  BY Constants
<1>3. pass = "rewards" /\ d \in todo /\ todo \subseteq Delegations
  BY DEF WithdrawRewards, IInv, PassInv, DelegationPasses
<1>4. /\ PassInv' /\ Unpaid = todo /\ Unpaid' = todo \ {d}
      /\ pass' \in {"rewards", "clear"}
  <2>1. \/ pass' = "clear" /\ todo' = {} /\ todo = {d}
        \/ pass' = "rewards" /\ todo' = todo \ {d}
    BY <1>3, LoopCases DEF WithdrawRewards
  <2> QED
    BY <2>1, <1>3 DEF PassInv, ValidatorPasses, DelegationPasses, OtherPasses, Unpaid
<1>5. \A x \in Validators :
          s.commission[x] + Unclaimed(s, x)
              + SumFunctionOnSet(s.claim, Of(x) \cap todo) <= s.outstanding[x]
  BY <1>4 DEF IInv, Reserved
<1>6. /\ g \in Nat /\ r \in Nat /\ o \in Nat /\ c \in Nat
      /\ k \in Nat /\ j \in Nat /\ k = r + j
  <2>1. k \in Nat /\ j \in Nat /\ k = r + j
    <3>1. Split(s.claim, v, todo, d)
      BY <1>1, <1>3, ClaimsWithout
    <3> QED
      BY <3>1 DEF Split
  <2> QED
    BY <2>1, <1>1, <1>2 DEF Unclaimed
<1>7. c + g + k <= o
  BY <1>2, <1>5
<1>8. g <= o /\ r <= o - g /\ c + j <= o - g - r
  <2> HIDE DEF c, g, k, j, r, o
  <2> QED
    BY <1>6, <1>7
<1>9. /\ t \in State(t.hist) /\ Covered(t)
      /\ t.claim = s.claim /\ t.paid = s.paid /\ t.commission = s.commission
      /\ t.tokens = s.tokens /\ t.refused = s.refused /\ t.stranded = s.stranded
      /\ t.current = [s.current EXCEPT ![v] = 0]
      /\ t.outstanding = [s.outstanding EXCEPT ![v] = @ - g]
  <2>1. s \in State(s.hist) /\ Covered(s)
    BY DEF IInv
  <2>2. Unclaimed(s, v) <= s.outstanding[v]
    BY <1>8
  <2>3. Incremented(s, v, t)
    BY <2>1, <2>2, <1>2, IncrementEffect
  <2> HIDE DEF t
  <2> QED
    BY <2>3 DEF Incremented
<1> HIDE DEF t
<1>10. t.outstanding[v] = o - g
  BY <1>1, <1>2, <1>9
<1>11. /\ u \in State(u.hist) /\ Covered(u)
       /\ u.claim = s.claim /\ u.commission = s.commission /\ u.current = t.current
       /\ u.tokens = s.tokens /\ u.refused = s.refused /\ u.stranded = s.stranded
       /\ u.paid = [s.paid EXCEPT ![d] = @ + r \div Unit]
       /\ u.outstanding = [t.outstanding EXCEPT ![v] = @ - r]
  <2>1. t.claim[d] <= t.outstanding[validatorOf[d]]
    BY <1>8, <1>9, <1>10
  <2>2. Paid(t, d, u)
    BY <2>1, <1>9, PayEffect
  <2> HIDE DEF u
  <2> QED
    BY <2>2, <1>9 DEF Paid
<1> HIDE DEF u
<1>12. s' = IF RewardsRefused(t, d) THEN t ELSE InitializeDelegation(u, d, s.height)
  BY DEF WithdrawRewards, t, u
<1> DEFINE away == IF RewardsRefused(t, d) THEN 0 ELSE r
<1>w. r \div Unit \in Nat
  BY <1>6, WholeAndFraction
<1>13. /\ s' \in State(s'.hist) /\ Covered(s')
       /\ s'.claim = s.claim /\ s'.commission = s.commission /\ s'.current = t.current
       /\ s'.tokens = s.tokens /\ s'.refused = s.refused /\ s'.stranded = s.stranded
       /\ s'.paid[d] = IF d \in s.refused THEN s.paid[d] ELSE s.paid[d] + r \div Unit
       /\ \A e \in Delegations \ {d} : s'.paid[e] = s.paid[e]
       /\ s'.outstanding = [t.outstanding EXCEPT ![v] = @ - away]
  <2>1. RewardsRefused(t, d) <=> d \in s.refused /\ r \div Unit > 0
    <3>1. t.claim[d] = r /\ t.outstanding[validatorOf[d]] = o - g /\ o - g \in Nat /\ r <= o - g
      BY <1>6, <1>8, <1>9, <1>10
    <3>2. Min({t.claim[d], t.outstanding[validatorOf[d]]}) = r
      BY <3>1, <1>6, SmallerIsPaid
    <3> QED
      BY <3>2, <1>9 DEF RewardsRefused
  <2>2. CASE RewardsRefused(t, d)
    <3>1. s' = t /\ d \in s.refused
      BY <2>1, <2>2, <1>12
    <3>2. t.outstanding = [t.outstanding EXCEPT ![v] = @ - away]
      <4>1. t.outstanding \in [Validators -> Nat] /\ away = 0
        BY <2>2, <1>9 DEF State
      <4> QED
        BY <4>1
    <3> QED
      BY <3>1, <3>2, <1>9
  <2>3. CASE ~RewardsRefused(t, d)
    <3>1. Initialized(u, d, s.height, s')
      BY <2>3, <1>1, <1>11, <1>12, InitializeEffect
    <3>2. s'.paid = u.paid /\ s'.outstanding = u.outstanding /\ away = r
      BY <3>1, <2>3 DEF Initialized
    <3>3. /\ s'.paid[d] = s.paid[d] + r \div Unit
          /\ \A e \in Delegations \ {d} : s'.paid[e] = s.paid[e]
      BY <3>2, <1>1, <1>11
    <3>4. d \in s.refused => s'.paid[d] = s.paid[d]
      <4>1. s.paid[d] \in Nat
        BY <1>1
      <4> QED
        BY <4>1, <3>3, <2>1, <2>3, <1>w
    <3> QED
      BY <3>1, <3>2, <3>3, <3>4, <1>11 DEF Initialized
  <2> QED
    BY <2>2, <2>3
<1>o. away \in Nat /\ away <= r
  BY <1>6
<1> HIDE DEF away
<1>14. Reserved(s, Unpaid)'
  <2> SUFFICES ASSUME NEW x \in Validators
               PROVE  s.commission[x] + Unclaimed(s', x)
                          + SumFunctionOnSet(s.claim, Of(x) \cap (todo \ {d}))
                          <= s'.outstanding[x]
    BY <1>4, <1>13 DEF Reserved, Unclaimed
  <2>1. CASE x = v
    <3>1. Unclaimed(s', x) = 0
      BY <2>1, <1>1, <1>2, <1>9, <1>13 DEF Unclaimed
    <3>2. s'.outstanding[x] = o - g - away
      <4>1. t.outstanding \in [Validators -> Nat]
        BY <1>9 DEF State
      <4> QED
        BY <4>1, <2>1, <1>2, <1>10, <1>13
    <3>3. c + 0 + j <= o - g - away
      <4> HIDE DEF c, g, k, j, r, o
      <4> QED
        BY <1>6, <1>8, <1>o
    <3> QED
      BY <3>1, <3>2, <3>3, <2>1
  <2>2. CASE x # v
    <3>1. Unclaimed(s', x) = Unclaimed(s, x)
      BY <2>2, <1>1, <1>2, <1>9, <1>13 DEF Unclaimed
    <3>2. s'.outstanding[x] = s.outstanding[x]
      BY <2>2, <1>1, <1>2, <1>9, <1>13
    <3>3. Of(x) \cap (todo \ {d}) = Of(x) \cap todo
      BY <2>2 DEF Of
    <3> QED
      BY <3>1, <3>2, <3>3, <1>5
  <2> QED
    BY <2>1, <2>2
<1>15. PaidInv'
  <2> SUFFICES ASSUME NEW e \in Delegations
               PROVE  s'.paid[e] = IF e \in (todo \ {d}) \cup s.refused THEN 0
                                   ELSE s.claim[e] \div Unit
    BY <1>4, <1>13 DEF PaidInv
  <2>1. s.paid[e] = IF e \in todo \cup s.refused THEN 0 ELSE s.claim[e] \div Unit
    BY <1>3, <1>4 DEF IInv, PaidInv
  <2>2. CASE e = d
    <3>1. s.paid[d] = 0
      BY <2>1, <2>2, <1>3
    <3> QED
      BY <3>1, <2>2, <1>13, <1>w
  <2>3. CASE e # d
    BY <2>1, <2>3, <1>13
  <2> QED
    BY <2>2, <2>3
<1>s. StrandedInv'
  BY <1>13 DEF IInv, StrandedInv
<1>16. RecordsInv'
  BY <1>4 DEF RecordsInv
<1> QED
  BY <1>4, <1>13, <1>14, <1>15, <1>s, <1>16 DEF IInv

\* Deleting the records leaves every validator without one.
LEMMA ClearInv ==
    ASSUME IInv, ClearDistribution
    PROVE  IInv'
<1>1. /\ pass = "clear" /\ pass' = "validators" /\ todo' = Validators
      /\ s' = [s EXCEPT !.slashEvents = {}, !.hist = [v \in Validators |-> << >>]]
  BY DEF ClearDistribution, Enter
<1>2. /\ s' \in State(s'.hist) /\ s'.hist = [v \in Validators |-> << >>]
      /\ s'.claim = s.claim /\ s'.paid = s.paid /\ s'.commission = s.commission
      /\ s'.current = s.current /\ s'.tokens = s.tokens
      /\ s'.outstanding = s.outstanding /\ s'.moduleBalance = s.moduleBalance
      /\ s'.communityPool = s.communityPool
      /\ s'.refused = s.refused /\ s'.stranded = s.stranded
  BY <1>1 DEF IInv, State
<1>3. Unpaid = {} /\ Unpaid' = {}
  BY <1>1 DEF Unpaid
<1>4. PassInv'
  BY <1>1 DEF PassInv, ValidatorPasses, DelegationPasses, OtherPasses
<1>5. Covered(s)' /\ Reserved(s, Unpaid)' /\ PaidInv' /\ StrandedInv'
  BY <1>1, <1>2, <1>3 DEF IInv, Covered, Reserved, Unclaimed, PaidInv, StrandedInv
<1>6. RecordsInv'
  BY <1>1, <1>2 DEF RecordsInv
<1> QED
  BY <1>2, <1>4, <1>5, <1>6 DEF IInv

\* A validator that begins anew donates what is outstanding and has its first
\* record.
LEMMA ValidatorInv ==
    ASSUME IInv, NEW v \in Validators, ReinitializeValidator(v)
    PROVE  IInv'
<1> DEFINE o == s.outstanding[v]
           out == [s.outstanding EXCEPT ![v] = 0]
           com == [s.commission EXCEPT ![v] = 0]
           cur == [s.current EXCEPT ![v] = 0]
           h == [s.hist EXCEPT ![v] = Record(@, 0)]
           per == [s.period EXCEPT ![v] = 1]
<1>1. /\ s.outstanding \in [Validators -> Nat] /\ s.commission \in [Validators -> Nat]
      /\ s.current \in [Validators -> Nat] /\ s.period \in [Validators -> Nat \ {0}]
      /\ s.communityPool \in Nat /\ s.moduleBalance \in Nat /\ o \in Nat /\ s.stranded \in Nat
  BY DEF IInv, State
<1>2. pass = "validators" /\ v \in todo /\ todo \subseteq Validators
  BY DEF ReinitializeValidator, IInv, PassInv, ValidatorPasses
<1>3. \/ pass' = "delegations" /\ todo' = Delegations /\ todo = {v}
      \/ pass' = "validators" /\ todo' = todo \ {v}
  BY <1>2, LoopCases DEF ReinitializeValidator
<1>4. PassInv' /\ Unpaid = {} /\ Unpaid' = {}
  BY <1>2, <1>3 DEF PassInv, ValidatorPasses, DelegationPasses, OtherPasses, Unpaid
<1>5. s' = [s EXCEPT !.communityPool = @ + o, !.outstanding = out, !.commission = com,
                     !.current = cur, !.hist = h, !.period = per]
  BY DEF ReinitializeValidator, IInv, State
<1>6. /\ out \in [Validators -> Nat] /\ com \in [Validators -> Nat]
      /\ cur \in [Validators -> Nat] /\ per \in [Validators -> Nat \ {0}]
      /\ s.communityPool + o \in Nat
  BY <1>1
<1>7. /\ SumFunctionOnSet(out, Validators)
             = SumFunctionOnSet(s.outstanding, Validators) - o + 0
      /\ SumFunctionOnSet(s.outstanding, Validators) \in Nat
  BY <1>1, OutstandingSum, OutstandingHeld DEF IInv
<1>8. /\ out[v] = 0 /\ com[v] = 0 /\ cur[v] = 0 /\ per[v] = 1
      /\ \A x \in Validators \ {v} :
             /\ out[x] = s.outstanding[x] /\ com[x] = s.commission[x]
             /\ cur[x] = s.current[x] /\ per[x] = s.period[x]
  BY <1>1
<1>9. DOMAIN s.hist = Validators
  BY <1>2 DEF IInv, RecordsInv
<1>10. /\ DOMAIN h = Validators /\ h[v] = Record(s.hist[v], 0)
       /\ \A x \in Validators \ {v} : h[x] = s.hist[x]
  BY <1>9
<1> HIDE DEF o, out, com, cur, h, per
<1>11. /\ s'.commission = com /\ s'.outstanding = out /\ s'.current = cur
       /\ s'.hist = h /\ s'.period = per /\ s'.communityPool = s.communityPool + o
       /\ s'.claim = s.claim /\ s'.paid = s.paid /\ s'.tokens = s.tokens
       /\ s'.start = s.start /\ s'.moduleBalance = s.moduleBalance
       /\ s'.refused = s.refused /\ s'.stranded = s.stranded
  BY <1>5 DEF IInv, State
<1>12. s' \in State(s'.hist)
  BY <1>5, <1>6, <1>11 DEF IInv, State
<1>13. Covered(s)'
  <2>1. s.moduleBalance * Unit =
            s.communityPool + SumFunctionOnSet(s.outstanding, Validators) + s.stranded
    BY DEF IInv, Covered
  <2> QED
    BY <2>1, <1>1, <1>7, <1>11 DEF Covered
<1>14. Reserved(s, Unpaid)'
  <2> SUFFICES ASSUME NEW x \in Validators
               PROVE  com[x] + Unclaimed(s', x)
                          + SumFunctionOnSet(s.claim, Of(x) \cap {}) <= out[x]
    BY <1>4, <1>11 DEF Reserved
  <2>1. CASE x = v
    <3>1. Unclaimed(s', v) = 0
      BY <1>8, <1>11 DEF Unclaimed
    <3>2. SumFunctionOnSet(s.claim, Of(v) \cap {}) = 0
      BY NoClaims
    <3> QED
      BY <3>1, <3>2, <2>1, <1>8
  <2>2. CASE x # v
    <3>1. Unclaimed(s', x) = Unclaimed(s, x)
      BY <2>2, <1>8, <1>11 DEF Unclaimed
    <3> QED
      BY <3>1, <2>2, <1>4, <1>8 DEF IInv, Reserved
  <2> QED
    BY <2>1, <2>2
<1>15. PaidInv' /\ StrandedInv'
  BY <1>2, <1>4, <1>11 DEF IInv, PaidInv, StrandedInv
<1>16. Counts(s', v, {})
  <2>1. DOMAIN s.hist[v] = {}
    BY <1>2 DEF IInv, RecordsInv
  <2>2. DOMAIN s'.hist[v] = {0} /\ s'.hist[v][0] = 1
    <3> DEFINE f == Record(s.hist[v], 0)
    <3>1. /\ DOMAIN f = DOMAIN s.hist[v] \cup {0}
          /\ \A q \in DOMAIN s.hist[v] \cup {0} : f[q] = IF q = 0 THEN 1 ELSE s.hist[v][q]
      BY DEF Record
    <3>2. s'.hist[v] = f
      BY <1>10, <1>11
    <3> HIDE DEF f
    <3> QED
      BY <3>1, <3>2, <2>1
  <2> QED
    BY <2>2, <1>8, <1>11, FirstRecord
<1>17. \A x \in Validators \ {v} :
           IF x \in todo THEN DOMAIN s'.hist[x] = {} ELSE Counts(s', x, {})
  <2> SUFFICES ASSUME NEW x \in Validators \ {v}
               PROVE  IF x \in todo THEN DOMAIN s'.hist[x] = {} ELSE Counts(s', x, {})
    OBVIOUS
  <2>1. IF x \in todo THEN DOMAIN s.hist[x] = {} ELSE Counts(s, x, {})
    BY <1>2 DEF IInv, RecordsInv
  <2>2. s'.hist[x] = s.hist[x] /\ s'.period[x] = s.period[x]
    BY <1>8, <1>10, <1>11
  <2> QED
    BY <2>1, <2>2, CountsSame
<1>18. RecordsInv'
  <2>1. CASE pass' = "validators" /\ todo' = todo \ {v}
    BY <2>1, <1>10, <1>11, <1>16, <1>17 DEF RecordsInv
  <2>2. CASE pass' = "delegations" /\ todo' = Delegations /\ todo = {v}
    <3>1. Begun' = {}
      BY <2>2 DEF Begun
    <3>2. \A x \in Validators : Counts(s', x, {}) /\ Of(x) \cap {} = {}
      BY <2>2, <1>16, <1>17
    <3> QED
      BY <3>1, <3>2, <2>2, <1>10, <1>11 DEF RecordsInv
  <2> QED
    BY <2>1, <2>2, <1>3
<1> QED
  BY <1>4, <1>12, <1>13, <1>14, <1>15, <1>18 DEF IInv

\* A delegation that begins anew is one more in the records of its validator,
\* at height zero.
LEMMA DelegationInv ==
    ASSUME IInv, NEW d \in Delegations, ReinitializeDelegation(d)
    PROVE  IInv'
<1> DEFINE v == validatorOf[d]
           t == IncrementValidatorPeriod(s, v)
           g == Unclaimed(s, v)
<1>1. /\ s.outstanding \in [Validators -> Nat] /\ s.commission \in [Validators -> Nat]
      /\ s.current \in [Validators -> Nat] /\ s.tokens \in [Validators -> Nat]
      /\ s.period \in [Validators -> Nat \ {0}]
      /\ s.start \in [Delegations -> [period : Nat, height : Nat]]
  BY DEF IInv, State
<1>2. v \in Validators
  BY Constants
<1>3. pass = "delegations" /\ d \in todo /\ todo \subseteq Delegations
  BY DEF ReinitializeDelegation, IInv, PassInv, DelegationPasses
<1>4. /\ PassInv' /\ Unpaid = {} /\ Unpaid' = {}
      /\ pass' \in {"delegations", "unbonding"}
      /\ Begun = Delegations \ todo /\ Begun' = Begun \cup {d} /\ d \notin Begun
      /\ Begun \subseteq Delegations
  <2>1. \/ pass' = "unbonding" /\ todo' = {} /\ todo = {d}
        \/ pass' = "delegations" /\ todo' = todo \ {d}
    BY <1>3, LoopCases DEF ReinitializeDelegation
  <2> QED
    BY <2>1, <1>3 DEF PassInv, ValidatorPasses, DelegationPasses, OtherPasses, Unpaid, Begun
<1>5. \A x \in Validators : s.commission[x] + Unclaimed(s, x) <= s.outstanding[x]
  <2> SUFFICES ASSUME NEW x \in Validators
               PROVE  s.commission[x] + Unclaimed(s, x) <= s.outstanding[x]
    OBVIOUS
  <2>1. s.commission[x] + Unclaimed(s, x)
            + SumFunctionOnSet(s.claim, Of(x) \cap {}) <= s.outstanding[x]
    BY <1>4 DEF IInv, Reserved
  <2>2. SumFunctionOnSet(s.claim, Of(x) \cap {}) = 0
    BY NoClaims
  <2>3. s.commission[x] \in Nat /\ Unclaimed(s, x) \in Nat
    BY <1>1 DEF Unclaimed
  <2> QED
    BY <2>1, <2>2, <2>3
<1>6. g \in Nat /\ g <= s.outstanding[v] /\ s.commission[v] <= s.outstanding[v] - g
  BY <1>1, <1>2, <1>5 DEF Unclaimed
<1>7. Incremented(s, v, t)
  BY <1>2, <1>6, IncrementEffect DEF IInv
<1>8. Initialized(t, d, 0, s')
  <2>1. s' = InitializeDelegation(t, d, 0)
    BY DEF ReinitializeDelegation
  <2>2. t \in State(t.hist) /\ Covered(t)
    BY <1>7 DEF Incremented
  <2> HIDE DEF t
  <2> QED
    BY <2>1, <2>2, InitializeEffect
<1> HIDE DEF t
<1>9. /\ s' \in State(s'.hist) /\ Covered(s')
      /\ s'.claim = s.claim /\ s'.paid = s.paid /\ s'.commission = s.commission
      /\ s'.tokens = s.tokens /\ s'.refused = s.refused /\ s'.stranded = s.stranded
      /\ s'.current = [s.current EXCEPT ![v] = 0]
      /\ s'.outstanding = [s.outstanding EXCEPT ![v] = @ - g]
      /\ s'.period = [s.period EXCEPT ![v] = @ + 1]
      /\ s'.start = [s.start EXCEPT ![d] = [period |-> t.period[v] - 1, height |-> 0]]
      /\ s'.hist = [t.hist EXCEPT ![v] = Retain(@, t.period[v] - 1)]
      /\ t.period = [s.period EXCEPT ![v] = @ + 1]
      /\ t.hist = [s.hist EXCEPT ![v] = Record(Release(@, s.period[v] - 1), s.period[v])]
  BY <1>7, <1>8 DEF Incremented, Initialized
<1>10. Reserved(s, Unpaid)'
  <2> SUFFICES ASSUME NEW x \in Validators
               PROVE  s.commission[x] + Unclaimed(s', x)
                          + SumFunctionOnSet(s.claim, Of(x) \cap {}) <= s'.outstanding[x]
    BY <1>4, <1>9 DEF Reserved
  <2>1. SumFunctionOnSet(s.claim, Of(x) \cap {}) = 0
    BY NoClaims
  <2>2. CASE x = v
    <3>1. Unclaimed(s', x) = 0 /\ s'.outstanding[x] = s.outstanding[x] - g
      BY <2>2, <1>1, <1>2, <1>9 DEF Unclaimed
    <3>2. s.commission[x] \in Nat
      BY <1>1
    <3> QED
      BY <3>1, <3>2, <2>1, <2>2, <1>6
  <2>3. CASE x # v
    <3>1. Unclaimed(s', x) = Unclaimed(s, x) /\ s'.outstanding[x] = s.outstanding[x]
      BY <2>3, <1>1, <1>2, <1>9 DEF Unclaimed
    <3>2. s.commission[x] \in Nat /\ Unclaimed(s, x) \in Nat
      BY <1>1 DEF Unclaimed
    <3> QED
      BY <3>1, <3>2, <2>1, <1>5
  <2> QED
    BY <2>2, <2>3
<1>11. PaidInv' /\ StrandedInv'
  BY <1>3, <1>4, <1>9 DEF IInv, PaidInv, StrandedInv
<1>12. /\ DOMAIN s.hist = Validators
       /\ \A x \in Validators : Counts(s, x, Of(x) \cap Begun)
       /\ \A e \in Begun : s.start[e].height = 0
  BY <1>3 DEF IInv, RecordsInv
<1>13. t.period[v] = s.period[v] + 1 /\ t.period[v] - 1 = s.period[v]
  BY <1>1, <1>2, <1>9
<1>14. /\ DOMAIN s'.hist = Validators
       /\ s'.hist[v] = Retain(Record(Release(s.hist[v], s.period[v] - 1), s.period[v]),
                              s.period[v])
       /\ \A x \in Validators \ {v} : s'.hist[x] = s.hist[x]
  BY <1>2, <1>9, <1>12, <1>13
<1>15. /\ s'.period[v] = s.period[v] + 1
       /\ \A x \in Validators \ {v} : s'.period[x] = s.period[x]
  BY <1>1, <1>2, <1>9
<1>16. s'.start = [s.start EXCEPT ![d] = [period |-> s.period[v], height |-> 0]]
  BY <1>9, <1>13
<1>17. Counts(s', v, Of(v) \cap Begun')
  <2>1. Of(v) \cap Begun' = (Of(v) \cap Begun) \cup {d}
    BY <1>4 DEF Of
  <2>2. /\ Of(v) \cap Begun \subseteq Delegations /\ d \in Delegations \ (Of(v) \cap Begun)
        /\ Counts(s, v, Of(v) \cap Begun) /\ s \in State(s.hist)
    BY <1>2, <1>4, <1>12 DEF IInv
  <2> HIDE DEF v
  <2> QED
    BY <2>1, <2>2, <1>2, <1>14, <1>15, <1>16, CountsOneMore
<1>18. ASSUME NEW x \in Validators \ {v} PROVE Counts(s', x, Of(x) \cap Begun')
  <2>1. Of(x) \cap Begun' = Of(x) \cap Begun /\ d \notin Of(x)
    BY <1>4 DEF Of
  <2>2. \A e \in Of(x) \cap Begun : s'.start[e] = s.start[e]
    BY <2>1, <1>1, <1>4, <1>16
  <2> QED
    BY <2>1, <2>2, <1>12, <1>14, <1>15, CountsSame
<1>19. \A e \in Begun' : s'.start[e].height = 0
  BY <1>1, <1>4, <1>12, <1>16
<1>20. RecordsInv'
  BY <1>4, <1>14, <1>17, <1>18, <1>19 DEF RecordsInv
<1> QED
  BY <1>4, <1>9, <1>10, <1>11, <1>20 DEF IInv

-----------------------------------------------------------------------------
\* The invariant holds in every state of an export: the application's state
\* is well formed, balances are never negative, what is outstanding covers
\* the claims that are left, and the records count the delegations that have
\* begun anew.
THEOREM ExportInvariant == Spec => []IInv
<1>1. IInv /\ [Next]_vars => IInv'
  <2> SUFFICES ASSUME IInv, [Next]_vars PROVE IInv'
    OBVIOUS
  <2>1. CASE \E v \in Validators : WithdrawCommission(v)
    BY <2>1, CommissionInv
  <2>2. CASE \E d \in Delegations : WithdrawRewards(d)
    BY <2>2, RewardsInv
  <2>3. CASE ClearDistribution
    BY <2>3, ClearInv
  <2>4. CASE \E v \in Validators : ReinitializeValidator(v)
    BY <2>4, ValidatorInv
  <2>5. CASE \E d \in Delegations : ReinitializeDelegation(d)
    BY <2>5, DelegationInv
  <2>6. CASE LateSteps
    BY <2>6, LateStepInv
  <2>7. CASE UNCHANGED vars
    <3>1. s' = s /\ pass' = pass /\ todo' = todo
      BY <2>7 DEF vars
    <3>2. Unpaid' = Unpaid /\ Begun' = Begun
      BY <3>1 DEF Unpaid, Begun
    <3>3. PassInv' /\ PaidInv' /\ StrandedInv' /\ RecordsInv'
      BY <3>1, <3>2 DEF IInv, PassInv, PaidInv, StrandedInv, RecordsInv
    <3> QED
      BY <3>1, <3>2, <3>3 DEF IInv
  <2>8. CASE ParseAllowList
    BY <2>8, ParseInv
  <2> QED
    BY <2>1, <2>2, <2>3, <2>4, <2>5, <2>6, <2>7, <2>8 DEF Next, LateSteps
<1> QED
  BY <1>1, InitInv, PTL DEF Spec

\* ModuleAccountCovered: after every turn of every loop of
\* prepForZeroHeightGenesis, withdrawals that fail included, the distribution
\* module account holds exactly the community pool, the outstanding rewards
\* and the commission whose payment was refused.
THEOREM ExportLosesNothing == Spec => []ModuleAccountCovered
<1>1. IInv => ModuleAccountCovered
  BY DEF IInv, StrandedInv, ModuleAccountCovered
<1> QED
  BY <1>1, ExportInvariant, PTL

\* ClaimsPaidFirst: before prepForZeroHeightGenesis donates what is
\* outstanding, every delegation is paid the whole tokens of its claim,
\* whichever withdrawals of others failed; one whose withdraw address the
\* bank refuses is paid nothing.
THEOREM ExportPaysClaims == Spec => []ClaimsPaidFirst
<1>1. IInv => ClaimsPaidFirst
  BY DEF IInv, PaidInv, Unpaid, ClaimsPaidFirst
<1> QED
  BY <1>1, ExportInvariant, PTL

\* RecordsConsistent: the historical records in the exported genesis count
\* the delegations that refer to them, and delegations begin at height zero.
THEOREM ExportCountsReferences == Spec => []RecordsConsistent
<1>1. IInv => RecordsConsistent
  <2> SUFFICES ASSUME IInv, pass \in {"unbonding", "staking", "set", "slashing", "done"}
               PROVE  RecordsConsistent
    BY DEF RecordsConsistent
  <2>1. Begun = Delegations
    BY DEF Begun
  <2>2. \A v \in Validators : Of(v) \cap Delegations = Of(v)
    BY DEF Of
  <2>3. \A v \in Validators : Counts(s, v, Of(v))
    BY <2>1, <2>2 DEF IInv, RecordsInv
  <2>4. \A d \in Delegations : s.start[d].height = 0
    BY <2>1 DEF IInv, RecordsInv
  <2> QED
    BY <2>3, <2>4 DEF RecordsConsistent, Counts, Refs
<1> QED
  BY <1>1, ExportInvariant, PTL

=============================================================================
