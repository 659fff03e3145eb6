-------------------------- MODULE ZeroHeightExport --------------------------
(***************************************************************************)
(* prepForZeroHeightGenesis of app/export.go: the passes over the          *)
(* distribution, staking and slashing state before a genesis file for      *)
(* height zero is written, one action for each turn of their loops.        *)
(*                                                                         *)
(* Rewards are decimals, counted here in fractions of a token: Unit of     *)
(* them are one token, and only whole tokens can be paid out.  Rewards are *)
(* accounted in periods; a delegation refers to the period it began in,    *)
(* and the historical record of a period counts its references.            *)
(*                                                                         *)
(* Rewards are sent to the withdraw address of an account.  An address the *)
(* bank refuses to credit, such as that of a module account which did not  *)
(* exist when the address was set, makes the withdrawal fail; the passes   *)
(* drop the error and keep what was written before it.                     *)
(***************************************************************************)
EXTENDS Integers, Functions, FiniteSetsExt

CONSTANTS
    Validators,
    Delegations,
    validatorOf,       \* the validator of each delegation
    Unit,              \* fractions in a token
    jailAllowedAddrs,  \* validators not to jail; empty: jail none
    BadAddr,           \* an entry of that list which is no address
    MaxValidators,     \* staking parameter
    Chains             \* states the chain may be exported in

VARIABLES
    s,       \* the application's state
    pass,    \* the pass that runs
    todo     \* validators or delegations the pass has not visited

vars == <<s, pass, todo>>

Of(v) == {d \in Delegations : validatorOf[d] = v}

ASSUME ExportAssumption ==
    /\ IsFiniteSet(Validators) /\ Validators # {}
    /\ IsFiniteSet(Delegations) /\ Delegations # {}
    /\ validatorOf \in [Delegations -> Validators]
    /\ Unit \in Nat \ {0} /\ MaxValidators \in Nat
    /\ jailAllowedAddrs \subseteq Validators \cup {BadAddr} /\ BadAddr \notin Validators

\* A state of the application whose historical records are given.  The
\* accounts in refused have a withdraw address the bank does not credit;
\* stranded is what left the outstanding rewards and was not sent.
State(hist) ==
    [height : Nat, communityPool : Nat, moduleBalance : Nat, hist : {hist},
     outstanding : [Validators -> Nat], commission : [Validators -> Nat],
     current : [Validators -> Nat], earned : [Validators -> Nat],
     period : [Validators -> Nat \ {0}], slashEvents : SUBSET (Validators \X Nat),
     claim : [Delegations -> Nat], paid : [Delegations -> Nat],
     start : [Delegations -> [period : Nat, height : Nat]],
     tokens : [Validators -> Nat], jailed : [Validators -> BOOLEAN],
     powerIndex : SUBSET Validators, bonded : SUBSET Validators,
     refused : SUBSET (Validators \cup Delegations), stranded : Nat,
     creationHeight : Nat, startHeight : Nat, unbondingHeight : [Validators -> Nat]]

\* The distribution module account holds exactly the community pool, the
\* outstanding rewards and what is stranded.
Covered(t) ==
    t.moduleBalance * Unit =
        t.communityPool + SumFunctionOnSet(t.outstanding, Validators) + t.stranded

\* Current rewards of a validator without tokens are nobody's.
Unclaimed(t, v) == IF t.tokens[v] = 0 THEN t.current[v] ELSE 0

\* Outstanding are at least the commission, what nobody has a share in, and
\* the claims of the delegations in D.
Reserved(t, D) ==
    \A v \in Validators :
        t.commission[v] + Unclaimed(t, v) + SumFunctionOnSet(t.claim, Of(v) \cap D)
            <= t.outstanding[v]

\* A chain is exported in a state that x/distribution keeps sound.
ASSUME ChainsAssumption ==
    \A c \in Chains :
        /\ c \in State(c.hist) /\ Covered(c) /\ Reserved(c, Delegations)
        /\ c.stranded = 0 /\ \A d \in Delegations : c.paid[d] = 0

Enter(p, items) == pass' = p /\ todo' = items

\* The loop goes on to the next item, or to the next pass after the last.
Loop(x, next, items) ==
    IF todo = {x} THEN Enter(next, items) ELSE Enter(pass, todo \ {x})

-----------------------------------------------------------------------------
(***************************************************************************)
(* x/distribution and x/staking, as the passes use them.                   *)
(***************************************************************************)

\* Records without references are deleted.
Release(hist, p) ==
    IF hist[p] > 1 THEN [hist EXCEPT ![p] = @ - 1] ELSE Restrict(hist, DOMAIN hist \ {p})

Retain(hist, p) == [hist EXCEPT ![p] = @ + 1]

Record(hist, p) == [q \in DOMAIN hist \cup {p} |-> IF q = p THEN 1 ELSE hist[q]]

\* The period of a validator ends.  Without tokens behind it nobody has a
\* share in its current rewards, and they go to the community pool.
IncrementValidatorPeriod(t, v) ==
    LET p    == t.period[v]
        gift == Unclaimed(t, v)
    IN  [t EXCEPT !.hist[v] = Record(Release(@, p - 1), p),
                  !.period[v] = p + 1,
                  !.current[v] = 0,
                  !.outstanding[v] = @ - gift,
                  !.communityPool = @ + gift]

\* A delegation begins, at the height of the context.
InitializeDelegation(t, d, height) ==
    LET v == validatorOf[d]
    IN  [t EXCEPT !.hist[v] = Retain(@, t.period[v] - 1),
                  !.start[d] = [period |-> t.period[v] - 1, height |-> height]]

\* Whole tokens are paid, the fraction goes to the community pool.
PayRewards(t, d) ==
    LET v       == validatorOf[d]
        rewards == Min({t.claim[d], t.outstanding[v]})
    IN  [t EXCEPT !.paid[d] = @ + rewards \div Unit,
                  !.moduleBalance = @ - rewards \div Unit,
                  !.outstanding[v] = @ - rewards,
                  !.communityPool = @ + (rewards % Unit),
                  !.hist[v] = Release(@, t.start[d].period)]

\* The validators of the power index that get bonded: those with the most
\* tokens, up to the limit and never one without tokens.
TopSets(t) ==
    LET able == {v \in t.powerIndex : t.tokens[v] > 0}
    IN  {B \in SUBSET able :
            /\ Cardinality(B) = Min({MaxValidators, Cardinality(able)})
            /\ \A v \in B, w \in able \ B : t.tokens[w] <= t.tokens[v]}

\* With room left, the walk down the index stops at a validator without
\* tokens, or at the end.
StopsAt(t, B) ==
    LET unable == {v \in t.powerIndex : t.tokens[v] = 0}
    IN  IF Cardinality(B) < MaxValidators /\ unable # {}
        THEN {{v} : v \in unable}
        ELSE {{}}

-----------------------------------------------------------------------------
(***************************************************************************)
(* The passes.                                                             *)
(***************************************************************************)

\* An entry of the list that is no address panics.
ParseAllowList ==
    /\ pass = "parse"
    /\ s' = s
    /\ IF BadAddr \in jailAllowedAddrs
       THEN Enter("panicked", {})
       ELSE Enter("commission", Validators)

\* The error is ignored: of a validator without commission, for which nothing
\* has changed, and of a refused payment, made after the commission was taken
\* off.
WithdrawCommission(v) ==
    LET whole == s.commission[v] \div Unit
        sent  == IF v \in s.refused THEN 0 ELSE whole
    IN  /\ pass = "commission" /\ v \in todo
        /\ s' = [s EXCEPT !.commission[v] = @ % Unit,
                          !.outstanding[v] = @ - whole * Unit,
                          !.moduleBalance = @ - sent,
                          !.earned[v] = @ + sent,
                          !.stranded = @ + (whole - sent) * Unit]
        /\ Loop(v, "rewards", Delegations)

\* The rewards of d are sent somewhere the bank refuses.
RewardsRefused(t, d) ==
    /\ d \in t.refused
    /\ Min({t.claim[d], t.outstanding[validatorOf[d]]}) \div Unit > 0

\* A bug: a delegation whose withdrawal fails ends the loop.
WithdrawRewards_stopsAtError(d) ==
    LET t == IncrementValidatorPeriod(s, validatorOf[d])
    IN  /\ pass = "rewards" /\ d \in todo
        /\ IF RewardsRefused(t, d)
           THEN s' = t /\ Enter("clear", {})
           ELSE /\ s' = InitializeDelegation(PayRewards(t, d), d, s.height)
                /\ Loop(d, "clear", {})

\* The error is ignored: of a refused withdrawal the end of the period
\* remains, and the loop goes on.
WithdrawRewards(d) ==
    LET t == IncrementValidatorPeriod(s, validatorOf[d])
    IN  /\ pass = "rewards" /\ d \in todo
        /\ s' = IF RewardsRefused(t, d)
                THEN t
                ELSE InitializeDelegation(PayRewards(t, d), d, s.height)
        /\ Loop(d, "clear", {})

\* A bug: the historical rewards are kept.
ClearDistribution_keepsHistory ==
    /\ pass = "clear"
    /\ s' = [s EXCEPT !.slashEvents = {}]
    /\ Enter("validators", Validators)

\* Slash events and historical rewards are deleted.
ClearDistribution ==
    /\ pass = "clear"
    /\ s' = [s EXCEPT !.slashEvents = {}, !.hist = [v \in Validators |-> << >>]]
    /\ Enter("validators", Validators)

\* A bug: what is left is reset without being donated.
ReinitializeValidator_noDonation(v) ==
    /\ pass = "validators" /\ v \in todo
    /\ s' = [s EXCEPT !.outstanding[v] = 0, !.commission[v] = 0, !.current[v] = 0,
                      !.hist[v] = Record(@, 0), !.period[v] = 1]
    /\ Loop(v, "delegations", Delegations)

\* The outstanding rewards are donated, and the records of the validator
\* begin anew (AfterValidatorCreated).
ReinitializeValidator(v) ==
    /\ pass = "validators" /\ v \in todo
    /\ s' = [s EXCEPT !.communityPool = @ + s.outstanding[v],
                      !.outstanding[v] = 0, !.commission[v] = 0, !.current[v] = 0,
                      !.hist[v] = Record(@, 0), !.period[v] = 1]
    /\ Loop(v, "delegations", Delegations)

\* BeforeDelegationCreated and AfterDelegationModified, at height zero.
ReinitializeDelegation(d) ==
    /\ pass = "delegations" /\ d \in todo
    /\ s' = InitializeDelegation(IncrementValidatorPeriod(s, validatorOf[d]), d, 0)
    /\ Loop(d, "unbonding", {})

\* Redelegations and unbonding delegations get creation height zero.
ResetUnbonding ==
    /\ pass = "unbonding"
    /\ s' = [s EXCEPT !.creationHeight = 0]
    /\ Enter("staking", Validators)

ResetValidator(v) ==
    /\ pass = "staking" /\ v \in todo
    /\ s' = [s EXCEPT !.unbondingHeight[v] = 0,
                      !.jailed[v] = @ \/ (jailAllowedAddrs # {} /\ v \notin jailAllowedAddrs)]
    /\ Loop(v, "set", {})

\* The error is logged, and the rest left out.
CloseIteratorFails ==
    /\ pass = "set"
    /\ s' = s
    /\ Enter("done", {})

\* The bonded set is taken from the top of the power index.  A jailed
\* validator does not belong there, and meeting one panics.
ApplyValidatorSet ==
    /\ pass = "set"
    /\ \E B \in TopSets(s) : \E Z \in StopsAt(s, B) :
        IF \E v \in B \cup Z : s.jailed[v]
        THEN s' = s /\ Enter("panicked", {})
        ELSE s' = [s EXCEPT !.bonded = B] /\ Enter("slashing", {})

ResetSigningInfos ==
    /\ pass = "slashing"
    /\ s' = [s EXCEPT !.startHeight = 0]
    /\ Enter("done", {})

Init ==
    /\ s \in Chains
    /\ pass = "parse"
    /\ todo = {}

Next ==
    \/ \E v \in Validators :
           WithdrawCommission(v) \/ ReinitializeValidator(v) \/ ResetValidator(v)
    \/ \E d \in Delegations : WithdrawRewards(d) \/ ReinitializeDelegation(d)
    \/ ParseAllowList \/ ClearDistribution \/ ResetUnbonding
    \/ CloseIteratorFails \/ ApplyValidatorSet \/ ResetSigningInfos

Spec == Init /\ [][Next]_vars

\* The function runs to its end.
LiveSpec == Spec /\ WF_vars(Next)

-----------------------------------------------------------------------------
\* After every turn of every loop the distribution module account holds
\* exactly the community pool, the outstanding rewards and the commission that
\* could not be sent: the roundings, the donation and withdrawals of rewards
\* that fail neither lose nor create a fraction of a token, and nothing is
\* stranded while no validator's withdraw address is refused.
ModuleAccountCovered ==
    /\ Covered(s)
    /\ s.refused \cap Validators = {} => s.stranded = 0

\* Whether the chain can go on from the exported state: the historical record
\* of every period has as many references as there are delegations that began
\* in it, one more for the last period, and no period without references is
\* left; delegations begin at height zero.
RecordsConsistent ==
    pass \in {"unbonding", "staking", "set", "slashing", "done"} =>
        /\ \A v \in Validators :
            LET last == s.period[v] - 1
                refs(p) == Cardinality({d \in Of(v) : s.start[d].period = p})
                           + (IF p = last THEN 1 ELSE 0)
            IN  /\ DOMAIN s.hist[v] = {s.start[d].period : d \in Of(v)} \cup {last}
                /\ \A p \in DOMAIN s.hist[v] : s.hist[v][p] = refs(p)
        /\ \A d \in Delegations : s.start[d].height = 0

\* Nobody loses to the order of the passes or to the failure of another: when
\* the outstanding rewards are donated, every delegation has been paid the
\* whole tokens of its claim, but for those whose withdraw address the bank
\* refuses.
ClaimsPaidFirst ==
    pass \notin {"parse", "commission", "rewards", "panicked"} =>
        \A d \in Delegations :
            s.paid[d] = IF d \in s.refused THEN 0 ELSE s.claim[d] \div Unit

\* An export comes to its end, with or without a list of validators to keep.
ExportFinishes == <>(pass = "done")

=============================================================================
