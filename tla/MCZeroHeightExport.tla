------------------------- MODULE MCZeroHeightExport -------------------------
EXTENDS ZeroHeightExport

CONSTANTS v1, v2, d1, d2, d3

\* Two delegations to the first validator, one to the second.
MCValidatorOf == [d \in {d1, d2, d3} |-> IF d = d3 THEN v2 ELSE v1]

\* The periods of a validator that something refers to: a delegation that
\* began in it, the period that comes next, a slash event.
Hist(starts, v, last, slashes) ==
    LET refs(p) == Cardinality({d \in Of(v) : starts[d] = p}) + (IF p = last THEN 1 ELSE 0)
                   + (IF <<v, p>> \in slashes THEN 1 ELSE 0)
    IN  [p \in {q \in 0 .. last : refs(q) > 0} |-> refs(p)]

\* A chain at height 9.  The rewards of a validator are its commission, the
\* claims of its delegations and a rounding that nobody can claim; a
\* validator without tokens has a current reward nobody has a share in.
Chain(starts, comm, claim, round, tok, jail, refused) ==
    LET cur == [v \in Validators |-> IF tok[v] = 0 THEN 1 ELSE 0]
        out == [v \in Validators |->
                   comm[v] + round + cur[v] + SumFunctionOnSet(claim, Of(v))]
        sum == SumFunctionOnSet(out, Validators)
    IN  [height |-> 9,
         commission |-> comm, claim |-> claim, current |-> cur, outstanding |-> out,
         communityPool |-> (- sum) % Unit,
         moduleBalance |-> (sum + ((- sum) % Unit)) \div Unit,
         period |-> [v \in Validators |-> 3],
         hist |-> [v \in Validators |-> Hist(starts, v, 2, {<<v1, 1>>})],
         start |-> [d \in Delegations |-> [period |-> starts[d], height |-> 5]],
         paid |-> [d \in Delegations |-> 0], earned |-> [v \in Validators |-> 0],
         slashEvents |-> {<<v1, 1>>},
         refused |-> refused, stranded |-> 0, creationHeight |-> 5, startHeight |-> 5,
         unbondingHeight |-> [v \in Validators |-> 5],
         tokens |-> tok, jailed |-> jail,
         powerIndex |-> {v \in Validators : ~jail[v]},
         bonded |-> {v \in Validators : ~jail[v] /\ tok[v] > 0}]

\* Nobody, one delegator, or a delegator who operates the validator.
Refusals == {{}, {d1}, {v1, d1}}

MCChains ==
    {Chain(starts, comm, claim, round, tok, [v \in Validators |-> j /\ v = v2],
           refused) :
        starts \in {f \in [Delegations -> 1 .. 2] : f[d3] = 2},
        comm \in [Validators -> {0, 4}],
        claim \in {f \in [Delegations -> {0, 2, 5}] : f[d2] # 0},
        round \in {0, 1},
        tok \in {f \in [Validators -> {0, 1, 2}] : f[v1] = 2},
        j \in BOOLEAN,
        refused \in Refusals}

\* Fewer chains, for the run that looks for one execution.
MCFewChains == {c \in MCChains : c.claim[d1] = 2 /\ c.claim[d2] = 5 /\ c.commission[v1] = 4}

=============================================================================
