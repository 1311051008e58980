--------------------------- MODULE TallyAbstract ----------------------------
(***************************************************************************)
(* What the governance tally promises (src/app/tally_handler.go, Tally),  *)
(* stated without any iteration order.  In one step the votes of the      *)
(* proposal are consumed and the results are the closed-form sum, over    *)
(* the voters and the bonded validators, of the power each contributes:   *)
(*                                                                         *)
(*   - every delegation of a voter to a bonded validator, at the          *)
(*     validator's token/share rate;                                       *)
(*   - every derivative holding of a voter, at its redemption value;       *)
(*   - every bonded validator that voted, with its delegator shares less  *)
(*     those of every voter delegating to it or holding its derivative.   *)
(*                                                                         *)
(* Nothing here depends on the order of the vote store or of the Go map   *)
(* over currValidators.  TallyRefinement checks that the step-by-step     *)
(* handler of TallyHandler implements this specification.                 *)
(***************************************************************************)
EXTENDS TallyPower

VARIABLES
    ballot,     \* Accounts -> weighted options: the votes of the proposal
    decided,    \* the tally has run
    tally,      \* [res, total] once decided
    outcome     \* [passes, burn] once decided

absVars == <<validator, delegation, holding, ballot, decided, tally, outcome>>

NoTally == [res |-> [o \in Options |-> 0], total |-> 0]

\* the ValidatorGovInfo of every bonded validator, as the snapshot gives it
SnapshotInfo ==
    [v \in BondedSet |-> [tokens |-> validator[v].tokens, shares |-> validator[v].shares,
                          deductions |-> 0, vote |-> NoVote]]

Voters(b) == {a \in Accounts : b[a] # NoVote}

\* the power of each delegation and each derivative holding of voter a
DelegationPowers(a) ==
    [v \in {w \in BondedSet : Delegated(a, w) > 0} |-> DelegationPower(SnapshotInfo, a, v)]
DerivativePowers(a) ==
    [v \in {w \in Validators : AddrBaeth(a, w) > 0} |-> DerivativePower(a, v)]

\* the shares of bonded validator v counted through its voters
Deductions(b, v) ==
    MapThenSumSet(LAMBDA a : ToDec(Delegated(a, v)) + ToDec(AddrBaeth(a, v)), Voters(b))

\* the power of every bonded validator that voted
ValidatorPowers(b) ==
    [v \in {w \in BondedSet : b[w] # NoVote} |->
        ValidatorPower([SnapshotInfo[v] EXCEPT !.deductions = Deductions(b, v)])]

\* the share of option o in a power function, entry v weighted by opts(v)
Spread(f, opts(_), o) == MapThenSumSet(LAMBDA v : Weighted(f[v], opts(v), o), DOMAIN f)

ClosedTally(b) ==
    [res   |-> [o \in Options |->
                  MapThenSumSet(LAMBDA a : Spread(DelegationPowers(a), LAMBDA v : b[a], o)
                                           + Spread(DerivativePowers(a), LAMBDA v : b[a], o),
                                Voters(b))
                  + Spread(ValidatorPowers(b), LAMBDA v : b[v], o)],
     total |-> MapThenSumSet(LAMBDA a : SumFunction(DelegationPowers(a))
                                        + SumFunction(DerivativePowers(a)),
                             Voters(b))
               + SumFunction(ValidatorPowers(b))]

Init ==
    /\ validator \in [Validators -> ValidatorSnapshots]
    /\ delegation \in [DelegationPairs -> DelegationAmounts]
    /\ holding \in [HoldingKeys -> HoldingAmounts]
    /\ WellFormed
    /\ ballot \in [Accounts -> VoteChoices \cup {NoVote}]
    /\ decided = FALSE
    /\ tally = NoTally
    /\ outcome = [passes |-> FALSE, burn |-> FALSE]

\* Tally: consume every vote, sum the powers, apply the decision policy
TallyStep ==
    /\ ~decided
    /\ decided' = TRUE
    /\ tally' = ClosedTally(ballot)
    /\ outcome' = Decide(tally'.res, tally'.total, TotalBondedTokens)
    /\ ballot' = [a \in Accounts |-> NoVote]
    /\ UNCHANGED snapshot

\* x/gov calls Tally once the voting period ends, and Tally returns.
Spec == Init /\ [][TallyStep]_absVars /\ WF_absVars(TallyStep)

\* TallyStep is enabled exactly when ~decided, and decided stays TRUE, so
\* its weak fairness says no more than that the tally eventually runs.
\* This form spares TLC evaluating ENABLED through a refinement mapping.
SpecDecides == Init /\ [][TallyStep]_absVars /\ <>decided

=============================================================================
