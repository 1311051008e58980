---------------------------- MODULE TallyHandler ----------------------------
(***************************************************************************)
(* The governance tally of the app (src/app/tally_handler.go).  One      *)
(* proposal is tallied against a snapshot of the staking state: bonded    *)
(* validators, delegations, votes, and the liquid-staking derivative      *)
(* ("baeth") each voter holds in its wallet, in x/savings and in x/earn.  *)
(*                                                                         *)
(* The handler runs as a sequence of steps, one action each: loading the  *)
(* bonded validators, one IterateVotes callback per vote (in the store's  *)
(* order, which the model leaves open), one iteration of the loop over    *)
(* the currValidators map per validator (Go map order, left open too),    *)
(* and the final decision.                                                *)
(*                                                                         *)
(* sdk.Dec values are integers scaled by Scale (10^18 in the SDK); their  *)
(* Mul and Quo round half to even exactly as chopPrecisionAndRound does.   *)
(***************************************************************************)
EXTENDS TallyPower

VARIABLES
    \* the vote store of the proposal (IterateVotes / DeleteVote)
    votes,            \* Accounts -> weighted options, NoVote if none
    \* the handler's locals
    phase,            \* "start", "votes", "validators", "decide", "done"
    currValidators,   \* bonded validator -> ValidatorGovInfo
    results,          \* option -> tallied power
    totalVotingPower,
    tallied,          \* validators whose own vote the final loop has added
    outcome           \* [passes, burnDeposits] once decided

vars == <<validator, delegation, holding, votes, phase, currValidators,
          results, totalVotingPower, tallied, outcome>>

(***************************************************************************)
(* One vote's contribution (the IterateVotes callback, lines 67-136).     *)
(***************************************************************************)
\* the result of the callback for voter a with options opts, applied to
\* the locals [cv, res, total]
\* Mutant: a delegation's shares are deducted once per weighted option.
VoteCallbackDeductPerOption(loc, a, opts) ==
    LET cv0  == IF a \in DOMAIN loc.cv THEN [loc.cv EXCEPT ![a].vote = opts] ELSE loc.cv
        dels == {v \in DOMAIN cv0 : Delegated(a, v) > 0}
        drvs == {v \in Validators : AddrBaeth(a, v) > 0}
        cv1  == [v \in DOMAIN cv0 |->
                   [cv0[v] EXCEPT !.deductions =
                       @ + (IF v \in dels THEN Cardinality(opts) * ToDec(Delegated(a, v)) ELSE 0)
                         + (IF v \in drvs THEN ToDec(AddrBaeth(a, v)) ELSE 0)]]
    IN [cv    |-> cv1,
        res   |-> [o \in Options |->
                     loc.res[o]
                     + MapThenSumSet(LAMBDA v : Weighted(DelegationPower(cv0, a, v), opts, o), dels)
                     + MapThenSumSet(LAMBDA v : Weighted(DerivativePower(a, v), opts, o), drvs)],
        total |-> loc.total
                  + MapThenSumSet(LAMBDA v : DelegationPower(cv0, a, v), dels)
                  + MapThenSumSet(LAMBDA v : DerivativePower(a, v), drvs)]

\* Mutant: the deduction for a derivative holding is made on a copy of the
\* ValidatorGovInfo that is never written back to the map (line 116).
VoteCallbackNoDerivativeWriteBack(loc, a, opts) ==
    LET cv0  == IF a \in DOMAIN loc.cv THEN [loc.cv EXCEPT ![a].vote = opts] ELSE loc.cv
        dels == {v \in DOMAIN cv0 : Delegated(a, v) > 0}
        drvs == {v \in Validators : AddrBaeth(a, v) > 0}
        cv1  == [v \in DOMAIN cv0 |->
                   [cv0[v] EXCEPT !.deductions =
                       @ + (IF v \in dels THEN ToDec(Delegated(a, v)) ELSE 0)]]
    IN [cv    |-> cv1,
        res   |-> [o \in Options |->
                     loc.res[o]
                     + MapThenSumSet(LAMBDA v : Weighted(DelegationPower(cv0, a, v), opts, o), dels)
                     + MapThenSumSet(LAMBDA v : Weighted(DerivativePower(a, v), opts, o), drvs)],
        total |-> loc.total
                  + MapThenSumSet(LAMBDA v : DelegationPower(cv0, a, v), dels)
                  + MapThenSumSet(LAMBDA v : DerivativePower(a, v), drvs)]

VoteCallback(loc, a, opts) ==
    LET cv0  == IF a \in DOMAIN loc.cv THEN [loc.cv EXCEPT ![a].vote = opts] ELSE loc.cv
        dels == {v \in DOMAIN cv0 : Delegated(a, v) > 0}
        drvs == {v \in Validators : AddrBaeth(a, v) > 0}
        cv1  == [v \in DOMAIN cv0 |->
                   [cv0[v] EXCEPT !.deductions =
                       @ + (IF v \in dels THEN ToDec(Delegated(a, v)) ELSE 0)
                         + (IF v \in drvs THEN ToDec(AddrBaeth(a, v)) ELSE 0)]]
    IN [cv    |-> cv1,
        res   |-> [o \in Options |->
                     loc.res[o]
                     + MapThenSumSet(LAMBDA v : Weighted(DelegationPower(cv0, a, v), opts, o), dels)
                     + MapThenSumSet(LAMBDA v : Weighted(DerivativePower(a, v), opts, o), drvs)],
        total |-> loc.total
                  + MapThenSumSet(LAMBDA v : DelegationPower(cv0, a, v), dels)
                  + MapThenSumSet(LAMBDA v : DerivativePower(a, v), drvs)]

(***************************************************************************)
(* The handler's steps.                                                    *)
(***************************************************************************)
Init ==
    /\ validator \in [Validators -> ValidatorSnapshots]
    /\ delegation \in [DelegationPairs -> DelegationAmounts]
    /\ holding \in [HoldingKeys -> HoldingAmounts]
    /\ WellFormed
    /\ votes \in [Accounts -> VoteChoices \cup {NoVote}]
    /\ phase = "start"
    /\ currValidators = [v \in {} |-> 0]
    /\ results = [o \in Options |-> 0]
    /\ totalVotingPower = 0
    /\ tallied = {}
    /\ outcome = [passes |-> FALSE, burn |-> FALSE]

\* lines 45-65: zero the results, snapshot every bonded validator
LoadValidators ==
    /\ phase = "start"
    /\ currValidators' = [v \in BondedSet |->
                            [tokens |-> validator[v].tokens, shares |-> validator[v].shares,
                             deductions |-> 0, vote |-> NoVote]]
    /\ phase' = "votes"
    /\ UNCHANGED <<snapshot, votes, results, totalVotingPower, tallied, outcome>>

\* lines 67-136: one IterateVotes callback, ending in DeleteVote
ProcessVote ==
    /\ phase = "votes"
    /\ \E a \in Accounts :
         /\ votes[a] # NoVote
         /\ LET loc == VoteCallback([cv |-> currValidators, res |-> results,
                                     total |-> totalVotingPower], a, votes[a])
            IN /\ currValidators' = loc.cv
               /\ results' = loc.res
               /\ totalVotingPower' = loc.total
         /\ votes' = [votes EXCEPT ![a] = NoVote]
    /\ UNCHANGED <<snapshot, phase, tallied, outcome>>

EndVotes ==
    /\ phase = "votes"
    /\ \A a \in Accounts : votes[a] = NoVote
    /\ phase' = "validators"
    /\ UNCHANGED <<snapshot, votes, currValidators, results, totalVotingPower, tallied, outcome>>

\* lines 139-152: one iteration of the loop over currValidators
TallyValidator ==
    /\ phase = "validators"
    /\ \E v \in DOMAIN currValidators \ tallied :
         LET info == currValidators[v]
             p    == ValidatorPower(info)
         IN /\ tallied' = tallied \cup {v}
            /\ IF info.vote = NoVote
               THEN UNCHANGED <<results, totalVotingPower>>
               ELSE /\ results' = [o \in Options |-> results[o] + Weighted(p, info.vote, o)]
                    /\ totalVotingPower' = totalVotingPower + p
    /\ UNCHANGED <<snapshot, votes, phase, currValidators, outcome>>

\* lines 154-185
DecideOutcome ==
    /\ phase = "validators"
    /\ tallied = DOMAIN currValidators
    /\ outcome' = Decide(results, totalVotingPower, TotalBondedTokens)
    /\ phase' = "done"
    /\ UNCHANGED <<snapshot, votes, currValidators, results, totalVotingPower, tallied>>

Next ==
    \/ LoadValidators
    \/ ProcessVote
    \/ EndVotes
    \/ TallyValidator
    \/ DecideOutcome

Spec == Init /\ [][Next]_vars

(***************************************************************************)
(* Properties.                                                            *)
(***************************************************************************)
GovInfo == [tokens : Nat, shares : Nat, deductions : Int, vote : VoteChoices \cup {NoVote}]

TypeOK ==
    /\ votes \in [Accounts -> VoteChoices \cup {NoVote}]
    /\ phase \in {"start", "votes", "validators", "decide", "done"}
    /\ DOMAIN currValidators \subseteq Validators
    /\ \A v \in DOMAIN currValidators : currValidators[v] \in GovInfo
    /\ results \in [Options -> Nat]
    /\ totalVotingPower \in Nat
    /\ tallied \subseteq DOMAIN currValidators
    /\ outcome \in [passes : BOOLEAN, burn : BOOLEAN]

\* The shares deducted from a validator for its voting delegators and for
\* the derivative its voters hold never exceed its delegator shares, so no
\* validator is left with negative power (spec, "Deduction bound").  It
\* takes several voters, some delegating and some holding baeth of the same
\* validator in wallet, savings and earn, to reach the bound.
DeductionBound ==
    \A v \in DOMAIN currValidators :
        currValidators[v].deductions <= ToDec(currValidators[v].shares)

\* Each sdk.Dec Quo of a delegation's or a validator's power may round up
\* by less than one unit of the last decimal place.
RoundingSlack == Cardinality(DelegationPairs) + Cardinality(Validators)

\* Voting power only comes from bonded stake: the total power tallied never
\* exceeds the bonded tokens (up to rounding), whatever the order of the
\* votes and of the validator loop.  Delegators, derivative holders and
\* validators must each count a share at most once for this to hold; the
\* quorum test (percentVoting = totalVotingPower / TotalBondedTokens)
\* relies on it.
PowerWithinBonded ==
    totalVotingPower <= ToDec(TotalBondedTokens) + RoundingSlack

=============================================================================
