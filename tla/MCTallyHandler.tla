--------------------------- MODULE MCTallyHandler ---------------------------
(* Model-checking instance of TallyHandler: two validators v1, v2 (also   *)
(* voters) and a plain delegator d; sdk.Dec with two decimal places; a    *)
(* slashed validator (2 tokens for 3 shares) so that Quo rounds; baeth    *)
(* held in each of the three places getAddrBaeth reads.                   *)
EXTENDS TallyHandler

MCValidators == {"v1", "v2"}
MCAccounts == {"v1", "v2", "d"}

Yes(w) == [option |-> "yes", weight |-> w]
MCVoteChoices ==
    { {Yes(100)},
      {[option |-> "abstain", weight |-> 100]},
      {[option |-> "veto", weight |-> 100]},
      {Yes(50), [option |-> "no", weight |-> 50]} }

MCDelegationPairs == {<<"v1", "v1">>, <<"v2", "v2">>, <<"d", "v1">>, <<"d", "v2">>}

MCHoldingKeys == {<<"wallet", "d", "v2">>, <<"savings", "v1", "v2">>, <<"earn", "d", "v1">>}

\* every validator bonded; one may be slashed
MCBondedSnapshots ==
    { [tokens |-> 2, shares |-> 2, bonded |-> TRUE],
      [tokens |-> 2, shares |-> 3, bonded |-> TRUE] }

\* a validator may also have left the active set
MCAnySnapshots ==
    MCBondedSnapshots \cup {[tokens |-> 2, shares |-> 2, bonded |-> FALSE]}

\* a smaller ballot for the runs that keep the proposal's votes as history
MCFewVoteChoices ==
    { {Yes(100)},
      {[option |-> "veto", weight |-> 100]},
      {Yes(50), [option |-> "no", weight |-> 50]} }
=============================================================================
