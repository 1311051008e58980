\* Adding a Yes vote to the recorded votes must not lower the Yes power
\* or the total (spec, "Tally monotonicity").
CONSTANTS
    Validators <- MCValidators
    Accounts <- MCAccounts
    Scale = 100
    Quorum = 33
    Threshold = 50
    VetoThreshold = 33
    ValidatorSnapshots <- MCBondedSnapshots
    DelegationPairs <- MCDelegationPairs
    DelegationAmounts = {0, 1}
    HoldingKeys <- MCHoldingKeys
    HoldingAmounts = {0, 1}
    EarnVaultValue = 3
    EarnVaultShares = 2
    VoteChoices <- MCFewVoteChoices

SPECIFICATION SpecR
CHECK_DEADLOCK FALSE

INVARIANT YesMonotonic
