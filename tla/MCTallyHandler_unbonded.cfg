\* Tally of one proposal over every well-formed snapshot, a validator
\* possibly unbonded.  The handler terminates, so deadlock is not checked.
CONSTANTS
    Validators <- MCValidators
    Accounts <- MCAccounts
    Scale = 100
    Quorum = 33
    Threshold = 50
    VetoThreshold = 33
    ValidatorSnapshots <- MCAnySnapshots
    DelegationPairs <- MCDelegationPairs
    DelegationAmounts = {0, 1}
    HoldingKeys <- MCHoldingKeys
    HoldingAmounts = {0, 1, 2}
    EarnVaultValue = 3
    EarnVaultShares = 2
    VoteChoices <- MCVoteChoices

SPECIFICATION Spec
CHECK_DEADLOCK FALSE

INVARIANT PowerWithinBonded
