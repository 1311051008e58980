---------------------------- MODULE TallyPower ------------------------------
(***************************************************************************)
(* The arithmetic of the governance tally (src/app/tally_handler.go),     *)
(* shared by the step-by-step handler (TallyHandler) and its order-free  *)
(* specification (TallyAbstract): sdk.Dec rounding, the staking snapshot  *)
(* the handler reads, the power of a delegation, of a derivative holding  *)
(* and of a validator's own vote, and the decision policy.                *)
(***************************************************************************)
EXTENDS Integers, FiniteSets, FiniteSetsExt, Functions

CONSTANTS
    Validators,          \* operator addresses; each is also a voter account
    Accounts,            \* voter accounts (Validators \subseteq Accounts)
    Scale,               \* sdk.Dec precision factor
    Quorum,              \* tally params, as scaled decimals
    Threshold,
    VetoThreshold,
    ValidatorSnapshots,  \* [tokens, shares, bonded] a validator may have
    DelegationPairs,     \* <<account, validator>> pairs that may delegate
    DelegationAmounts,   \* share amounts of a delegation (0 = none)
    HoldingKeys,         \* <<source, account, validator>> baeth holdings
    HoldingAmounts,      \* baeth amounts (or earn vault shares) held
    EarnVaultValue,      \* x/earn vault: total assets ...
    EarnVaultShares,     \* ... and total shares (ConvertToAssets)
    VoteChoices          \* weighted option sets a vote may carry

Options == {"yes", "abstain", "no", "veto"}
Sources == {"wallet", "savings", "earn"}
NoVote == {}

VARIABLES
    validator,        \* Validators -> [tokens, shares, bonded]
    delegation,       \* DelegationPairs -> shares
    holding           \* HoldingKeys -> amount

snapshot == <<validator, delegation, holding>>

(***************************************************************************)
(* sdk.Dec arithmetic.                                                     *)
(***************************************************************************)
ToDec(n) == n * Scale

\* chopPrecisionAndRound: divide by Scale, rounding half to even, symmetric
\* around zero.
RECURSIVE ChopRound(_)
ChopRound(x) ==
    IF x < 0 THEN -ChopRound(-x)
    ELSE LET q == x \div Scale
             r == x % Scale
         IN  IF 2 * r < Scale THEN q
             ELSE IF 2 * r > Scale THEN q + 1
             ELSE q + (q % 2)

\* big.Int Quo truncates toward zero.
TruncQuo(x, y) == IF x >= 0 THEN x \div y ELSE -((-x) \div y)

DecMul(a, b) == ChopRound(a * b)
DecQuo(a, b) == ChopRound(TruncQuo(a * Scale * Scale, b))
DecMulInt(a, n) == a * n

(***************************************************************************)
(* Reading the snapshot.                                                   *)
(***************************************************************************)
Delegated(a, v) == IF <<a, v>> \in DelegationPairs THEN delegation[<<a, v>>] ELSE 0

Held(src, a, v) == IF <<src, a, v>> \in HoldingKeys THEN holding[<<src, a, v>>] ELSE 0

\* x/earn ConvertToAssets: vault shares to the vault's asset, truncated.
ConvertToAssets(shares) == (shares * EarnVaultValue) \div EarnVaultShares

\* getAddrBaeth: wallet balance, savings deposit and earn vault position
\* (converted to assets) of each derivative denom, summed per denom.
AddrBaeth(a, v) ==
    Held("wallet", a, v) + Held("savings", a, v) + ConvertToAssets(Held("earn", a, v))

\* x/liquid GetStakedTokensForDerivatives: the tokens the derivative
\* amount redeems for, at the validator's token/share rate, truncated.
StakedTokensForDerivatives(v, amount) ==
    (amount * validator[v].tokens) \div validator[v].shares

BondedSet == {v \in Validators : validator[v].bonded}

TotalBondedTokens == MapThenSumSet(LAMBDA v : validator[v].tokens, BondedSet)

\* A well-formed staking state: a validator's delegator shares are the
\* delegations to it plus the liquid module's delegation, which backs every
\* baeth token of that validator held anywhere.
WellFormed ==
    \A v \in Validators :
        MapThenSumSet(LAMBDA a : Delegated(a, v) + AddrBaeth(a, v), Accounts)
            <= validator[v].shares

(***************************************************************************)
(* Voting power of one delegation, one derivative holding, one validator. *)
(***************************************************************************)
\* power spread over the vote's options by weight
Weighted(power, opts, o) ==
    MapThenSumSet(LAMBDA w : IF w.option = o THEN DecMul(power, w.weight) ELSE 0, opts)

\* delegation shares * bonded tokens / delegator shares
DelegationPower(cv, a, v) ==
    DecQuo(DecMulInt(ToDec(Delegated(a, v)), cv[v].tokens), ToDec(cv[v].shares))

DerivativePower(a, v) == ToDec(StakedTokensForDerivatives(v, AddrBaeth(a, v)))

\* a validator's own vote, with the power its delegators did not use
\* Mutant: the validator votes with all its delegator shares.
ValidatorPowerNoDeductions(info) ==
    DecQuo(DecMulInt(ToDec(info.shares), info.tokens), ToDec(info.shares))

\* Mutant: the operands of sharesAfterDeductions are swapped.
ValidatorPowerSwappedSub(info) ==
    DecQuo(DecMulInt(info.deductions - ToDec(info.shares), info.tokens), ToDec(info.shares))

ValidatorPower(info) ==
    DecQuo(DecMulInt(ToDec(info.shares) - info.deductions, info.tokens), ToDec(info.shares))

(***************************************************************************)
(* The decision (lines 154-185).                                           *)
(***************************************************************************)
Decide(res, total, bonded) ==
    IF bonded = 0 THEN [passes |-> FALSE, burn |-> FALSE]
    ELSE IF DecQuo(total, ToDec(bonded)) < Quorum THEN [passes |-> FALSE, burn |-> TRUE]
    ELSE IF total - res["abstain"] = 0 THEN [passes |-> FALSE, burn |-> FALSE]
    ELSE IF DecQuo(res["veto"], total) > VetoThreshold THEN [passes |-> FALSE, burn |-> TRUE]
    ELSE IF DecQuo(res["yes"], total - res["abstain"]) > Threshold
         THEN [passes |-> TRUE, burn |-> FALSE]
    ELSE [passes |-> FALSE, burn |-> FALSE]

=============================================================================
