CONSTANTS
    Multiplier = 4
    Users = {u1, u2}
    EvmModule = evm
    Reserve = evmutil
    CoinInputs <- MCCoinInputs
    InitUaeth = 1
    MaxSupply = 6

SPECIFICATION Spec
SYMMETRY UserSymmetry




INVARIANT NoSpuriousFailure
