--------------------------- MODULE MCEvmBankKeeper ---------------------------
(* Model-checking instance of EvmBankKeeper: a conversion multiplier of 4 *)
(* stands for 10^12; the coin inputs cover every branch of               *)
(* SplitAaethCoins (empty, remainder only, whole uaeth only, both, and    *)
(* the invalid lists the tests use).                                      *)
EXTENDS EvmBankKeeper, TLC

MCCoinInputs ==
    {<< >>,
     <<[denom |-> "aaeth", amount |-> -1]>>,
     <<[denom |-> "aaeth", amount |-> 3], [denom |-> "busd", amount |-> 1]>>,
     <<[denom |-> "aaeth", amount |-> 4], [denom |-> "aaeth", amount |-> 1]>>}
    \cup {<<[denom |-> "aaeth", amount |-> n]>> : n \in {1, 3, 4, 6, 9}}

UserSymmetry == Permutations(Users)
=============================================================================
