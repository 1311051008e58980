---------------------------- MODULE EvmBankKeeper ----------------------------
(***************************************************************************)
(* The EVM bank keeper of x/evmutil (src/x/evmutil/keeper/bank_keeper.go). *)
(* The EVM sees one 18-decimal balance of "aaeth" per account; the store  *)
(* keeps a 6-decimal "uaeth" balance in x/bank plus a sub-unit remainder  *)
(* in the aaeth store of x/evmutil.  Every uaeth that was turned into     *)
(* remainder precision is parked in the evmutil module account (Reserve), *)
(* and is paid back out of it when remainders are normalised to uaeth.   *)
(*                                                                         *)
(* Each public keeper method is one action.  Its body is a chain of      *)
(* bank / aaeth-store steps; a failing step makes the whole method return *)
(* an error and, as the Cosmos SDK discards the state of a failed message *)
(* (cached context), the action then leaves the state unchanged.         *)
(***************************************************************************)
EXTENDS Integers, Sequences, FiniteSets, Functions

CONSTANTS
    Multiplier,     \* ConversionMultiplier (10^12 in the code)
    Users,          \* ordinary accounts the EVM sends to and takes from
    EvmModule,      \* the x/evm module account that mints, burns and sends
    Reserve,        \* the x/evmutil module account (types.ModuleName)
    CoinInputs,     \* the sdk.Coins arguments the EVM may pass
    InitUaeth,      \* bound on the initial uaeth balance of an account
    MaxSupply       \* bound on the total uaeth supply (caps MintCoins)

EvmDenom == "aaeth"
CosmosDenom == "uaeth"

Accounts == Users \cup {EvmModule, Reserve}

VARIABLES
    uaeth,      \* x/bank balance of uaeth per account
    aaeth,      \* x/evmutil remainder store per account
    remMinted,  \* history: remainder minted less remainder burned so far
    backing0    \* history: the reserve's surplus over the remainders at genesis

storeVars == <<uaeth, aaeth>>
vars == <<uaeth, aaeth, remMinted, backing0>>

(***************************************************************************)
(* A store state, and the result of a keeper step on it: an error flag   *)
(* and the state the step leaves.                                         *)
(***************************************************************************)
Ok(s) == [ok |-> TRUE, s |-> s]
Err(s) == [ok |-> FALSE, s |-> s]
AndThen(r, Step(_)) == IF r.ok THEN Step(r.s) ELSE r

\* x/bank SendCoins (and its module-account variants): fails on
\* insufficient spendable balance.
BankSend(s, from, to, n) ==
    IF s.u[from] < n THEN Err(s)
    ELSE Ok([s EXCEPT !.u[from] = @ - n, !.u[to] = @ + n])

BankMint(s, mod, n) == Ok([s EXCEPT !.u[mod] = @ + n])

BankBurn(s, mod, n) ==
    IF s.u[mod] < n THEN Err(s) ELSE Ok([s EXCEPT !.u[mod] = @ - n])

\* The aaeth store of x/evmutil (Keeper.AddBalance, RemoveBalance,
\* SendBalance, SetBalance): negative amounts and overdrafts are errors.
AddBalance(s, addr, n) ==
    IF n < 0 THEN Err(s) ELSE Ok([s EXCEPT !.a[addr] = @ + n])

RemoveBalance(s, addr, n) ==
    IF n < 0 \/ s.a[addr] < n THEN Err(s) ELSE Ok([s EXCEPT !.a[addr] = @ - n])

SendBalance(s, from, to, n) ==
    AndThen(RemoveBalance(s, from, n), LAMBDA t: AddBalance(t, to, n))

SetBalance(s, addr, n) ==
    IF n < 0 THEN Err(s) ELSE Ok([s EXCEPT !.a[addr] = n])

(***************************************************************************)
(* ValidateEvmCoins and SplitAaethCoins.  A coin is [denom, amount];     *)
(* sdk.Coins.Validate rejects non-positive amounts and repeated denoms.   *)
(***************************************************************************)
ValidateEvmCoins(coins) ==
    \/ coins = << >>
    \/ /\ \A i \in DOMAIN coins : coins[i].amount > 0
       /\ \A i, j \in DOMAIN coins : i < j => coins[i].denom # coins[j].denom
       /\ Len(coins) = 1
       /\ coins[1].denom = EvmDenom

SplitAaethCoins(coins) ==
    IF coins = << >> THEN [ok |-> TRUE, u |-> 0, a |-> 0]
    ELSE IF ~ValidateEvmCoins(coins) THEN [ok |-> FALSE, u |-> 0, a |-> 0]
    ELSE [ok |-> TRUE,
          u  |-> coins[1].amount \div Multiplier,
          a  |-> coins[1].amount % Multiplier]

(***************************************************************************)
(* The two conversions between uaeth and aaeth.                           *)
(***************************************************************************)
\* Mutant: the aaeth is credited without moving the uaeth to the reserve.
ConvertOneWithoutPayment(s, addr, aaethNeeded) ==
    IF s.a[addr] >= aaethNeeded THEN Ok(s)
    ELSE AddBalance(s, addr, Multiplier)

ConvertOneUaethToAaethIfNeeded(s, addr, aaethNeeded) ==
    IF s.a[addr] >= aaethNeeded THEN Ok(s)
    ELSE AndThen(BankSend(s, addr, Reserve, 1),
                 LAMBDA t: AddBalance(t, addr, Multiplier))

\* Mutant: the payee's whole uaeth are minted instead of paid by the reserve.
ConvertAaethToUaethMint(s, addr) ==
    LET totalAaeth == s.a[addr]
        toReceive  == totalAaeth \div Multiplier
    IN  IF toReceive <= 0 THEN Ok(s)
        ELSE AndThen(SetBalance(s, addr, totalAaeth - toReceive * Multiplier),
                     LAMBDA t: BankMint(t, addr, toReceive))

\* Mutant: converts only when more than one whole uaeth has accumulated.
ConvertAaethToUaethOffByOne(s, addr) ==
    LET totalAaeth == s.a[addr]
        toReceive  == totalAaeth \div Multiplier
    IN  IF toReceive <= 1 THEN Ok(s)
        ELSE AndThen(SetBalance(s, addr, totalAaeth - toReceive * Multiplier),
                     LAMBDA t: BankSend(t, Reserve, addr, toReceive))

ConvertAaethToUaeth(s, addr) ==
    LET totalAaeth == s.a[addr]
        toReceive  == totalAaeth \div Multiplier
    IN  IF toReceive <= 0 THEN Ok(s)
        ELSE AndThen(SetBalance(s, addr, totalAaeth - toReceive * Multiplier),
                     LAMBDA t: BankSend(t, Reserve, addr, toReceive))

(***************************************************************************)
(* The four keeper methods the EVM calls, as functions of the store.      *)
(***************************************************************************)
SendCoinsFromModuleToAccount(s, mod, to, amt) ==
    LET sp == SplitAaethCoins(amt) IN
    IF ~sp.ok THEN Err(s)
    ELSE LET r1 == IF sp.u > 0 THEN BankSend(s, mod, to, sp.u) ELSE Ok(s)
             r2 == AndThen(r1, LAMBDA t: ConvertOneUaethToAaethIfNeeded(t, mod, sp.a))
             r3 == AndThen(r2, LAMBDA t: SendBalance(t, mod, to, sp.a))
         IN  AndThen(r3, LAMBDA t: ConvertAaethToUaeth(t, to))

SendCoinsFromAccountToModule(s, from, mod, amt) ==
    LET sp == SplitAaethCoins(amt) IN
    IF ~sp.ok THEN Err(s)
    ELSE LET r1 == IF sp.u > 0 THEN BankSend(s, from, mod, sp.u) ELSE Ok(s)
             r2 == AndThen(r1, LAMBDA t: ConvertOneUaethToAaethIfNeeded(t, from, sp.a))
             r3 == AndThen(r2, LAMBDA t: SendBalance(t, from, mod, sp.a))
         IN  AndThen(r3, LAMBDA t: ConvertAaethToUaeth(t, mod))

MintCoins(s, mod, amt) ==
    LET sp == SplitAaethCoins(amt) IN
    IF ~sp.ok THEN Err(s)
    ELSE LET r1 == IF sp.u > 0 THEN BankMint(s, mod, sp.u) ELSE Ok(s)
             r2 == AndThen(r1, LAMBDA t: AddBalance(t, mod, sp.a))
         IN  AndThen(r2, LAMBDA t: ConvertAaethToUaeth(t, mod))

BurnCoins(s, mod, amt) ==
    LET sp == SplitAaethCoins(amt) IN
    IF ~sp.ok THEN Err(s)
    ELSE LET r1 == IF sp.u > 0 THEN BankBurn(s, mod, sp.u) ELSE Ok(s)
             r2 == AndThen(r1, LAMBDA t: ConvertOneUaethToAaethIfNeeded(t, mod, sp.a))
         IN  AndThen(r2, LAMBDA t: RemoveBalance(t, mod, sp.a))

\* GetBalance: the 18-decimal balance the EVM observes.
GetBalance(s, addr) == s.u[addr] * Multiplier + s.a[addr]

(***************************************************************************)
(* The state machine.  A call either commits its whole effect or, on     *)
(* error, none of it.                                                     *)
(***************************************************************************)
store == [u |-> uaeth, a |-> aaeth]

Commit(r) ==
    IF r.ok THEN /\ uaeth' = r.s.u
                 /\ aaeth' = r.s.a
    ELSE UNCHANGED storeVars

TotalUaeth(s) == SumFunction(s.u)

\* how far the reserve's uaeth exceed the remainders it backs, in aaeth
Backing(s) == s.u[Reserve] * Multiplier - SumFunction(s.a)

\* Genesis: every remainder is below one uaeth and is covered by the reserve.
Init ==
    /\ uaeth \in [Accounts -> 0..InitUaeth]
    /\ aaeth \in [Accounts -> 0..(Multiplier - 1)]
    /\ aaeth[Reserve] = 0
    /\ SumFunction(aaeth) <= uaeth[Reserve] * Multiplier
    /\ remMinted = 0
    /\ backing0 = Backing([u |-> uaeth, a |-> aaeth])

SendModuleToAccount ==
    \E to \in Users, amt \in CoinInputs :
        Commit(SendCoinsFromModuleToAccount(store, EvmModule, to, amt))
    /\ UNCHANGED <<remMinted, backing0>>

SendAccountToModule ==
    \E from \in Users, amt \in CoinInputs :
        Commit(SendCoinsFromAccountToModule(store, from, EvmModule, amt))
    /\ UNCHANGED <<remMinted, backing0>>

Mint ==
    \E amt \in CoinInputs :
        LET r == MintCoins(store, EvmModule, amt) IN
        /\ TotalUaeth(r.s) <= MaxSupply
        /\ Commit(r)
        /\ remMinted' = IF r.ok THEN remMinted + SplitAaethCoins(amt).a ELSE remMinted
    /\ UNCHANGED backing0

Burn ==
    /\ \E amt \in CoinInputs :
        LET r == BurnCoins(store, EvmModule, amt) IN
        /\ Commit(r)
        /\ remMinted' = IF r.ok THEN remMinted - SplitAaethCoins(amt).a ELSE remMinted
    /\ UNCHANGED backing0

Next == SendModuleToAccount \/ SendAccountToModule \/ Mint \/ Burn

Spec == Init /\ [][Next]_vars

(***************************************************************************)
(* Properties.                                                            *)
(***************************************************************************)
TypeOK ==
    /\ uaeth \in [Accounts -> Nat]
    /\ aaeth \in [Accounts -> Nat]
    /\ remMinted \in Int
    /\ backing0 \in Nat

\* The remainder store never holds a whole uaeth for any account: every
\* method leaves the accounts it touched with aaeth < ConversionMultiplier
\* (ConvertOneUaethToAaethIfNeeded tops a payer up by exactly one uaeth and
\* ConvertAaethToUaeth normalises every payee).
RemainderBelowMultiplier ==
    \A x \in Accounts : aaeth[x] < Multiplier

\* Sends and conversions move uaeth into and out of the reserve exactly
\* as remainders are created and consumed, so the reserve's surplus over
\* all remainders (Backing) changes only by the remainder MintCoins adds
\* without funding the reserve and BurnCoins removes without taking from
\* it: Backing now = Backing at genesis - remainder minted + remainder
\* burned, over every sequence of calls, failed ones included.
ReserveAccounting ==
    Backing(store) + remMinted = backing0

\* The 18-decimal amount of a valid coin list.
Amount(amt) == IF amt = << >> THEN 0 ELSE amt[1].amount

\* r moves exactly n aaeth from payer to payee as the EVM sees balances
\* (GetBalance of every account but the reserve); payer or payee may be
\* Reserve to stand for "nobody" (mint, burn).
MovesExactly(s, r, payer, payee, n) ==
    r.ok =>
      \A x \in Accounts \ {Reserve} :
          GetBalance(r.s, x) - GetBalance(s, x)
            = (IF x = payee THEN n ELSE 0) - (IF x = payer THEN n ELSE 0)

\* Every call that succeeds changes the EVM-visible balances by exactly the
\* amount asked for: the sender loses it, the recipient gains it (a mint
\* only credits, a burn only debits the module), and no other account's
\* GetBalance moves, whatever conversions through the reserve happened.
ExactTransfer ==
    /\ \A x \in Users, amt \in CoinInputs :
          /\ MovesExactly(store, SendCoinsFromModuleToAccount(store, EvmModule, x, amt),
                          EvmModule, x, Amount(amt))
          /\ MovesExactly(store, SendCoinsFromAccountToModule(store, x, EvmModule, amt),
                          x, EvmModule, Amount(amt))
    /\ \A amt \in CoinInputs :
          /\ MovesExactly(store, MintCoins(store, EvmModule, amt), Reserve, EvmModule, Amount(amt))
          /\ MovesExactly(store, BurnCoins(store, EvmModule, amt), EvmModule, Reserve, Amount(amt))

\* A valid call fails only when its payer's GetBalance cannot cover the
\* amount: sends and burns whose payer holds enough, and every mint,
\* succeed.  The code can fail such a call when ConvertAaethToUaeth has to
\* pay the payee out of a reserve that MintCoins never funded.
NoSpuriousFailure ==
    \A amt \in CoinInputs : ValidateEvmCoins(amt) =>
      /\ \A x \in Users :
           /\ GetBalance(store, EvmModule) >= Amount(amt)
                => SendCoinsFromModuleToAccount(store, EvmModule, x, amt).ok
           /\ GetBalance(store, x) >= Amount(amt)
                => SendCoinsFromAccountToModule(store, x, EvmModule, amt).ok
      /\ MintCoins(store, EvmModule, amt).ok
      /\ GetBalance(store, EvmModule) >= Amount(amt) => BurnCoins(store, EvmModule, amt).ok

=============================================================================
