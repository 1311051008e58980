# TLA+ models of the Aether tally handler, EVM bank keeper and store codecs

This directory holds TLA+ models of the three parts of the repository that
hold real logic:

- the governance tally, which counts voting power from liquid-staking
  derivatives (`src/app/tally_handler.go`);
- the EVM bank keeper, which shows the EVM an 18-decimal `aaeth` balance.
  Underneath, the store keeps a 6-decimal `uaeth` balance plus a remainder
  (`src/x/evmutil/keeper/bank_keeper.go`);
- the generated protobuf codecs of the swap and savings store records
  (`src/x/swap/types/swap.pb.go`, `src/x/savings/types/store.pb.go`), which
  turn every stored pool, share record, deposit and parameter set into bytes
  and back.

TLC checks every model. `PROJECT.json` lists the components, the runs, the
mutants, the line mapping, the findings and the hazards.

## 1. Inventory

### Components

| Component | Source | State it keeps | Operations |
|---|---|---|---|
| TallyHandler | `src/app/tally_handler.go` | Locals of one `Tally` call: `currValidators` (operator → `ValidatorGovInfo` with tokens, shares, deductions and its own vote), the four option `results` and `totalVotingPower`. It also deletes votes from the gov vote store. | `Tally`: load the bonded validators, run the `IterateVotes` callback once per vote (`getAddrBaeth`, then `DeleteVote`), loop over the validators, decide. |
| EvmBankKeeper | `src/x/evmutil/keeper/bank_keeper.go` | No state of its own. It writes the x/bank `uaeth` balances and the x/evmutil `aaeth` remainder store. | `GetBalance`, `SendCoinsFromModuleToAccount`, `SendCoinsFromAccountToModule`, `MintCoins`, `BurnCoins`. Helpers: `ConvertOneUaethToAaethIfNeeded`, `ConvertAaethToUaeth`, `SplitAaethCoins`, `ValidateEvmCoins`. |
| aaeth store keeper | not in `src/` | aaeth balance per account | `AddBalance`, `RemoveBalance`, `SendBalance`, `SetBalance` |
| ProtoCodec | `src/x/swap/types/swap.pb.go`, `src/x/savings/types/store.pb.go` | None between calls; a call works on a byte buffer and a write index. | `Size`, `MarshalToSizedBuffer` (writes from the end backwards), `Marshal`, `encodeVarint*`, `sov*`, `Unmarshal`, `skip*` for AllowedPool, PoolRecord, ShareRecord, swap Params, savings Params, Deposit. |
| Collaborators | not in the repository | x/bank, x/staking, x/liquid, x/savings, x/earn, x/gov vote store | The keepers read these or call into them. |
| Incentive accumulators, min-gas filter | tests only | – | Only their tests are in `src/`. |
| aethdist BeginBlocker and handler, proposal clients, migrations, amino codecs, issuance simulation | `src/x/...` | none | Wiring, or code that is commented out. |

### How the parts interact

- **Tally.** x/gov calls `Tally` once for each proposal. The handler reads
  a snapshot through the staking, bank, savings, earn and liquid keepers. It
  changes only the vote store, where each vote is deleted once it has been
  counted.
- **EVM bank keeper.** x/evm calls the keeper for every EVM transfer, gas
  payment and refund. Each keeper method is a chain of steps on x/bank and on
  the aaeth store.
  - Every uaeth turned into remainder precision is parked in the evmutil
    module account (called the *reserve* here).
  - `ConvertAaethToUaeth` pays whole uaeth back out of the reserve.
  - When a method fails, the SDK discards everything the method wrote (the
    cached context of the message).

- **Codecs.** The keepers marshal a record before writing it to the store
  and unmarshal the bytes they read back. Bytes can also be damaged or
  crafted (a corrupted store, an imported state); `Unmarshal` must then
  return an error rather than panic.

Nothing runs concurrently: the host executes every call to completion on a
single thread. The hard behaviour lies elsewhere:

- **Tally:**
  - the result must not depend on the order of the votes or of the Go map;
  - a voter can take part as a delegator, as a derivative holder in three
    places, and as a validator at once;
  - `sdk.Dec` rounding.
- **Bank keeper:**
  - long sequences of calls that keep the remainder invariant;
  - the reserve running dry;
  - calls that fail halfway and must be rolled back;
  - off-by-ones at a whole uaeth.

### What makes each part correct

- **TallyHandler:**
  - deductions never exceed a validator's delegator shares;
  - each unit of bonded stake is counted at most once, so total power is at
    most the bonded tokens;
  - the decision policy is applied in the documented order;
  - the result does not depend on the iteration order.
- **ProtoCodec:**
  - `Marshal` produces the protobuf encoding, though it writes backwards into
    a buffer sized in advance;
  - `Unmarshal(Marshal(m)) = m`;
  - no input makes `Unmarshal` index outside its buffer, however its length
    varints wrap around `int`.
- **EvmBankKeeper:**
  - `remainder < multiplier` for every account;
  - every successful call moves exactly the requested 18-decimal amount, and
    no other EVM-visible balance changes;
  - a valid call fails only when its payer cannot pay;
  - the reserve backs the remainders.

## 2. Modules

### `EvmBankKeeper.tla` and `MCEvmBankKeeper.tla`

- **State.** `uaeth` holds the x/bank balance and `aaeth` the remainder
  store, each as a function over the accounts. The history variables
  `remMinted` and `backing0` serve `ReserveAccounting` only. The accounts are the users,
  the x/evm module and the evmutil reserve.
- **Steps.** Each helper of the Go file is an operator from a store to
  `[ok, s]`. `AndThen` chains the steps the way the Go code chains
  `if err != nil { return err }`.
- **Actions.** The four keeper methods are one action each (`SendModuleToAccount`,
  `SendAccountToModule`, `Mint`, `Burn`). The user and the `sdk.Coins`
  argument are chosen with `\E`.
- **Atomicity.** `Commit` writes the new store only if the whole method
  succeeded. This is the SDK's rollback of a failed message.
- **Multiplier.** 10^12 becomes 4. The code only divides by the multiplier
  and takes the remainder, so the value does not matter to the logic.
- **Coin inputs.** They cover every branch of `SplitAaethCoins`: the empty
  list, a remainder only, whole uaeth only, both, a negative amount, a
  foreign denom and a duplicate denom.
- **Init.** Remainders are below one uaeth and are backed by the reserve.
- **Supply bound.** `MaxSupply` caps the total uaeth, so minting stops there.

### `TallyHandler.tla` and `MCTallyHandler.tla`

- **Snapshot variables**, unchanged during the tally: `validator` (tokens,
  shares, bonded), `delegation` and `holding` (derivatives per source:
  wallet, savings, earn).
- **Vote store:** `votes`.
- **The handler's locals:** `currValidators`, `results`, `totalVotingPower`.
- **Control variables:** `phase` and `tallied` record where the handler is.
- **Actions:**

  | Action | Code |
  |---|---|
  | `LoadValidators` | lines 45–65 |
  | `ProcessVote` | one `IterateVotes` callback, lines 67–136, including `DeleteVote` |
  | `EndVotes` | the end of the iteration |
  | `TallyValidator` | one iteration of the map loop, lines 139–152, in any order |
  | `DecideOutcome` | lines 154–185 |

- **Vote order.** A vote is picked with `\E`, so every store order is explored.
- **sdk.Dec.** Values are integers scaled by `Scale` = 100: two decimal places
  instead of 18.
  - `DecMul` and `DecQuo` copy `chopPrecisionAndRound`: rounding is half to
    even.
  - Quo multiplies by the precision twice before dividing.
- **Conversions.** x/liquid `GetStakedTokensForDerivatives` and x/earn
  `ConvertToAssets` are truncating rate conversions.
- **Snapshots.** There are two validators, which also vote, and one plain
  delegator.
  - A validator may be slashed (2 tokens for 3 shares), so Quo rounds.
  - Derivatives are held in all three sources. One is held in earn at a
    3/2 share price.
  - Votes are Yes, Abstain, Veto, or an even Yes/No split.
  - Only well-formed snapshots are kept: a validator's delegations plus the
    derivative backed by the liquid module's delegation fit in its shares.

### `TallyPower.tla`, `TallyAbstract.tla`, `TallyRefinement.tla`

- **`TallyPower`** holds what the handler and its specification share: the
  snapshot variables, the `sdk.Dec` operators, the power of a delegation, of a
  derivative holding and of a validator, and the decision policy `Decide`.
  `TallyHandler` extends it.
- **`TallyAbstract`** states what `Tally` promises without any iteration
  order. One step, `TallyStep`, consumes the votes and sets the results to
  `ClosedTally(ballot)`: a sum over the voters and the bonded validators of
  the power each contributes.
- **`TallyRefinement`** adds a history variable `ballot`, the votes the
  proposal started with, because the handler deletes each vote as it counts
  it. The mapping shows the abstract tally as not yet run until
  `phase = "done"`, and then as the handler's `results`,
  `totalVotingPower` and `outcome`.
- **Fairness.** `Tally` is one synchronous call that x/gov makes when the
  voting period ends; no step waits on anything. So the handler's `Next` is
  weakly fair (`SpecR`), and the abstract spec promises that the tally
  eventually runs. TLC checks this as `SpecDecides`
  (`[][TallyStep]_absVars /\ <>decided`). That formula is equivalent to weak
  fairness of `TallyStep`, because the step is enabled exactly while
  `~decided`. It spares TLC evaluating `ENABLED` through the mapping.

### `ProtoCodec.tla` and `MCProtoCodec.tla`

- **One template, six types.** Every message of the two files is the same
  generated code over a schema. `Schema(t)` gives each field number a name and
  a kind: a singular string or bytes field (written only when non-empty), a
  singular value marshalled by another package (`sdk.Int`, `sdk.Coin`; always
  written), the repeated forms of both, and the repeated nested
  `AllowedPool`.
- **Marshal.** `Size` sums `1 + l + sov(l)` per field. `MarshalToSizedBuffer`
  walks the fields from the highest number down, and the repeated elements
  from the last down. It writes payload, length varint and key backwards
  from the end of a buffer of `Size` bytes, and a nested `AllowedPool` into
  `dAtA[:i]`. The buffer is a record `[buf, i, lim, panic]`, and writing
  outside `[0, lim)` sets `panic`, as Go's bounds check does.
- **Unmarshal.** `Varint` is the `for shift` loop with its overflow and EOF
  checks. `LengthDelimited` has the `intStringLen < 0`, `postIndex < 0` and
  `postIndex > l` checks. `Skip` is `skipSwap`, covering wire types 0–5 and
  groups. `Unmarshal` dispatches on `int32(wire >> 3)` and the wire type.
- **Go integers at a reduced width.** `WordBits = 15` stands for the 64 bits
  of `uint64` and `int`. 15 = 2·7+1, like 64 = 9·7+1, so a varint's last
  group is cut short the same way. `Int32Bits = 8` stands for `int32`.
  Three-byte inputs then reach lengths that wrap `int`, which 64 bits would
  need ten bytes for.
- **State machine.** `MarshalMsg` marshals any bounded message of any type.
  `AppendUnknown` appends a field of a number
  no type here knows, as a record written under a later schema carries.
  `ReceiveBytes` takes any input of up to `MaxFuzzLen` bytes over
  `FuzzBytes`, for any type. `UnmarshalWire` decodes what is at hand, and
  `Reset` drops it.
- **Abstraction.** A value marshalled by another package is kept as its
  payload bytes. Its own `Unmarshal`, which can fail, is not modelled.

## 3. Runs

| Run | Checks | Result |
|---|---|---|
| `ledger` | `RemainderBelowMultiplier`, `ExactTransfer`, `ReserveAccounting` | pass, about 36k states |
| `ledger_reserve` | `NoSpuriousFailure` | **violated** |
| `tally` | `TypeOK`, `DeductionBound`, `PowerWithinBonded` (all validators bonded) | pass, about 780k states |
| `tally_unbonded` | `PowerWithinBonded`, where a validator may be unbonded | **violated** |
| `tally_refinement` | `TallyRefinesAbstract`: the handler implements `TallyAbstract` and eventually decides | pass, about 280k states |
| `tally_monotonic` | `YesMonotonic` (spec "Tally monotonicity") | **violated** |
| `codec` | `MarshalIsCanonical`, `RoundTrip`, `SkipsUnknownFields`, `NeverPanics` | pass, about 376k states |

- **`ExactTransfer`.** Every successful call changes `GetBalance` of the
  payer and of the payee by exactly the amount, and leaves every other
  EVM-visible balance alone. It is checked in every reachable state, for
  every input.
  - The spec's "Conservation" claim (§8) holds only if the reserve is
    excluded from the sum. `ConvertOneUaethToAaethIfNeeded` moves a uaeth
    into the reserve while the payer's `GetBalance` stays the same.
  - `ExactTransfer` states the version that holds.
- **`ReserveAccounting`.** Two history variables, never read by the
  actions, record the reserve's surplus over all remainders at genesis
  (`backing0`) and the remainder minted less the remainder burned so far
  (`remMinted`). The invariant `Backing + remMinted = backing0` says that
  sends and both conversions keep the reserve exactly in step with the
  remainders, so the only leak is the remainder `MintCoins` creates without
  funding the reserve. That leak is what `NoSpuriousFailure` runs into.
- **`NoSpuriousFailure`.** From a fully backed genesis, the EVM module mints
  1 aaeth and then 3 aaeth. The second mint has to convert its 4 aaeth of
  remainder into a uaeth from an empty reserve, so it fails.
  - `MintCoins` adds remainder without funding the reserve.
  - The unit tests hide this: they pre-fund the reserve with 10 uaeth.
- **`PowerWithinBonded`.** In the violating trace, voter d holds a
  derivative of an unbonded validator, votes Yes and gets power. No bonded
  stake backs that power.
  - Lines 114–117 skip the deduction for a validator outside the bonded set.
  - Lines 119–131 still add the power.
  - So `percentVoting` can exceed 1.
- **`TallyRefinesAbstract`.** For every snapshot, every vote store order and
  every Go map order, the handler consumes every vote, decides, and its
  results, total and decision equal the closed-form tally. The order does
  not matter. The run uses fewer vote choices and holding amounts than
  `tally`, to keep the temporal check within minutes.
- **`YesMonotonic`.** The spec says that adding a Yes vote never lowers the
  Yes accumulator or the total. TLC finds a counterexample:
  - validator v2 has 2 tokens for 3 shares and votes Yes;
  - d holds one wallet derivative of v2 and does not vote, giving Yes = 2.00;
  - if d votes Yes, v2 loses a full share (power 1.33), but d's derivative
    is credited at ⌊2/3⌋ = 0 tokens.

  The reason is in the code. Lines 115–116 deduct the derivative in shares.
  `GetStakedTokensForDerivatives` credits the holder a truncated whole
  number of tokens.
- **`codec`.** Every bounded message is checked, including strings of 130
  bytes, whose length needs a two-byte varint, and two nested pools. So is
  every input of up to four bytes, 185k inputs in all.
  - `MarshalIsCanonical`: `Marshal` equals the front-to-back encoding.
  - `RoundTrip`: decoding gives the message back.
  - `SkipsUnknownFields`: after `AppendUnknown` adds a field that a later
    schema defines, decoding still gives the message back. The added field
    is a varint, fixed64, length-delimited, fixed32 or group field, of
    number 5, 6 or 31, so every branch of `skipSwap` is taken on a
    well-formed input.
  - `NeverPanics`: a length of 16383 after a two-byte varint wraps
    `postIndex` negative at 15 bits, and the code rejects it instead of
    slicing.
- **Rounding slack.** `PowerWithinBonded` allows one unit in the last decimal
  place for each Quo. Each Quo truncates and then rounds, so it can round up
  by less than one unit.

Each property of a passing run has a mutant in `PROJECT.json`: a plausible
bug that TLC catches. The mutant operators sit next to the definitions they
replace.

## 4. Bounds, fairness, what is left out

- **Bounds.**
  - Bank keeper: two users, initial balances of at most 1 uaeth, and a total
    supply of at most 6 uaeth. This is enough to reach the reserve top-up,
    the normalisation at exactly one uaeth and the failure paths.
  - Tally: every well-formed snapshot over the sets above, and every vote and
    map order.
  - Codec: three string values (empty, one byte, 130 bytes), two payloads,
    up to two repeated elements, and fuzz bytes that include every key of
    fields 1–5, the continuation bytes 128 and 255, and 127. Together they
    build lengths that wrap `int`.
- **Fairness.** Only the tally claims liveness: weak fairness of the handler's
  steps, justified above. The tally is a finite loop and stops in phase
  `done`, so deadlock checking is off for the tally runs only. The
  bank-keeper and codec runs check deadlock.
- **Not modelled.**
  - The panics of `GetBalance` (wrong denom) and of `GetModuleAddress`
    (missing module): the model only passes valid denoms and existing
    modules.
  - Vesting, so spendable equals balance.
  - Blocked addresses in x/bank.
  - The ethermint caller.
  - An error from earn `ConvertToAssets`.
  - The parse-failure `break` at line 109. It cannot happen, because
    `IsDerivativeDenom` already parses the denom.
  - The aliasing in `Deposit.Unmarshal` (`store.pb.go:406`): `Depositor`
    points into the input buffer, while `ShareRecord` copies. TLA+ values
    are immutable, so this is listed as a hazard only.
  - Which known field a truncated `int32` field number aliases. Only the
    absence of panics is checked for such input.
  - A crash in the middle of `Tally`. The spec (§7) warns that deleting
    votes before the decision is not idempotent, but `Tally` runs inside
    EndBlocker and nothing it writes reaches disk before the block commits;
    a restarted node replays the block on the full vote store. A crash
    action would only reset the handler to its initial state, so it would
    check nothing the `tally_refinement` run does not.
  - The type invariants `TypeOK` of `EvmBankKeeper` and `ProtoCodec` are
    kept as documentation of the variables' ranges but not checked: the
    first follows from the overdraft checks of x/bank and the aaeth store,
    the second from Go's static types.
  - Crashes of the bank keeper's calls. A failed call is rolled back by the
    same atomic commit the `ledger` run models, and no call spans blocks.
  - The aethdist v0.16 migration. `migrateParams` copies each period's
    `Start`, `End` and `Inflation` and the `Active` flag field for field;
    a property of it would restate the copy.

## 5. Plan

Items 1–5 and 8 are done; 6 and 7 were dropped, for the reasons given.

1. ✅ `EvmBankKeeper`: the four methods, atomic commit, the remainder and
   exactness invariants, and the reserve finding.
2. ✅ `TallyHandler`: every step of `Tally`, deductions, and the power bound,
   with the unbonded-derivative finding.
3. ✅ **Order independence of the tally.** Write an abstract `TallyAbstract`
   whose single step sets the outcome to a closed-form tally. The
   closed-form tally is computed per validator from the snapshot, with no
   iteration order. Show `TallyHandler` refines it
   (`INSTANCE ... WITH` mapping `outcome` once `phase = "done"`), checked as
   a `PROPERTY`.
4. ✅ **Monotonicity (spec §8).** Compared through `ClosedTally`; violated,
   by a whole share against a truncated token (finding). Decision properties
   for the zero-bonded, all-abstain and veto cases are still to do.
5. ✅ **Reserve accounting.** `ReserveAccounting`, with history variables
   for the minted remainder and the genesis surplus.
6. ✗ **Mint/burn pairs.** Dropped. The caller that would commit EVM
   balance changes as mint/burn pairs (ethermint's state commit) is neither
   in `src/` nor described in the spec, so its order of calls would be
   guesswork.
7. ✗ **Incentive proportional rewards.** Dropped.
   `GetProportionalRewardsPerSecond` is not in `src/`; only its test table
   is. A model built from four test rows would check the rows against
   themselves.
8. ✅ **Store codecs.** `ProtoCodec`: marshal, unmarshal and skip of the six
   swap and savings store types, with round trip, canonical encoding and no
   panic on untrusted bytes.
