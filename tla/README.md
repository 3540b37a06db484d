# TLA+ models of the Brevis SDK example circuits

This directory holds the verification development for the example circuits of
this repository. The circuits are Go `AppCircuit`s written against the Brevis
SDK. Each circuit's `Define` takes a fixed-size batch of receipt-log fields
supplied by a prover and runs a fixed pipeline (spec §4):

    sdk.NewDataStream -> sdk.AssertEach(pattern) -> sdk.Map / sdk.Sum / sdk.Count
      -> u248.AssertIsLessOrEqual(threshold, observed) [-> u248.Add]
      -> api.OutputAddress / api.OutputUint

If any step fails, the proof fails and there is no output. Nothing is kept
between invocations. What the circuits differ in is only the data: which
contract and event they accept, which field positions they read, which field
must equal `UserAddr`, what they sum, what they assert and what they output.

## Inventory

| Part | Source | State | Operations | Model |
|---|---|---|---|---|
| Batch Validator + Pattern Matcher | `AssertEach` callbacks in every receipt circuit | the batch and `UserAddr` | contract, event-ID, IsTopic/Index checks; user check (single or `u248.Or`) | `Validate`, `FieldMatches`, `UserMatches`, `ReceiptMatches` |
| Extractor / Aggregator | `sdk.Map`, `sdk.Sum`, `sdk.Count` | sums, count | exact sum per amount field; overflow fails | `Aggregate`, `Extract`, `SumSeq` |
| Threshold Asserter | `u248.AssertIsLessOrEqual`, `u248.Add` | thresholds, total | every assert in order, then the total | `AssertThresholds` |
| Output Encoder | `api.OutputAddress`, `api.OutputUint(248 / 64, _)` | output buffer | big-endian values, concatenated in declared order; too wide fails | `EncodeOutput`, `Encode`, `Bits` |
| Output layout | the packed `Output*` buffer (spec §4.6, §8) | none | big-endian bits, concatenated | `Encoding.tla`: `Encode`, `Bits` |
| On-chain consumer | `handleProofResult` in `examples/nftOwnership/circuit.go` | `verifiedOwnership` | four 32-byte slices | not modelled (see below) |
| Evidence (SDK data input) | not in this repository (spec §3) | chain logs | the SDK fills Contract, EventID and Value from the log a field names | `LogField`, `FieldsOf`, `Receipts` (spec-modelled) |
| Circuit declarations | 14 receipt circuits under `examples/` and `unnamed/part_007..009` | constants | none | `Circuits.tla` |
| Storage circuits | `tokenHolder`, `unnamed/part_003` (multichain balance), `unnamed/part_005` (TWAP) | slots | contract / slot-key checks, Sum / `u248.Add`, asserts, `u248.Sub`, outputs | `StorageCircuit.tla`, `StorageCircuits.tla` |
| nftOwnership | `examples/nftOwnership/circuit.go` | one receipt | `GetUnderlying`, AssertIsEqual, LogPos equality | `NftOwnership.tla` |
| CLI tools, gateway setup | `unnamed/part_000..002`, `test_gateway_setup.go` | none | RPC, printing | not modelled (I/O only) |

Hard behaviours, and the hazards listed in `PROJECT.json`:

- The prover chooses the batch adversarially. Nothing stops a receipt from
  appearing twice in a batch.
- Nothing stops one receipt's fields from coming from different logs of the
  same transaction.
- Nothing stops a field from pointing at a log of the same shape but another
  event (a Burn has the same shape as a Mint).
- Uint248 sums and `u248.Add` may exceed their width. The spec requires that
  to fail, never to wrap.
- A Uint248 input can be written with `OutputUint(64, _)`.
- Outputs must never appear for a batch that failed any check.
- A storage slot is checked for its contract, and (except in TWAP) its slot
  key, but never for its block number.
- The documented consumer decodes padded 32-byte words; the circuits write
  packed values.

## Modules

- `Circuits.tla`: the circuit declarations, one record per circuit.
  - `SushiSwapVolume`, `SushiSwapBidirectional`, `SushiSwapLP` and
    `LayerZeroMessage`.
  - `OneAmount`, the shared shape of the single-amount circuits (pancake,
    uniswap-v3, curve, polygon, compound, aave).
  - `BalancerVolume`, which has no user field.
  - The uniswap-v2 and pancake variants of the bidirectional and LP circuits.
  - Each record gives the fields the callback checks (`Data(i)` / `Topic(i)`),
    the user fields, the amount fields, the asserts (`AtLeast(min, of)`) and
    the output layout.
- `ReceiptCircuit.tla`: one invocation of `Define`, parameterised by the chain
  and the circuit declaration.
  - Variables:
    - `stage` follows spec §4.6.
    - `user` and `mins` are the circuit inputs.
    - `batch` is `in.Receipts`.
    - `sums`, `count`, `total`, `output` and `failure` hold the results.
  - Actions:
    - `LoadBatch`: the prover picks the input.
    - `Validate`: `AssertEach`.
    - `Aggregate`: `Map`, `Sum` and `Count`, failing with Overflow.
    - `AssertThresholds`: fails with ThresholdUnmet, or with Overflow of
      `u248.Add`.
    - `EncodeOutput`: the `Output*` calls.
    - `Finish`: the invocation ends and the next starts from nothing.
  - Sums and encodings are recursive *functions*, not RECURSIVE operators, so
    the module stays provable.
  - The `...Unmasked`, `...AnyContract`, `...TopicInverted` and
    `...Unchecked` operators are bug variants of the definitions that follow
    them. They are used to show that each property can fail. Each is a
    plausible slip in a callback: a missing mask, a contract check left out,
    an inverted `IsTopic` test, or (`UserMatchesUnchecked`) no field compared
    with `UserAddr`, as in the Balancer callback.
- `Encoding.tla`: `SumSeq`, `Bits` and `Encode` (the concatenated big-endian
  `Output*` buffer), and the two encoder facts the proofs take as hypotheses.
  Shared by all three engines.
- `MCReceiptCircuit.tla`: the chains for TLC.
  - Uniswap-V2-style `Swap`, `Mint` and `Burn` logs.
  - Balancer Vault logs.
  - Uniswap V3 `Swap` logs whose amounts are two's-complement words.
- `ReceiptCircuitProofs.tla`: the TLAPS proofs.
- `StorageCircuit.tla`: one invocation of a storage-slot circuit's `Define`.
  - Variables: `stage`, `in` (the AppCircuit fields), `slots`
    (`in.StorageSlots`), `values`, `total`, `output` (value and width of each
    `Output*` call) and `failure`.
  - Actions: `LoadSlots`, `Validate` (contract per slot: a constant or
    `PairAddr`; slot key `SlotOfStructFieldInMapping(9, 0, holder)` where the
    circuit checks it), `Aggregate` (`ToUint248`, `Sum` / `u248.Add`, Overflow),
    `AssertThresholds` (min, and max for TWAP), `EncodeOutput` (including
    `u248.Sub(EndBlock, StartBlock)` and the width check of
    `OutputUint(64, _)`), `Finish`.
  - A slot is drawn from `Slots`, the storage history `Storage[b][c][k]`:
    the prover chooses block, contract and key, and the SDK fixes the value.
  - `ExpectedContractOf` and `OutputItemOf` are the per-slot contract and
    the per-call output item, shared by `Validate` and `EncodeOutput`.
- `StorageCircuits.tla`: the declarations `TokenHolder`, `MultichainBalance`
  and `UniswapV2TWAP` (contracts, checked inputs, whether the key is checked,
  output layout).
- `MCStorageCircuit.tla`: storage histories, including a holder moving tokens
  between the two multichain contracts, and a pair whose `kLast` slot differs
  from `price1CumulativeLast`.
- `StorageCircuitProofs.tla`: the TLAPS proofs about storage circuits.
- `NftOwnership.tla`: nftOwnership's `Define`, over a chain of ERC721
  `Transfer` and `Approval` logs (three indexed topics each). `Validate` is
  the eleven `AssertIsEqual` calls (`FieldsChecked`); `EncodeOutput` the four
  `Output*` calls.
- `MCNftOwnership.tla`: a mint of two tokens, an approval, and a resale.
- `NftOwnershipProofs.tla`: the TLAPS proof about nftOwnership.

## Runs

All runs use `ValueBits = AddrBits = CountBits = 2` (and `BlockBits = 2` for
the storage circuits), so the values lie in 0..3.
At that width two amounts of 2 already overflow, which makes the overflow
branches reachable with tiny chains. Users are {1, 2} and thresholds are
{0, 3}. A threshold of 3 above a sum of 2 reaches ThresholdUnmet. Every
action and every failure branch fires in the passing runs.

| Run | Circuit, chain, capacity | Checks | Result |
|---|---|---|---|
| `sushiswap` | volume; swap to user 1, router tx with swaps to 2 and to 1, same swap on another pair, a Burn decoy; 2 | TypeOK, ProofSound, MismatchOnlyIfOffPattern | pass (26,953 states) |
| `bidirectional` | sender OR recipient, two sums + total; same chain; 1 (four fields over two logs already give 4^4 field choices per receipt) | ProofSound | pass (75,259 states) |
| `sushiswap_duplicates` | volume | NoDoubleCounting | violation |
| `sushiswap_mixed_logs` | volume | AmountFromUsersLog | violation |
| `balancer_no_user` | balancer | UserInEveryReceipt | violation |
| `uniswap_v3_signed` | uniswap-v3; swaps with amount1 = 3 (that is, -1) and 1; 1 | VolumeIsMagnitude | violation |
| `multichain` | multichain; 2 blocks, holder 1 moves a token from USDC to USDC_BSC; 2 slots | BalanceAttested | pass (1,778 states) |
| `twap` | TWAP; 2 blocks, `price1CumulativeLast` and `kLast`; every StartBlock/EndBlock pair | TypeOK, BlockRangeExact | pass (5,173 states) |
| `multichain_mixed_blocks` | multichain | SameBlockTotal | violation |
| `twap_unbound_slots` | TWAP | TwapReadsPeriodPrices | violation |
| `nft_ownership` | nftOwnership; mint, approval, resale | TypeOK, OwnerAndTokenFromOneLog | pass (3,461 states) |
| `nft_ownership_claim` | nftOwnership | ProvesOwnership | violation |

The declarations without a run of their own are covered as follows:

- tokenHolder, by the theorem `SpecBalanceAttested`, which holds for every
  declaration.
- The LP and layerzero declarations, by `SpecProofSound` and
  `SpecMismatchOnlyIfOffPattern`, which hold for every declaration.

Property meanings:

- **ProofSound** combines two parts.
  - `ReceiptsAuthentic`: once validated, every field reads a log with the
    declared contract and event at the declared position, and each receipt
    names the user.
  - `SumsExact`: once asserted, each sum is the exact sum of the on-chain
    words, each threshold holds, and the total is exact.
  - Both are stated against the chain, not against the SDK's copy.
- **MismatchOnlyIfOffPattern**: a PatternMismatch is never spurious.
- **BalanceAttested**: every written balance is `Storage[b][contract][balanceOf
  slot of the written holder]` for the declared contract, at the block
  tokenHolder writes.
- **BlockRangeExact**: TWAP's written range equals `EndBlock - StartBlock`,
  and `StartBlock <= EndBlock`. `u248.Sub` wraps to a field element that no
  64-bit output accepts, so a reversed period fails instead.
  Its mutant `SubWrapping` wraps modulo 2^ValueBits instead. The wrapped
  value passes the 64-bit check only because the run gives blocks and values
  the same width; at real widths (248 and 64) it would fail the check, so the
  mutant shows that the check and the subtraction interact, not the real
  wrap-around.
- **OwnerAndTokenFromOneLog**: the owner and token of an nftOwnership proof
  are topics 2 and 3 of one log of the proven contract.

Each property of a passing run has a mutant in `PROJECT.json` that breaks it.

### Findings

The violation runs show that the circuits prove less than their comments
say:

1. **Duplicates are summed twice.** A batch may repeat one swap, so its
   amount is summed twice. Nothing in `Define` requires distinct logs.
2. **Fields can mix logs.** A receipt may take the amount from one swap and
   the recipient from another swap of the same router transaction.
   nftOwnership guards against this with a LogPos equality check; the volume
   circuits do not.
3. **Some user outputs are unverified.** Balancer, and likewise layerzero,
   outputs `UserAddr` as verified although no field is compared with it.
4. **Uniswap V3 reads signed amounts as unsigned** (`part_007:113`). A swap
   in which the user bought WETH has a negative amount1, and it adds nearly
   2^256 to the volume.
5. **TWAP's slots are bound to nothing but the pair** (`part_005:69-79`).
   The slot-key check is a TODO, and no BlockNum is compared. The proof
   writes `EndBlock - StartBlock` as its period. TLC's counterexample reads
   both slots at block 0 for the period 0..1. A `kLast` slot passes the same
   callback.
6. **The multichain total may mix blocks** (`part_003:88`). Tokens moved
   between the two contracts between the two blocks are counted twice.
7. **nftOwnership proves a past transfer, not ownership.** The README's
   claim (line 64) and the consumer's `verifiedOwnership` (line 183) accept a
   seller: TLC's counterexample proves the resold token 1 for its first
   owner. The limitations section (194-200) admits the gap. The same
   property is broken by the missing EventID check (circuit.go:36-50): an
   `Approval` log has the Transfer's three-topic shape. This is listed as a
   hazard.

Also by inspection: the documented `handleProofResult` (circuit.go:177-180)
slices four 32-byte words, but the `Output*` calls pack
20 + 20 + 31 + 8 = 79 bytes, so it reverts on every proof. This is
arithmetic on the declared widths, so no run explores it.

## What is deliberately not stated

Every property here is safety. The model holds no property that follows
from its own shape alone: that the staged pipeline behaves like one atomic
step, that decoding the buffer gives back what `Encode` wrote, that output
appears only in the step Asserted → Done, or that a loaded batch reaches
Done or Failed. Each of these holds because the actions are written as a
straight line of guarded stages, whatever the callbacks check. So no bug in
the circuits could break them. The properties kept relate the written
output to the chain, and a wrong field position, contract check or user
check breaks them.

## Proofs (TLAPS)

`ReceiptCircuitProofs.tla`:

The proofs hold for every chain, circuit declaration, capacity and width that
satisfy the named assumptions of `ReceiptCircuit`. Those assumptions are:
widths positive, capacity positive, the chain a sequence of non-empty
transactions of well-typed logs, and the declaration well-formed.

- `SpecProofSound`: `Spec => []ProofSound`.
  - The inductive invariant `IInv` records what each stage has established:
    - the batch is made of evidence receipts;
    - past validation, every receipt matches;
    - past aggregation, `sums[a] = SumSeq(Extract(batch, a))`;
    - past assertion, the thresholds are met and the total is exact.
  - `ProofSound` alone is not inductive. It does not remember that the batch
    was drawn from the evidence, nor that validation passed, and without these
    the later stages cannot be shown to preserve it.
  - Lemmas:
    - `FieldAuthentic`: a matching field equals the chain word at the
      declared position, because the Position records coincide.
    - `ReceiptAuthentic`.
    - `ExtractAuthentic`: the extracted sequence equals the chain's sequence.
  - The argument never needs the value of a sum, only that equal sequences
    have equal sums.
- `SpecMismatchOnlyIfOffPattern`: `Spec => []MismatchOnlyIfOffPattern`.
  - `MInv` strengthens it: no stage but Failed carries a failure, a loaded
    batch is drawn from the evidence, and a PatternMismatch keeps the batch
    with a receipt the callback refused. The first conjunct is needed
    because `AssertThresholds` and `EncodeOutput` copy `failure` on their
    passing branches; the second because `Validate` reads the batch.
  - Lemma `RefusedOffPattern`: an evidence receipt the callback refuses has a
    field whose log (lemma `FieldSource`: a field's contract and event ID are
    its log's) is of another contract or event, or sits at another
    position, or no user field holds the user.
  - TLC checked `MInv` as an invariant of the `sushiswap` instance before it
    was proved.

`NftOwnershipProofs.tla`:

- `SpecOwnerAndTokenFromOneLog`: `Spec => []OwnerAndTokenFromOneLog`, for
  every chain of ERC721 logs. `NInv` records that the receipt is drawn from
  the chain and, past validation, that both fields pass the asserts. The
  LogPos equality then names one log for both topics (lemma `OneLogFields`).
`StorageCircuitProofs.tla` (for every history, capacity, width and
declaration satisfying `StorageAssumption` and `DeclarationAssumption`;
the latter says that written slots exist and that a key-checking circuit
writes `HolderAddr` first and takes its contracts from the declaration):

- `SpecBalanceAttested` and `SpecBlockRangeExact`.
  - `SInv` records what each stage has established. The slots are drawn from
    the history. Past `Validate`, they passed the contract and key checks.
    Past `Aggregate`, `values` are their values. At Done, `output` is exactly
    the item list and every item passed its width check.
  - Neither property is inductive alone: both talk only about Done, and need
    the facts that earlier stages established.
Type correctness, on named encoder facts:

- `TypeOK` of each component depends on what the recursive encoder
  operators of `Encoding.tla` compute: that a `SumSeq` of naturals is a
  natural, and that `Encode` of integers at natural widths is a bit string.
  Each needs induction over the sequence, which the installed provers
  cannot do: every induction theorem of the library takes the property as an
  operator parameter (`NEW P(_)`), and neither Zenon nor the SMT backend
  instantiates one.
- `Encoding.tla` therefore names the two facts as formulas, `SumSeqNat` and
  `EncodeBinary` (bounded forms `SumSeqNatOn`, `EncodeBinaryOn`). The
  theorems take them as hypotheses, `ASSUME SumSeqNat, ... PROVE Spec =>
  []TypeOK`, and everything else is proved.
- TLC checks the facts on bounded inputs: `MCStorageCircuit.tla` has
  `ASSUME EncodingFacts`, the two facts over all sequences of length at most
  3 with values in -1..4 and widths in 0..2. Every run on that module
  evaluates it. An encoder without its mask (`BitsUnmasked`) fails it.
- The proofs:
  - `ReceiptCircuitProofs!SpecTypeOK` (`SumSeqNat`, `EncodeBinary`).
    Lemmas: `ExtractTyped` (an extracted field sequence is a sequence of
    naturals) and `OutputTyped` (the output values and widths are sequences
    of naturals of equal length). `TypeOK` is inductive as it stands once
    the facts are given, because it already types the batch.
  - `StorageCircuitProofs!SpecTypeOK` (`SumSeqNat`), on `SInv`. Lemma
    `AssertedItemsTyped` gives each `Output*` argument its type, kind by
    kind. The width check turns a block range (an integer) into a natural.
  - `NftOwnershipProofs!SpecTypeOK` (`EncodeBinary`), on `NInv`. A
    receipt's block number is a transaction index (`ReceiptBlockNum`).
- These proofs need three assumption conjuncts. All of them hold of every
  declaration in `Circuits.tla` and `StorageCircuits.tla`:
  - `CircuitAssumption`: an output item of kind sum or min names a declared
    sum or min.
  - `DeclarationAssumption`: every `Output*` call is of a kind that Define
    makes (`OutputKinds`).
  - `NftAssumption`: there is an NFT contract, so the empty input
    `NoInput` is well-typed.

What stays with TLC:

- **The encoder facts themselves** (`SumSeqNat`, `EncodeBinary`): they
  need induction over data. They are checked on bounded inputs.
- **The violations**: they are counterexamples, found by TLC.

## Not modelled

- **Command-line tools and gateway setup** (`unnamed/part_000..002`,
  `test_gateway_setup.go`). These do RPC fetching, printing and error-message
  analysis. They hold no state the circuits depend on.
- **The SDK itself**: Merkle proofs of the data, gnark constraint
  generation, and field arithmetic beyond the widths. These are not in this
  repository. The SDK's evidence is modelled from the spec as `Receipts` and
  `Slots`.
- **The Solidity consumer.** Its decoding fails on every proof (see
  Findings), so it has no behaviour to explore. The rest is application
  logic.
- **Circuits without a run of their own** (pancake, curve, polygon,
  compound, aave, and the LP and layerzero declarations). They are declarations in `Circuits.tla` that have the
  shape of the modelled `OneAmount`. Their behaviour differs only in
  constants.
