---------------------------- MODULE StorageCircuit ----------------------------
(***************************************************************************)
(* One invocation of a storage-slot circuit's Define: tokenHolder          *)
(* (examples/tokenHolder), the multichain balance circuit                  *)
(* (unnamed/part_003) and the Uniswap V2 TWAP circuit (unnamed/part_005).  *)
(* The prover supplies Capacity storage slots, each (contract, slot key,   *)
(* value, block number) read from the chain's storage history, and Define  *)
(* runs                                                                    *)
(*   NewDataStream(in.StorageSlots) -> contract / slot-key checks          *)
(*   -> ToUint248 values, Sum or u248.Add -> AssertIsLessOrEqual           *)
(*   -> Output*                                                            *)
(* with the stages of spec section 4.6.                                    *)
(***************************************************************************)
EXTENDS Integers, Sequences, FiniteSets, Encoding

CONSTANTS
  Storage,     \* the storage history: Storage[b][c][k] is slot k of
               \* contract c at block b
  Blocks,      \* block numbers of the history
  Contracts,   \* contract addresses
  Keys,        \* slot keys
  BalanceSlot, \* SlotOfStructFieldInMapping(9, 0, ToBytes32(h)): the
               \* balanceOf slot of holder h
  Circuit,     \* the circuit declaration (StorageCircuits.tla)
  Capacity,    \* maxStorage returned by Allocate
  Holders,     \* addresses a prover may pass as HolderAddr
  Mins,        \* values a prover may pass as a threshold input
  ValueBits,   \* width of sdk.Uint248 (248)
  AddrBits,    \* width of OutputAddress (160)
  BlockBits    \* width of OutputUint(64, _)

Val == 0..(2^ValueBits - 1)

ASSUME StorageAssumption ==
  /\ ValueBits \in Nat \ {0} /\ AddrBits \in Nat \ {0} /\ BlockBits \in Nat \ {0}
  /\ Capacity \in Nat \ {0}
  /\ Blocks \subseteq Nat /\ Blocks # {}
  /\ Storage \in [Blocks -> [Contracts -> [Keys -> Val]]]
  /\ BalanceSlot \in [Holders -> Keys]
  /\ Holders \subseteq Val /\ Mins \subseteq Val /\ Mins # {} /\ Holders # {}
  /\ Circuit.contracts \in Seq(Contracts) /\ Len(Circuit.contracts) = Capacity

\* The Output* calls a declaration may make (OutputItem below).
OutputKinds == {"holder", "pair", "value", "total", "min", "max", "blockNum", "blockRange"}

\* A well-formed declaration: every Output* call is one Define makes, a
\* slot's value or block number is written for a slot of the stream, and a
\* circuit that checks the balance slot takes its contracts from the
\* declaration and writes HolderAddr first.
ASSUME DeclarationAssumption ==
  /\ \A j \in 1..Len(Circuit.layout) :
       /\ Circuit.layout[j].kind \in OutputKinds
       /\ Circuit.layout[j].kind \in {"value", "blockNum"} => Circuit.layout[j].arg \in 1..Capacity
  /\ Circuit.keyChecked =>
       /\ Circuit.pairInput = FALSE
       /\ Len(Circuit.layout) > 0
       /\ Circuit.layout[1] = [kind |-> "holder", arg |-> 0]

\* A storage slot as the SDK supplies it: its value is the chain's.
StorageSlot == [contract: Contracts, key: Keys, value: Val, blockNum: Blocks]
Slots == {[contract |-> c, key |-> k, value |-> Storage[b][c][k], blockNum |-> b] :
            b \in Blocks, c \in Contracts, k \in Keys}

\* The circuit inputs (AppCircuit fields): HolderAddr, PairAddr, the
\* threshold(s) and the TWAP period StartBlock..EndBlock.
Inputs == [holder: Holders, pair: Contracts, min: Mins, max: Mins,
           start: Blocks, end: Blocks]

Fits(v, w) == 0 <= v /\ v < 2^w

\* Output* call j's argument <<value, width>> fits its slot.  A contract
\* address (a string here) is 160 bits wide and always fits OutputAddress.
Writable(j, x) == Circuit.layout[j].kind = "pair" \/ Fits(x[1], x[2])
Stages   == {"Idle", "BatchLoaded", "Validated", "Aggregated", "Asserted", "Done", "Failed"}
Failures == {"None", "PatternMismatch", "Overflow", "ThresholdUnmet"}

-----------------------------------------------------------------------------
VARIABLES
  stage,     \* where the invocation is in the pipeline
  in,        \* the circuit inputs
  slots,     \* in.StorageSlots
  values,    \* api.ToUint248(s.Value) of each slot
  total,     \* sdk.Sum / u248.Add of the values
  output,    \* the values the Output* calls write, with their widths
  failure    \* why the proof failed, or "None"

vars == <<stage, in, slots, values, total, output, failure>>

\* The contract slot i must come from, for inputs x: the declared constant,
\* or PairAddr.
ExpectedContractOf(x, i) == IF Circuit.pairInput THEN x.pair ELSE Circuit.contracts[i]
ExpectedContract(i) == ExpectedContractOf(in, i)

\* Bug variant: a subtraction that wraps modulo the Uint248 width.
SubWrapping(a, b) == (a - b) % 2^ValueBits

\* u248.Sub(a, b) in the field: when b > a the difference wraps around the
\* field modulus to an element wider than any output slot; a negative
\* integer stands for that element.
Sub(a, b) == a - b

\* The value and width written by the j-th Output* call, for inputs x,
\* slots s, values v and total t.
OutputItemOf(x, s, v, t, it) ==
  CASE it.kind = "holder"     -> <<x.holder, AddrBits>>
    [] it.kind = "pair"       -> <<x.pair, AddrBits>>
    [] it.kind = "value"      -> <<v[it.arg], ValueBits>>
    [] it.kind = "total"      -> <<t, ValueBits>>
    [] it.kind = "min"        -> <<x.min, ValueBits>>
    [] it.kind = "max"        -> <<x.max, ValueBits>>
    [] it.kind = "blockNum"   -> <<s[it.arg].blockNum, BlockBits>>
    [] it.kind = "blockRange" -> <<Sub(x.end, x.start), BlockBits>>
OutputItem(it) == OutputItemOf(in, slots, values, total, it)

\* The inputs before the prover has chosen any.
NoInput == [holder |-> CHOOSE h \in Holders : TRUE, pair |-> Circuit.contracts[1],
            min |-> CHOOSE m \in Mins : TRUE, max |-> CHOOSE m \in Mins : TRUE,
            start |-> CHOOSE b \in Blocks : TRUE, end |-> CHOOSE b \in Blocks : TRUE]

Init ==
  /\ stage = "Idle"
  /\ in = NoInput
  /\ slots = <<>>
  /\ values = <<>>
  /\ total = 0
  /\ output = <<>>
  /\ failure = "None"

\* The inputs the circuit declares (Circuit.inputs); the others keep
\* their NoInput value.
Input == {i \in Inputs : \A f \in DOMAIN i \ Circuit.inputs : i[f] = NoInput[f]}

\* The prover builds the circuit input and exactly Capacity storage slots
\* (sdk.NewDataStream(api, in.StorageSlots)).
LoadSlots ==
  /\ stage = "Idle"
  /\ \E i \in Input, s \in [1..Capacity -> Slots] : in' = i /\ slots' = s
  /\ stage' = "BatchLoaded"
  /\ UNCHANGED <<values, total, output, failure>>

\* Bug variant: the slot-key check left out (the TWAP callback's TODO,
\* applied to the balance circuits).
ValidateAnyKey ==
  /\ stage = "BatchLoaded"
  /\ IF \A i \in 1..Capacity : slots[i].contract = ExpectedContract(i)
       THEN stage' = "Validated" /\ failure' = failure
       ELSE stage' = "Failed" /\ failure' = "PatternMismatch"
  /\ UNCHANGED <<in, slots, values, total, output>>

\* The contract check of every slot (u248.AssertIsEqual, or the AssertEach
\* callback's u248.IsEqual(s.Contract, c.PairAddr)) and, where the circuit
\* has it, Bytes32.AssertIsEqual(slot.Slot, balanceSlot).
Validate ==
  /\ stage = "BatchLoaded"
  /\ IF \A i \in 1..Capacity :
          /\ slots[i].contract = ExpectedContract(i)
          /\ Circuit.keyChecked => slots[i].key = BalanceSlot[in.holder]
       THEN stage' = "Validated" /\ failure' = failure
       ELSE stage' = "Failed" /\ failure' = "PatternMismatch"
  /\ UNCHANGED <<in, slots, values, total, output>>

\* api.ToUint248 of each value, then sdk.Sum or u248.Add; a total past the
\* Uint248 width fails (spec 4.4).  TWAP's AssertIsEqual(Count, 2) always
\* holds, the stream having exactly Capacity = 2 slots.
Aggregate ==
  /\ stage = "Validated"
  /\ values' = [i \in 1..Capacity |-> slots[i].value]
  /\ total' = SumSeq(values')
  /\ IF Fits(total', ValueBits)
       THEN stage' = "Aggregated" /\ failure' = failure
       ELSE stage' = "Failed" /\ failure' = "Overflow"
  /\ UNCHANGED <<in, slots, output>>

\* AssertIsLessOrEqual(min, total) and, for TWAP, (total, MaxPrice).
AssertThresholds ==
  /\ stage = "Aggregated"
  /\ IF in.min <= total /\ (Circuit.upper => total <= in.max)
       THEN stage' = "Asserted" /\ failure' = failure
       ELSE stage' = "Failed" /\ failure' = "ThresholdUnmet"
  /\ UNCHANGED <<in, slots, values, total, output>>

\* Bug variant: the values written without the width check.
EncodeOutputUnchecked ==
  /\ stage = "Asserted"
  /\ output' = [j \in 1..Len(Circuit.layout) |-> OutputItem(Circuit.layout[j])]
  /\ stage' = "Done" /\ failure' = failure
  /\ UNCHANGED <<in, slots, values, total>>

\* The Output* calls in declared order (TWAP's u248.Sub is computed just
\* before them); a value wider than its slot fails rather than truncates.
EncodeOutput ==
  /\ stage = "Asserted"
  /\ LET items == [j \in 1..Len(Circuit.layout) |-> OutputItem(Circuit.layout[j])] IN
       IF \A j \in DOMAIN items : Writable(j, items[j])
         THEN output' = items /\ stage' = "Done" /\ failure' = failure
         ELSE output' = output /\ stage' = "Failed" /\ failure' = "Overflow"
  /\ UNCHANGED <<in, slots, values, total>>

\* The invocation ends; the next one starts from nothing.
Finish ==
  /\ stage \in {"Done", "Failed"}
  /\ stage' = "Idle"
  /\ slots' = <<>> /\ values' = <<>> /\ total' = 0 /\ output' = <<>>
  /\ in' = NoInput /\ failure' = "None"

Next == LoadSlots \/ Validate \/ Aggregate \/ AssertThresholds \/ EncodeOutput \/ Finish

Spec == Init /\ [][Next]_vars

-----------------------------------------------------------------------------
(* Properties                                                               *)

TypeOK ==
  /\ stage \in Stages
  /\ in \in Input
  /\ slots \in Seq(StorageSlot)
  /\ values \in Seq(Val)
  /\ total \in Nat
  /\ DOMAIN output \in {{}, 1..Len(Circuit.layout)}
  /\ \A j \in DOMAIN output :
       /\ output[j][2] \in Nat
       /\ IF Circuit.layout[j].kind = "pair" THEN output[j][1] \in Contracts ELSE output[j][1] \in Nat
  /\ failure \in Failures

\* The balance proof means what its consumer reads (spec 9, single-field
\* balance proof): every balance written is the balanceOf slot of the
\* written holder in the declared token contract, at the block the output
\* names where it names one (tokenHolder's OutputUint(64, slot.BlockNum)).
BalanceAttested ==
  stage = "Done" /\ Circuit.keyChecked =>
    \A j \in DOMAIN output :
      Circuit.layout[j].kind = "value" =>
        LET i == Circuit.layout[j].arg IN
        \E b \in Blocks :
          /\ output[j][1] = Storage[b][Circuit.contracts[i]][BalanceSlot[output[1][1]]]
          /\ \A n \in DOMAIN output :
               Circuit.layout[n] = [kind |-> "blockNum", arg |-> i] => output[n][1] = b

\* TWAP's block range (u248.Sub(c.EndBlock, c.StartBlock), written with
\* OutputUint(64, _)) is the exact length of a well-formed period: a proof
\* with EndBlock < StartBlock fails rather than writing a wrapped range.
BlockRangeExact ==
  stage = "Done" =>
    \A j \in DOMAIN output :
      Circuit.layout[j].kind = "blockRange" =>
        /\ in.start <= in.end
        /\ output[j][1] = in.end - in.start

-----------------------------------------------------------------------------
(* What the circuits' comments claim, beyond what Define checks.            *)

\* TWAP reads price1CumulativeLast at the two ends of its period ("[0] =
\* price1CumulativeLast at start block, [1] = price1CumulativeLast at end
\* block"): every accepted slot is that slot of the pair, the first read at
\* StartBlock and the last at EndBlock, the period whose length the proof
\* writes.
TwapReadsPeriodPrices ==
  stage = "Done" =>
    /\ \A i \in 1..Capacity : slots[i].key = Circuit.priceSlot
    /\ slots[1].blockNum = in.start /\ slots[Capacity].blockNum = in.end

\* The multichain total is the holder's combined balance: there is one
\* block at which the holder held that much across the two token contracts.
SameBlockTotal ==
  stage = "Done" =>
    \E b \in Blocks :
      total = SumSeq([i \in 1..Capacity |-> Storage[b][Circuit.contracts[i]][BalanceSlot[in.holder]]])
=============================================================================
