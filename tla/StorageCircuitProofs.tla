------------------------- MODULE StorageCircuitProofs -------------------------
(***************************************************************************)
(* Proofs about StorageCircuit for every storage history, well-formed      *)
(* declaration, capacity and width: a balance proof attests the holder's   *)
(* balanceOf slot, and a TWAP proof's block range is exact.                *)
(***************************************************************************)
EXTENDS StorageCircuit, TLAPS

\* The stages at which the contract and slot-key checks have passed.
CheckedStages == {"Validated", "Aggregated", "Asserted", "Done"}

\* Slot i passed Validate's checks.
SlotChecked(i) ==
  /\ slots[i].contract = ExpectedContract(i)
  /\ Circuit.keyChecked => slots[i].key = BalanceSlot[in.holder]

\* The Output* arguments EncodeOutput builds.
Items == [j \in 1..Len(Circuit.layout) |-> OutputItem(Circuit.layout[j])]

\* The inductive invariant: the slots come from the storage history, past
\* Validate they passed its checks, past Aggregate the values are theirs,
\* and a finished proof wrote exactly the items, each within its width.
SInv ==
  /\ stage \in Stages
  /\ in \in Inputs
  /\ stage # "Idle" => slots \in [1..Capacity -> Slots]
  /\ stage \in CheckedStages => \A i \in 1..Capacity : SlotChecked(i)
  /\ stage \in {"Aggregated", "Asserted", "Done"} =>
       values = [i \in 1..Capacity |-> slots[i].value]
  /\ stage = "Done" =>
       /\ output = Items
       /\ \A j \in 1..Len(Circuit.layout) : Writable(j, output[j])

-----------------------------------------------------------------------------
(* Lemmas on the definitions                                                *)

\* The inputs of an idle invocation are inputs.
LEMMA NoInputType == NoInput \in Inputs
<1>1. Circuit.contracts[1] \in Contracts
  BY StorageAssumption
<1>2. QED
  BY <1>1, StorageAssumption DEF NoInput, Inputs

\* A slot the SDK supplies holds the history's value at its own block,
\* contract and key.
LEMMA SlotFromHistory ==
  ASSUME NEW s \in Slots
  PROVE  /\ s.blockNum \in Blocks
         /\ s.value = Storage[s.blockNum][s.contract][s.key]
BY DEF Slots

\* What the Output* call of a value, block number or block range writes.
LEMMA ItemValue ==
  ASSUME NEW it, it.kind = "value"
  PROVE  OutputItem(it) = <<values[it.arg], ValueBits>>
BY DEF OutputItem, OutputItemOf

LEMMA ItemBlockNum ==
  ASSUME NEW it, it.kind = "blockNum"
  PROVE  OutputItem(it) = <<slots[it.arg].blockNum, BlockBits>>
BY DEF OutputItem, OutputItemOf

LEMMA ItemBlockRange ==
  ASSUME NEW it, it.kind = "blockRange"
  PROVE  OutputItem(it) = <<Sub(in.end, in.start), BlockBits>>
BY DEF OutputItem, OutputItemOf

\* A step that leaves the inputs, slots, values and total alone leaves the
\* Output* arguments alone.
LEMMA ItemsUnchanged ==
  ASSUME in' = in, slots' = slots, values' = values, total' = total
  PROVE  Items' = Items
<1>1. ASSUME NEW j \in 1..Len(Circuit.layout)
      PROVE  OutputItem(Circuit.layout[j])' = OutputItem(Circuit.layout[j])
  BY Zenon DEF OutputItem, OutputItemOf, Sub
<1>2. QED
  BY <1>1 DEF Items

-----------------------------------------------------------------------------
(* The invariant                                                            *)

LEMMA InitSInv == Init => SInv
BY NoInputType DEF Init, SInv, Stages, CheckedStages

LEMMA NextSInv == SInv /\ [Next]_vars => SInv'
<1> SUFFICES ASSUME SInv, [Next]_vars PROVE SInv'
  OBVIOUS
<1>1. CASE LoadSlots
  <2>1. PICK i \in Input, s \in [1..Capacity -> Slots] : in' = i /\ slots' = s
    BY <1>1 DEF LoadSlots
  <2>2. in' \in Inputs
    BY <2>1 DEF Input
  <2>3. QED
    BY <1>1, <2>1, <2>2 DEF LoadSlots, SInv, Stages, CheckedStages
<1>2. CASE Validate
  <2>1. CASE \A i \in 1..Capacity :
               /\ slots[i].contract = ExpectedContract(i)
               /\ Circuit.keyChecked => slots[i].key = BalanceSlot[in.holder]
    BY <1>2, <2>1 DEF Validate, SInv, Stages, CheckedStages, SlotChecked, ExpectedContract, ExpectedContractOf
  <2>2. CASE ~\A i \in 1..Capacity :
               /\ slots[i].contract = ExpectedContract(i)
               /\ Circuit.keyChecked => slots[i].key = BalanceSlot[in.holder]
    BY <1>2, <2>2 DEF Validate, SInv, Stages, CheckedStages
  <2>3. QED
    BY <2>1, <2>2
<1>3. CASE Aggregate
  BY <1>3 DEF Aggregate, SInv, Stages, CheckedStages, SlotChecked, ExpectedContract, ExpectedContractOf
<1>4. CASE AssertThresholds
  BY <1>4 DEF AssertThresholds, SInv, Stages, CheckedStages, SlotChecked, ExpectedContract, ExpectedContractOf
<1>5. CASE EncodeOutput
  <2>1. Items' = Items
    BY <1>5, ItemsUnchanged DEF EncodeOutput
  <2>2. QED
    BY <1>5, <2>1 DEF EncodeOutput, SInv, Stages, CheckedStages, SlotChecked, ExpectedContract, ExpectedContractOf,
       Items, Writable
<1>6. CASE Finish
  BY <1>6, NoInputType DEF Finish, SInv, Stages, CheckedStages
<1>7. CASE UNCHANGED vars
  <2>1. Items' = Items
    BY <1>7, ItemsUnchanged DEF vars
  <2>2. QED
    BY <1>7, <2>1 DEF vars, SInv, CheckedStages, SlotChecked, ExpectedContract, ExpectedContractOf, Writable
<1>8. QED
  BY <1>1, <1>2, <1>3, <1>4, <1>5, <1>6, <1>7 DEF Next

-----------------------------------------------------------------------------
(* The theorems                                                             *)

\* The TWAP circuit's u248.Sub(EndBlock, StartBlock) never reaches the
\* output wrapped: EncodeOutput's width check of OutputUint(64, _) rejects
\* a negative difference, so every written block range is the exact,
\* non-negative period length (BlockRangeExact, for every history).
THEOREM SpecBlockRangeExact == Spec => []BlockRangeExact
<1>1. SInv => BlockRangeExact
  <2> SUFFICES ASSUME SInv, stage = "Done", NEW j \in DOMAIN output,
                      Circuit.layout[j].kind = "blockRange"
               PROVE  in.start <= in.end /\ output[j][1] = in.end - in.start
    BY DEF BlockRangeExact
  <2>1. j \in 1..Len(Circuit.layout) /\ output[j] = OutputItem(Circuit.layout[j])
    BY DEF SInv, Items
  <2>2. output[j] = <<in.end - in.start, BlockBits>>
    BY <2>1, ItemBlockRange DEF Sub
  <2>3. Fits(in.end - in.start, BlockBits)
    BY <2>1, <2>2 DEF SInv, Writable
  <2>4. in.start \in Nat /\ in.end \in Nat
    BY StorageAssumption DEF SInv, Inputs
  <2>5. QED
    BY <2>2, <2>3, <2>4 DEF Fits
<1>2. QED
  BY <1>1, InitSInv, NextSInv, PTL DEF Spec

\* A balance proof of tokenHolder or of the multichain circuit attests
\* what the consumer reads: every balance written is the balanceOf slot of
\* the written HolderAddr in the declared token contract, at the block the
\* output names (BalanceAttested, for every history).
THEOREM SpecBalanceAttested == Spec => []BalanceAttested
<1>1. SInv => BalanceAttested
  <2> SUFFICES ASSUME SInv, stage = "Done", Circuit.keyChecked,
                      NEW j \in DOMAIN output, Circuit.layout[j].kind = "value"
               PROVE  \E b \in Blocks :
                        /\ output[j][1] =
                             Storage[b][Circuit.contracts[Circuit.layout[j].arg]][BalanceSlot[output[1][1]]]
                        /\ \A n \in DOMAIN output :
                             Circuit.layout[n] = [kind |-> "blockNum", arg |-> Circuit.layout[j].arg]
                               => output[n][1] = b
    BY DEF BalanceAttested
  <2> DEFINE i == Circuit.layout[j].arg
  <2>1. j \in 1..Len(Circuit.layout) /\ DOMAIN output = 1..Len(Circuit.layout)
    BY DEF SInv, Items
  <2>2. i \in 1..Capacity
    BY <2>1, DeclarationAssumption
  <2>3. output[j] = <<slots[i].value, ValueBits>>
    BY <2>1, <2>2, ItemValue DEF SInv, Items
  <2>4. slots[i] \in Slots
    BY <2>2 DEF SInv
  <2>5. slots[i].contract = Circuit.contracts[i] /\ slots[i].key = BalanceSlot[in.holder]
    BY <2>2, DeclarationAssumption DEF SInv, CheckedStages, SlotChecked, ExpectedContract, ExpectedContractOf
  <2>6. output[1] = <<in.holder, AddrBits>>
    <3>1. 1 \in 1..Len(Circuit.layout) /\ Circuit.layout[1].kind = "holder"
      BY DeclarationAssumption
    <3>2. QED
      BY <3>1 DEF SInv, Items, OutputItem, OutputItemOf
  <2>7. ASSUME NEW n \in DOMAIN output,
               Circuit.layout[n] = [kind |-> "blockNum", arg |-> i]
        PROVE  output[n][1] = slots[i].blockNum
    <3>1. output[n] = OutputItem(Circuit.layout[n])
      BY <2>1, <2>7 DEF SInv, Items
    <3>2. QED
      BY <3>1, <2>7, ItemBlockNum
  <2>8. slots[i].blockNum \in Blocks
         /\ slots[i].value = Storage[slots[i].blockNum][slots[i].contract][slots[i].key]
    BY <2>4, SlotFromHistory
  <2>9. output[j][1] = Storage[slots[i].blockNum][Circuit.contracts[i]][BalanceSlot[output[1][1]]]
    <3>1. output[j][1] = slots[i].value /\ output[1][1] = in.holder
      BY <2>3, <2>6
    <3>2. QED
      BY <3>1, <2>5, <2>8
  <2>10. QED
    BY <2>7, <2>8, <2>9
<1>2. QED
  BY <1>1, InitSInv, NextSInv, PTL DEF Spec
-----------------------------------------------------------------------------
(* Type correctness, from the fact that a Sum of naturals is a natural     *)
(* (SumSeqNat, Encoding.tla; checked by TLC on bounded sequences).          *)

\* A slot the SDK supplies is a storage slot of the declared types.
LEMMA SlotsTyped == Slots \subseteq StorageSlot
BY StorageAssumption DEF Slots, StorageSlot

\* The inputs of an idle invocation are inputs the circuit may be given.
LEMMA NoInputInput == NoInput \in Input
BY NoInputType DEF Input

\* In an asserted invocation every Output* argument has a natural width, a
\* contract address where PairAddr is written, and an integer elsewhere.
LEMMA AssertedItemsTyped ==
  ASSUME TypeOK, SInv, stage = "Asserted", NEW j \in 1..Len(Circuit.layout)
  PROVE  /\ Items[j][2] \in Nat
         /\ Circuit.layout[j].kind = "pair" => Items[j][1] \in Contracts
         /\ Circuit.layout[j].kind # "pair" => Items[j][1] \in Int
<1> DEFINE it == Circuit.layout[j]
<1> USE DEF it
<1>1. Items[j] = OutputItem(it)
  BY DEF Items
<1>2. /\ it.kind \in OutputKinds
      /\ it.kind \in {"value", "blockNum"} => it.arg \in 1..Capacity
  BY DeclarationAssumption
<1>3. in \in Inputs /\ total \in Nat
  BY DEF TypeOK, Input
<1>6. /\ in.holder \in Holders /\ in.pair \in Contracts /\ in.min \in Mins /\ in.max \in Mins
      /\ in.start \in Blocks /\ in.end \in Blocks
  BY <1>3, Zenon DEF Inputs
<1>4. /\ slots \in [1..Capacity -> StorageSlot]
      /\ values = [i \in 1..Capacity |-> slots[i].value]
  BY SlotsTyped DEF SInv
<1>5. /\ Holders \subseteq Nat /\ Mins \subseteq Nat /\ Blocks \subseteq Nat
      /\ AddrBits \in Nat /\ ValueBits \in Nat /\ BlockBits \in Nat
  BY StorageAssumption DEF Val
<1>7. CASE it.kind = "holder"
  <2>1. OutputItem(it) = <<in.holder, AddrBits>>
    BY <1>7, Zenon DEF OutputItem, OutputItemOf
  <2>2. in.holder \in Nat
    BY <1>5, <1>6, Zenon
  <2>3. Items[j] = <<in.holder, AddrBits>>
    BY <1>1, <2>1
  <2>4. QED
    BY <1>5, <1>7, <2>2, <2>3
<1>8. CASE it.kind = "pair"
  <2>1. OutputItem(it) = <<in.pair, AddrBits>>
    BY <1>8, Zenon DEF OutputItem, OutputItemOf
  <2>2. QED
    BY <1>1, <1>5, <1>6, <1>8, <2>1
<1>9. CASE it.kind = "value"
  <2>1. OutputItem(it) = <<values[it.arg], ValueBits>>
    BY <1>9, ItemValue
  <2>2. values[it.arg] \in Val
    BY <1>2, <1>4, <1>9 DEF StorageSlot
  <2>3. QED
    BY <1>1, <1>5, <1>9, <2>1, <2>2 DEF Val
<1>10. CASE it.kind = "total"
  <2>1. OutputItem(it) = <<total, ValueBits>>
    BY <1>10, Zenon DEF OutputItem, OutputItemOf
  <2>2. QED
    BY <1>1, <1>3, <1>5, <1>10, <2>1
<1>11. CASE it.kind = "min"
  <2>1. OutputItem(it) = <<in.min, ValueBits>>
    BY <1>11, Zenon DEF OutputItem, OutputItemOf
  <2>2. in.min \in Nat
    BY <1>5, <1>6, Zenon
  <2>3. Items[j] = <<in.min, ValueBits>>
    BY <1>1, <2>1
  <2>4. QED
    BY <1>5, <1>11, <2>2, <2>3
<1>12. CASE it.kind = "max"
  <2>1. OutputItem(it) = <<in.max, ValueBits>>
    BY <1>12, Zenon DEF OutputItem, OutputItemOf
  <2>2. in.max \in Nat
    BY <1>5, <1>6, Zenon
  <2>3. Items[j] = <<in.max, ValueBits>>
    BY <1>1, <2>1
  <2>4. QED
    BY <1>5, <1>12, <2>2, <2>3
<1>13. CASE it.kind = "blockNum"
  <2>1. OutputItem(it) = <<slots[it.arg].blockNum, BlockBits>>
    BY <1>13, ItemBlockNum
  <2>2. slots[it.arg].blockNum \in Blocks
    BY <1>2, <1>4, <1>13 DEF StorageSlot
  <2>3. slots[it.arg].blockNum \in Nat
    BY <1>5, <2>2, Zenon
  <2>4. Items[j] = <<slots[it.arg].blockNum, BlockBits>>
    BY <1>1, <2>1
  <2>5. QED
    BY <1>5, <1>13, <2>3, <2>4
<1>14. CASE it.kind = "blockRange"
  <2>1. OutputItem(it) = <<Sub(in.end, in.start), BlockBits>>
    BY <1>14, ItemBlockRange
  <2>2. in.start \in Nat /\ in.end \in Nat
    BY <1>5, <1>6, Zenon
  <2>3. Items[j] = <<in.end - in.start, BlockBits>>
    BY <1>1, <2>1 DEF Sub
  <2>4. QED
    BY <1>5, <1>14, <2>2, <2>3
<1>15. QED
  BY <1>2, <1>7, <1>8, <1>9, <1>10, <1>11, <1>12, <1>13, <1>14 DEF OutputKinds

LEMMA NextTypeOK ==
  ASSUME SumSeqNat
  PROVE  TypeOK /\ SInv /\ [Next]_vars => TypeOK'
<1> SUFFICES ASSUME TypeOK, SInv, [Next]_vars PROVE TypeOK'
  OBVIOUS
<1>1. CASE LoadSlots
  <2>1. PICK i \in Input, s \in [1..Capacity -> Slots] : in' = i /\ slots' = s
    BY <1>1 DEF LoadSlots
  <2>2. slots' \in Seq(StorageSlot)
    BY <2>1, SlotsTyped, StorageAssumption
  <2>3. QED
    BY <1>1, <2>1, <2>2 DEF LoadSlots, TypeOK, Stages
<1>2. CASE Validate
  BY <1>2 DEF Validate, TypeOK, Stages, Failures
<1>3. CASE Aggregate
  <2>1. slots \in [1..Capacity -> StorageSlot]
    BY <1>3, SlotsTyped DEF Aggregate, SInv
  <2>2. values' \in [1..Capacity -> Val]
    BY <1>3, <2>1 DEF Aggregate, StorageSlot
  <2>3. values' \in Seq(Val) /\ values' \in Seq(Nat)
    BY <2>2, StorageAssumption DEF Val
  <2>4. total' \in Nat
    BY <1>3, <2>3 DEF Aggregate, SumSeqNat, SumSeqNatOn
  <2>5. QED
    BY <1>3, <2>3, <2>4 DEF Aggregate, TypeOK, Stages, Failures
<1>4. CASE AssertThresholds
  BY <1>4 DEF AssertThresholds, TypeOK, Stages, Failures
<1>5. CASE EncodeOutput
  <2>1. CASE \A j \in 1..Len(Circuit.layout) : Writable(j, Items[j])
    <3>1. output' = Items
      BY <1>5, <2>1 DEF EncodeOutput, Items
    <3>2. ASSUME NEW j \in 1..Len(Circuit.layout)
          PROVE  /\ Items[j][2] \in Nat
                 /\ IF Circuit.layout[j].kind = "pair" THEN Items[j][1] \in Contracts
                                                      ELSE Items[j][1] \in Nat
      BY <1>5, <2>1, AssertedItemsTyped DEF EncodeOutput, Writable, Fits
    <3>3. QED
      BY <1>5, <2>1, <3>1, <3>2 DEF EncodeOutput, Items, TypeOK, Stages
  <2>2. CASE ~\A j \in 1..Len(Circuit.layout) : Writable(j, Items[j])
    BY <1>5, <2>2 DEF EncodeOutput, Items, TypeOK, Stages, Failures
  <2>3. QED
    BY <2>1, <2>2
<1>6. CASE Finish
  BY <1>6, NoInputInput DEF Finish, TypeOK, Stages, Failures
<1>7. CASE UNCHANGED vars
  BY <1>7 DEF vars, TypeOK
<1>8. QED
  BY <1>1, <1>2, <1>3, <1>4, <1>5, <1>6, <1>7 DEF Next

\* Every Output* argument a storage-slot circuit writes is a natural of a
\* natural width, or PairAddr where the TWAP writes it with OutputAddress;
\* the values Aggregate sums are the slots' Uint248 values and their Sum is
\* a natural (TypeOK, for every history and declaration, given SumSeqNat).
THEOREM SpecTypeOK ==
  ASSUME SumSeqNat
  PROVE  Spec => []TypeOK
<1>1. Init => TypeOK
  BY NoInputInput DEF Init, TypeOK, Stages, Failures
<1>2. TypeOK /\ SInv /\ [Next]_vars => TypeOK'
  BY NextTypeOK
<1>3. QED
  BY <1>1, <1>2, InitSInv, NextSInv, PTL DEF Spec
=============================================================================
