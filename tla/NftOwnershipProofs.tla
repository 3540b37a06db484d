-------------------------- MODULE NftOwnershipProofs --------------------------
(***************************************************************************)
(* Proofs about NftOwnership for every chain, contract set and width.      *)
(***************************************************************************)
EXTENDS NftOwnership, TLAPS

\* What AssertIsEqual has established about the receipt so far.
NInv ==
  /\ stage \in {"Idle", "BatchLoaded", "Validated", "Done", "Failed"}
  /\ stage \in {"BatchLoaded", "Validated", "Done"} => receipt \in Receipts
  /\ stage \in {"Validated", "Done"} =>
       LET f == receipt.fields IN
       /\ f[1].contract = in.nft /\ f[1].index = 2 /\ f[1].value = in.owner
       /\ f[2].contract = in.nft /\ f[2].index = 3 /\ f[2].value = in.tokenId
       /\ f[1].logPos = f[2].logPos

\* NInv holds initially.
LEMMA InitNInv == Init => NInv
BY DEF Init, NInv

\* Every step preserves NInv.
LEMMA NextNInv == NInv /\ [Next]_vars => NInv'
<1> SUFFICES ASSUME NInv, [Next]_vars PROVE NInv'
  OBVIOUS
<1>1. CASE LoadReceipt
  BY <1>1 DEF LoadReceipt, NInv
<1>2. CASE Validate
  BY <1>2 DEF Validate, FieldsChecked, NInv
<1>3. CASE EncodeOutput
  BY <1>3 DEF EncodeOutput, NInv
<1>4. CASE Finish
  BY <1>4 DEF Finish, NInv
<1>5. CASE UNCHANGED vars
  BY <1>5 DEF vars, NInv
<1>6. QED
  BY <1>1, <1>2, <1>3, <1>4, <1>5 DEF Next

\* A receipt whose two fields read topic 2 and topic 3 of the same log
\* position carries that log's topic 2 and topic 3.
LEMMA OneLogFields ==
  ASSUME NEW r \in Receipts,
         r.fields[1].index = 2, r.fields[2].index = 3,
         r.fields[1].logPos = r.fields[2].logPos
  PROVE  LET l == Chain[r.tx][r.fields[1].logPos] IN
         /\ r.fields[1].logPos \in 1..Len(Chain[r.tx])
         /\ l.contract = r.fields[1].contract /\ l.contract = r.fields[2].contract
         /\ l.topic[2] = r.fields[1].value /\ l.topic[3] = r.fields[2].value
<1>1. PICK t \in 1..Len(Chain) : \E fs \in [1..2 -> FieldsOf(t)] :
        r = [tx |-> t, blockNum |-> t, fields |-> fs]
  BY DEF Receipts
<1>2. PICK fs \in [1..2 -> FieldsOf(t)] : r = [tx |-> t, blockNum |-> t, fields |-> fs]
  BY <1>1
<1>3. PICK p1 \in 1..Len(Chain[t]), i1 \in 1..3 : fs[1] = LogField(t, p1, i1)
  BY <1>2 DEF FieldsOf
<1>4. PICK p2 \in 1..Len(Chain[t]), i2 \in 1..3 : fs[2] = LogField(t, p2, i2)
  BY <1>2 DEF FieldsOf
<1>5. i1 = 2 /\ i2 = 3 /\ p1 = p2
  BY <1>2, <1>3, <1>4 DEF LogField
<1>6. QED
  BY <1>2, <1>3, <1>4, <1>5 DEF LogField

\* A proof of ownership (Done) names an owner and a token that one log of
\* NFTContractAddr carries together at topics 2 and 3: the LogPos equality
\* keeps the two AssertIsEqual'd fields on the same log.
THEOREM SpecOwnerAndTokenFromOneLog == Spec => []OwnerAndTokenFromOneLog
<1>1. NInv => OwnerAndTokenFromOneLog
  <2> SUFFICES ASSUME NInv, stage = "Done"
               PROVE  OwnerAndTokenFromOneLog
    BY DEF OwnerAndTokenFromOneLog
  <2>1. receipt \in Receipts
    BY DEF NInv
  <2>2. /\ receipt.fields[1].contract = in.nft /\ receipt.fields[1].index = 2
        /\ receipt.fields[1].value = in.owner
        /\ receipt.fields[2].contract = in.nft /\ receipt.fields[2].index = 3
        /\ receipt.fields[2].value = in.tokenId
        /\ receipt.fields[1].logPos = receipt.fields[2].logPos
    BY DEF NInv
  <2>3. QED
    BY <2>1, <2>2, OneLogFields DEF OwnerAndTokenFromOneLog
<1>2. QED
  BY <1>1, InitNInv, NextNInv, PTL DEF Spec
-----------------------------------------------------------------------------
(* Type correctness, from the fact that Encode of integers at natural      *)
(* widths is a bit string (EncodeBinary, Encoding.tla; checked by TLC on   *)
(* bounded sequences).                                                      *)

\* The inputs of an idle invocation are inputs the circuit may be given.
LEMMA NoInputInput == NoInput \in Input
<1>1. PICK c \in Contracts : TRUE
  BY NftAssumption
<1>2. c \in Val /\ (CHOOSE c2 \in Contracts : TRUE) \in Val
  BY <1>1, NftAssumption, Zenon
<1>3. 0 \in Val
  <2>1. 2^ValueBits - 1 \in Int
    BY NftAssumption
  <2>2. c \in Int /\ 0 <= c /\ c <= 2^ValueBits - 1
    BY <1>2 DEF Val
  <2>3. QED
    BY <2>1, <2>2 DEF Val
<1>4. QED
  BY <1>2, <1>3 DEF NoInput, Input

\* The block number of an authenticated receipt is a transaction index.
LEMMA ReceiptBlockNum ==
  ASSUME NEW r \in Receipts
  PROVE  r.blockNum \in Nat
<1>1. PICK t \in 1..Len(Chain) : \E fs \in [1..2 -> FieldsOf(t)] :
        r = [tx |-> t, blockNum |-> t, fields |-> fs]
  BY DEF Receipts
<1>2. QED
  BY <1>1

\* A validated invocation writes integers at natural widths.
LEMMA ValidatedOutputTyped ==
  ASSUME NInv, in \in Input, stage = "Validated"
  PROVE  /\ OutputValues \in Seq(Int)
         /\ OutputWidths \in Seq(Nat)
         /\ Len(OutputValues) = Len(OutputWidths)
<1>1. in.owner \in Val /\ in.nft \in Contracts /\ in.tokenId \in Val
  BY Zenon DEF Input
<1>2. in.nft \in Val
  BY <1>1, NftAssumption, Zenon
<1>3. in.owner \in Int /\ in.nft \in Int /\ in.tokenId \in Int
  BY <1>1, <1>2 DEF Val
<1>4. receipt.blockNum \in Nat
  BY ReceiptBlockNum DEF NInv
<1>5. QED
  BY <1>3, <1>4, NftAssumption DEF OutputValues, OutputValuesOf, OutputWidths

LEMMA NextTypeOK ==
  ASSUME EncodeBinary
  PROVE  TypeOK /\ NInv /\ [Next]_vars => TypeOK'
<1> SUFFICES ASSUME TypeOK, NInv, [Next]_vars PROVE TypeOK'
  OBVIOUS
<1>1. CASE LoadReceipt
  BY <1>1 DEF LoadReceipt, TypeOK
<1>2. CASE Validate
  BY <1>2 DEF Validate, TypeOK
<1>3. CASE EncodeOutput
  <2>1. Encode(OutputValues, OutputWidths) \in Seq({0, 1})
    <3>1. /\ OutputValues \in Seq(Int)
          /\ OutputWidths \in Seq(Nat)
          /\ Len(OutputValues) = Len(OutputWidths)
      BY <1>3, ValidatedOutputTyped DEF EncodeOutput, TypeOK
    <3>2. QED
      BY <3>1 DEF EncodeBinary, EncodeBinaryOn
  <2>2. QED
    BY <1>3, <2>1 DEF EncodeOutput, TypeOK
<1>4. CASE Finish
  BY <1>4, NoInputInput DEF Finish, TypeOK
<1>5. CASE UNCHANGED vars
  BY <1>5 DEF vars, TypeOK
<1>6. QED
  BY <1>1, <1>2, <1>3, <1>4, <1>5 DEF Next

\* The nftOwnership proof's buffer is a bit string throughout: the four
\* Output* calls encode the owner, contract, token and block as bits
\* (TypeOK, for every chain and width, given EncodeBinary).
THEOREM SpecTypeOK ==
  ASSUME EncodeBinary
  PROVE  Spec => []TypeOK
<1>1. Init => TypeOK
  BY NoInputInput DEF Init, TypeOK
<1>2. TypeOK /\ NInv /\ [Next]_vars => TypeOK'
  BY NextTypeOK
<1>3. QED
  BY <1>1, <1>2, InitNInv, NextNInv, PTL DEF Spec
=============================================================================
