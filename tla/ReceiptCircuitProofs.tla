------------------------- MODULE ReceiptCircuitProofs -------------------------
(***************************************************************************)
(* Proofs about ReceiptCircuit for every chain, circuit declaration,       *)
(* capacity and width.  What the sums and the output buffer compute is     *)
(* defined by recursive functions; no step below needs their values, only  *)
(* that equal arguments give equal results.                                *)
(***************************************************************************)
EXTENDS ReceiptCircuit, SequenceTheorems, TLAPS

\* The inductive strengthening of ProofSound: what each stage of Define has
\* established about the batch so far.
IInv ==
  /\ stage \in Stages
  /\ stage \in PastValidation =>
       /\ batch \in [1..Capacity -> Receipts]
       /\ \A i \in DOMAIN batch : ReceiptMatches(batch[i], user)
  /\ stage \in {"Aggregated", "Asserted", "Done"} =>
       \A a \in 1..NA : sums[a] = SumSeq(Extract(batch, a))
  /\ stage \in {"Asserted", "Done"} =>
       /\ \A j \in 1..NM : mins[Circuit.asserts[j].min] <= Observed(Circuit.asserts[j].of)
       /\ Circuit.addTotal => total = sums[1] + sums[2]
  /\ stage = "BatchLoaded" => batch \in [1..Capacity -> Receipts]

-----------------------------------------------------------------------------
(* Evidence lemmas: what the SDK puts in a field, read back from the chain. *)

\* A declared field position is a Position record.
LEMMA DeclaredPosition ==
  ASSUME NEW k \in 1..NF
  PROVE  Circuit.fields[k] \in Position
BY CircuitAssumption DEF NF

\* A field of transaction t that passes the callback's checks for field k
\* reads a log of the declared contract and event, and its value is that
\* log's word at the declared position.
LEMMA FieldAuthentic ==
  ASSUME NEW t \in 1..Len(Chain), NEW f \in FieldsOf(t), NEW k \in 1..NF,
         FieldMatches(f, k)
  PROVE  /\ Chain[t][f.logPos].contract = Circuit.contract
         /\ Chain[t][f.logPos].eventID = Circuit.eventID
         /\ f.value = LogValue(Chain[t][f.logPos], Circuit.fields[k])
<1>1. PICK p \in 1..Len(Chain[t]), pos \in Positions : f = LogField(t, p, pos)
  BY DEF FieldsOf
<1>2. pos \in Position
  BY InputAssumption
<1>3. Circuit.fields[k] \in Position
  BY DeclaredPosition
<1>4. pos = Circuit.fields[k]
  BY <1>1, <1>2, <1>3 DEF FieldMatches, LogField, Position
<1>5. f.logPos = p
  BY <1>1 DEF LogField
<1>6. QED
  BY <1>1, <1>4, <1>5 DEF FieldMatches, LogField

\* A receipt of the evidence that passes the AssertEach callback for user u
\* is authentic field by field, and names u in one of its user fields.
LEMMA ReceiptAuthentic ==
  ASSUME NEW r \in Receipts, NEW u, ReceiptMatches(r, u)
  PROVE  /\ \A k \in 1..NF :
              /\ SourceLog(r, k).contract = Circuit.contract
              /\ SourceLog(r, k).eventID = Circuit.eventID
              /\ r.fields[k].value = LogValue(SourceLog(r, k), Circuit.fields[k])
         /\ Circuit.userFields # {} =>
              \E k \in Circuit.userFields : LogValue(SourceLog(r, k), Circuit.fields[k]) = u
<1>0. PICK t \in 1..Len(Chain) : \E fs \in [1..NF -> FieldsOf(t)] :
        r = [tx |-> t, fields |-> fs]
  BY DEF Receipts
<1>1. PICK fs \in [1..NF -> FieldsOf(t)] : r = [tx |-> t, fields |-> fs]
  BY <1>0
<1>2. ASSUME NEW k \in 1..NF
      PROVE  /\ SourceLog(r, k).contract = Circuit.contract
             /\ SourceLog(r, k).eventID = Circuit.eventID
             /\ r.fields[k].value = LogValue(SourceLog(r, k), Circuit.fields[k])
  <2>1. FieldMatches(r.fields[k], k)
    BY DEF ReceiptMatches
  <2>2. r.fields[k] \in FieldsOf(t) /\ r.tx = t
    BY <1>1
  <2>3. QED
    BY <2>1, <2>2, FieldAuthentic DEF SourceLog
<1>3. ASSUME Circuit.userFields # {}
      PROVE  \E k \in Circuit.userFields : LogValue(SourceLog(r, k), Circuit.fields[k]) = u
  <2>1. PICK k \in Circuit.userFields : r.fields[k].value = u
    BY <1>3 DEF ReceiptMatches, UserMatches
  <2>2. k \in 1..NF
    BY CircuitAssumption
  <2>3. QED
    BY <1>2, <2>1, <2>2
<1>4. QED
  BY <1>2, <1>3

-----------------------------------------------------------------------------
(* The invariant.                                                           *)

\* IInv holds initially: nothing has been validated yet.
LEMMA InitIInv == Init => IInv
BY DEF Init, IInv, Stages, PastValidation

\* Every step of Define preserves IInv.
LEMMA NextIInv == IInv /\ [Next]_vars => IInv'
<1> SUFFICES ASSUME IInv, [Next]_vars PROVE IInv'
  OBVIOUS
<1>1. CASE LoadBatch
  BY <1>1 DEF LoadBatch, IInv, Stages, PastValidation
<1>2. CASE Validate
  BY <1>2 DEF Validate, IInv, Stages, PastValidation
<1>3. CASE Aggregate
  BY <1>3 DEF Aggregate, IInv, Stages, PastValidation
<1>4. CASE AssertThresholds
  <2> DEFINE met == \A j \in 1..NM : mins[Circuit.asserts[j].min] <= Observed(Circuit.asserts[j].of)
             t   == IF Circuit.addTotal THEN sums[1] + sums[2] ELSE 0
  <2>1. stage' = "Asserted" => met /\ total' = t
    BY <1>4 DEF AssertThresholds
  <2>2. stage' \in {"Failed", "Asserted"} /\ UNCHANGED <<user, mins, batch, sums, count>>
    BY <1>4 DEF AssertThresholds
  <2>3. QED
    BY <1>4, <2>1, <2>2 DEF AssertThresholds, IInv, Stages, PastValidation, Observed
<1>5. CASE EncodeOutput
  BY <1>5 DEF EncodeOutput, IInv, Stages, PastValidation, Observed
<1>6. CASE Finish
  BY <1>6 DEF Finish, IInv, Stages, PastValidation
<1>7. CASE UNCHANGED vars
  BY <1>7 DEF vars, IInv, Stages, PastValidation, Observed
<1>8. QED
  BY <1>1, <1>2, <1>3, <1>4, <1>5, <1>6, <1>7 DEF Next

\* The values sdk.Map extracts for amount a of a validated batch are the
\* words the chain holds at the declared amount position.
LEMMA ExtractAuthentic ==
  ASSUME NEW b \in [1..Capacity -> Receipts], NEW u,
         \A i \in DOMAIN b : ReceiptMatches(b[i], u),
         NEW a \in 1..NA
  PROVE  LET k == Circuit.amountFields[a] IN
         Extract(b, a) = [i \in DOMAIN b |-> LogValue(SourceLog(b[i], k), Circuit.fields[k])]
<1> DEFINE k == Circuit.amountFields[a]
<1>0. Circuit.amountFields \in Seq(1..NF) /\ a \in 1..Len(Circuit.amountFields)
  BY CircuitAssumption DEF NA
<1>1. k \in 1..NF
  BY <1>0 DEF k, NF
<1>2. Len(b) = Capacity /\ DOMAIN b = 1..Capacity
  BY CapacityAssumption
<1>3. \A i \in DOMAIN b : b[i].fields[k].value = LogValue(SourceLog(b[i], k), Circuit.fields[k])
  BY <1>1, ReceiptAuthentic
<1>4. QED
  BY <1>2, <1>3 DEF Extract, k

\* IInv implies the property the runs check.
LEMMA IInvProofSound == IInv => ProofSound
<1> SUFFICES ASSUME IInv PROVE ProofSound
  OBVIOUS
<1>1. ReceiptsAuthentic
  BY ReceiptAuthentic DEF IInv, ReceiptsAuthentic, PastValidation
<1>2. SumsExact
  <2> SUFFICES ASSUME stage \in {"Asserted", "Done"} PROVE SumsExact
    BY DEF SumsExact
  <2>1. batch \in [1..Capacity -> Receipts] /\ \A i \in DOMAIN batch : ReceiptMatches(batch[i], user)
    BY DEF IInv, PastValidation
  <2>2. \A a \in 1..NA : LET k == Circuit.amountFields[a] IN
          sums[a] = SumSeq([i \in DOMAIN batch |-> LogValue(SourceLog(batch[i], k), Circuit.fields[k])])
    BY <2>1, ExtractAuthentic DEF IInv
  <2>3. QED
    BY <2>2 DEF IInv, SumsExact
<1>3. QED
  BY <1>1, <1>2 DEF ProofSound

\* Soundness of every receipt-log circuit (spec 8, exactness of matching and
\* exact aggregation): whenever Define has validated a batch, every field
\* it used reads the chain at the declared contract, event and position and
\* names the user; once the thresholds are asserted, each sdk.Sum equals the
\* exact sum of the on-chain amounts, each AssertIsLessOrEqual holds, and
\* u248.Add's total is the exact sum of the two sums.
THEOREM SpecProofSound == Spec => []ProofSound
<1>1. Init => IInv
  BY InitIInv
<1>2. IInv /\ [Next]_vars => IInv'
  BY NextIInv
<1>3. IInv => ProofSound
  BY IInvProofSound
<1>4. QED
  BY <1>1, <1>2, <1>3, PTL DEF Spec

-----------------------------------------------------------------------------
(* Rejection: a PatternMismatch names a receipt that is really off pattern. *)

\* The strengthening of MismatchOnlyIfOffPattern: no stage but Failed
\* carries a failure, and the PatternMismatch failure keeps the batch that
\* AssertEach rejected, with a receipt the callback refused.
MInv ==
  /\ stage \in Stages
  /\ stage # "Failed" => failure = "None"
  /\ stage = "BatchLoaded" => batch \in [1..Capacity -> Receipts]
  /\ failure = "PatternMismatch" =>
       /\ stage = "Failed"
       /\ batch \in [1..Capacity -> Receipts]
       /\ \E i \in DOMAIN batch : ~ReceiptMatches(batch[i], user)

\* The contract and event ID the SDK puts in a field are those of the log
\* the field points at.
LEMMA FieldSource ==
  ASSUME NEW t \in 1..Len(Chain), NEW f \in FieldsOf(t)
  PROVE  /\ f.contract = Chain[t][f.logPos].contract
         /\ f.eventID = Chain[t][f.logPos].eventID
<1>1. PICK p \in 1..Len(Chain[t]), pos \in Positions : f = LogField(t, p, pos)
  BY DEF FieldsOf
<1>2. QED
  BY <1>1 DEF LogField

\* A receipt of the evidence that the AssertEach callback refuses for user
\* u has a field whose log is of another contract or event, or which sits
\* at another position, or the circuit checks a user and no user field
\* holds u.
LEMMA RefusedOffPattern ==
  ASSUME NEW r \in Receipts, NEW u, ~ReceiptMatches(r, u)
  PROVE  \/ \E k \in 1..NF :
              \/ SourceLog(r, k).contract # Circuit.contract
              \/ SourceLog(r, k).eventID # Circuit.eventID
              \/ r.fields[k].isTopic # Circuit.fields[k].isTopic
              \/ r.fields[k].index # Circuit.fields[k].index
         \/ /\ Circuit.userFields # {}
            /\ \A k \in Circuit.userFields : r.fields[k].value # u
<1>1. PICK t \in 1..Len(Chain) : \E fs \in [1..NF -> FieldsOf(t)] :
        r = [tx |-> t, fields |-> fs]
  BY DEF Receipts
<1>2. PICK fs \in [1..NF -> FieldsOf(t)] : r = [tx |-> t, fields |-> fs]
  BY <1>1
<1>3. CASE \E k \in 1..NF : ~FieldMatches(r.fields[k], k)
  <2>1. PICK k \in 1..NF : ~FieldMatches(r.fields[k], k)
    BY <1>3
  <2>2. r.fields[k] \in FieldsOf(t) /\ r.tx = t
    BY <1>2
  <2>3. /\ r.fields[k].contract = SourceLog(r, k).contract
        /\ r.fields[k].eventID = SourceLog(r, k).eventID
    BY <2>2, FieldSource DEF SourceLog
  <2>4. QED
    BY <2>1, <2>3 DEF FieldMatches
<1>4. CASE ~UserMatches(r, u)
  BY <1>4 DEF UserMatches
<1>5. QED
  BY <1>3, <1>4 DEF ReceiptMatches

LEMMA InitMInv == Init => MInv
BY DEF Init, MInv, Stages

LEMMA NextMInv == MInv /\ [Next]_vars => MInv'
<1> SUFFICES ASSUME MInv, [Next]_vars PROVE MInv'
  OBVIOUS
<1>1. CASE LoadBatch
  BY <1>1 DEF LoadBatch, MInv, Stages
<1>2. CASE Validate
  <2>1. CASE \A i \in DOMAIN batch : ReceiptMatches(batch[i], user)
    BY <1>2, <2>1 DEF Validate, MInv, Stages
  <2>2. CASE ~\A i \in DOMAIN batch : ReceiptMatches(batch[i], user)
    BY <1>2, <2>2 DEF Validate, MInv, Stages
  <2>3. QED
    BY <2>1, <2>2
<1>3. CASE Aggregate
  BY <1>3 DEF Aggregate, MInv, Stages
<1>4. CASE AssertThresholds
  <2>1. stage' \in {"Failed", "Asserted"} /\ failure' \in {failure, "ThresholdUnmet", "Overflow"}
    BY <1>4 DEF AssertThresholds
  <2>2. stage' = "Asserted" => failure' = failure
    BY <1>4 DEF AssertThresholds
  <2>3. QED
    BY <1>4, <2>1, <2>2 DEF AssertThresholds, MInv, Stages
<1>5. CASE EncodeOutput
  BY <1>5 DEF EncodeOutput, MInv, Stages
<1>6. CASE Finish
  BY <1>6 DEF Finish, MInv, Stages
<1>7. CASE UNCHANGED vars
  BY <1>7 DEF vars, MInv
<1>8. QED
  BY <1>1, <1>2, <1>3, <1>4, <1>5, <1>6, <1>7 DEF Next

\* AssertEach fails a proof only for a real reason: whenever Define stops
\* with PatternMismatch, some receipt of the batch points at a log of
\* another contract or event, reads another topic/data position than the
\* pattern declares, or (for circuits that check a user) names another
\* user in every user field.  A prover's honest batch is never refused.
THEOREM SpecMismatchOnlyIfOffPattern == Spec => []MismatchOnlyIfOffPattern
<1>1. MInv => MismatchOnlyIfOffPattern
  <2> SUFFICES ASSUME MInv, failure = "PatternMismatch"
               PROVE  MismatchOnlyIfOffPattern
    BY DEF MismatchOnlyIfOffPattern
  <2>1. PICK i \in DOMAIN batch : ~ReceiptMatches(batch[i], user)
    BY DEF MInv
  <2>2. batch[i] \in Receipts
    BY DEF MInv
  <2>3. QED
    BY <2>1, <2>2, RefusedOffPattern DEF MismatchOnlyIfOffPattern
<1>2. QED
  BY <1>1, InitMInv, NextMInv, PTL DEF Spec

-----------------------------------------------------------------------------
(* Typing and the output encoding, from the encoders' facts.                *)

\* A field the SDK builds from the chain is a Field: its log is typed and
\* the position it reads exists in that log.
LEMMA FieldsTyped ==
  ASSUME NEW t \in 1..Len(Chain)
  PROVE  FieldsOf(t) \subseteq Field
<1> SUFFICES ASSUME NEW f \in FieldsOf(t) PROVE f \in Field
  OBVIOUS
<1>1. PICK p \in 1..Len(Chain[t]), pos \in Positions :
        HasPosition(Chain[t][p], pos) /\ f = LogField(t, p, pos)
  BY DEF FieldsOf
<1>2. Chain[t][p] \in Log /\ pos \in Position
  BY ChainAssumption, InputAssumption
<1>3. LogValue(Chain[t][p], pos) \in Val
  <2>1. CASE pos.isTopic
    <3>1. PICK n \in 0..3 : Chain[t][p].topic \in [1..n -> Val]
      BY <1>2 DEF Log
    <3>2. QED
      BY <1>1, <2>1, <3>1 DEF HasPosition, LogValue
  <2>2. CASE ~pos.isTopic
    <3>1. PICK n \in 0..4 : Chain[t][p].data \in [0..(n - 1) -> Val]
      BY <1>2 DEF Log
    <3>2. QED
      BY <1>1, <2>2, <3>1 DEF HasPosition, LogValue
  <2>3. QED
    BY <2>1, <2>2, <1>2 DEF Position
<1>4. QED
  BY <1>1, <1>2, <1>3 DEF LogField, Field, Log, Position

\* Every receipt of the evidence is a Receipt.
LEMMA ReceiptsTyped == Receipts \subseteq Receipt
<1> SUFFICES ASSUME NEW r \in Receipts PROVE r \in Receipt
  OBVIOUS
<1>1. PICK t \in 1..Len(Chain) : \E fs \in [1..NF -> FieldsOf(t)] :
        r = [tx |-> t, fields |-> fs]
  BY DEF Receipts
<1>2. FieldsOf(t) \subseteq Field
  BY FieldsTyped
<1>3. QED
  BY <1>1, <1>2 DEF Receipt

\* The values sdk.Map extracts from a typed batch are naturals.
LEMMA ExtractTyped ==
  ASSUME NEW b \in Seq(Receipt), NEW a \in 1..NA
  PROVE  Extract(b, a) \in Seq(Nat)
<1>1. Circuit.amountFields[a] \in 1..NF
  <2>1. Circuit.amountFields \in Seq(1..NF)
    BY CircuitAssumption
  <2>2. a \in 1..Len(Circuit.amountFields)
    BY DEF NA
  <2>3. QED
    BY <2>1, <2>2, ElementOfSeq DEF NF
<1>2. ASSUME NEW i \in 1..Len(b)
      PROVE  b[i].fields[Circuit.amountFields[a]].value \in Nat
  <2>1. b[i] \in Receipt
    OBVIOUS
  <2>2. b[i].fields[Circuit.amountFields[a]] \in Field
    BY <1>1, <2>1, Zenon DEF Receipt
  <2>3. Val \subseteq Nat
    BY WidthAssumption DEF Val
  <2>4. QED
    BY <2>2, <2>3, Zenon DEF Field
<1>3. QED
  BY <1>2 DEF Extract

\* In a typed state the Output* arguments are naturals, one per declared
\* output, and their widths are naturals.
LEMMA OutputTyped ==
  ASSUME TypeOK
  PROVE  /\ OutputValues \in Seq(Nat)
         /\ OutputWidths \in Seq(Nat)
         /\ Len(OutputValues) = Len(OutputWidths)
<1> DEFINE L == Circuit.layout
<1>1. L \in Seq([kind: {"user", "sum", "min", "total", "count"},
                 arg: Nat, width: {"addr", "value", "count"}])
  BY CircuitAssumption
<1>2. ASSUME NEW j \in 1..Len(L)
      PROVE  OutputValues[j] \in Nat
  <2>1. Users \cup {0} \subseteq Nat /\ Mins \cup {0} \subseteq Nat
    BY InputAssumption, WidthAssumption DEF Val
  <2>2. L[j].kind \in {"user", "sum", "min", "total", "count"}
    <3>1. L[j] \in [kind: {"user", "sum", "min", "total", "count"},
                    arg: Nat, width: {"addr", "value", "count"}]
      BY <1>1, ElementOfSeq
    <3>2. QED
      BY <3>1
  <2>3. CASE L[j].kind = "user"
    BY <2>1, <2>3 DEF TypeOK, OutputValues, ValuesOf
  <2>4. CASE L[j].kind = "sum"
    <3>1. L[j].arg \in 1..NA
      BY <2>4, CircuitAssumption
    <3>2. QED
      BY <2>4, <3>1 DEF TypeOK, OutputValues, ValuesOf
  <2>5. CASE L[j].kind = "min"
    <3>1. L[j].arg \in 1..NM
      BY <2>5, CircuitAssumption
    <3>2. QED
      BY <2>1, <2>5, <3>1 DEF TypeOK, OutputValues, ValuesOf
  <2>6. CASE L[j].kind = "total"
    BY <2>6 DEF TypeOK, OutputValues, ValuesOf
  <2>7. CASE L[j].kind = "count"
    BY <2>7 DEF TypeOK, OutputValues, ValuesOf
  <2>8. QED
    BY <2>2, <2>3, <2>4, <2>5, <2>6, <2>7
<1>3. ASSUME NEW j \in 1..Len(L)
      PROVE  OutputWidths[j] \in Nat
  <2>1. L[j].width \in {"addr", "value", "count"}
    <3>1. L[j] \in [kind: {"user", "sum", "min", "total", "count"},
                    arg: Nat, width: {"addr", "value", "count"}]
      BY <1>1, ElementOfSeq
    <3>2. QED
      BY <3>1
  <2>2. QED
    BY <2>1, WidthAssumption DEF OutputWidths, WidthOf
<1>4. OutputValues \in [1..Len(L) -> Nat]
  BY <1>2, Zenon DEF OutputValues, ValuesOf
<1>5. OutputWidths \in [1..Len(L) -> Nat]
  BY <1>3 DEF OutputWidths
<1>6. Len(L) \in Nat
  BY <1>1, LenProperties
<1>7. OutputValues \in Seq(Nat)
  BY <1>4, <1>6, SeqDef
<1>8. OutputWidths \in Seq(Nat)
  BY <1>5, <1>6, SeqDef
<1>9. Len(OutputValues) = Len(L) /\ Len(OutputWidths) = Len(L)
  BY <1>4, <1>5, <1>6, <1>7, <1>8, LenProperties
<1>10. QED
  BY <1>7, <1>8, <1>9

LEMMA InitTypeOK == Init => TypeOK
BY DEF Init, TypeOK, Stages, Failures

LEMMA NextTypeOK ==
  ASSUME SumSeqNat, EncodeBinary
  PROVE  TypeOK /\ [Next]_vars => TypeOK'
<1> SUFFICES ASSUME TypeOK, [Next]_vars PROVE TypeOK'
  OBVIOUS
<1>1. CASE LoadBatch
  <2>1. PICK u \in Users, m \in [1..NM -> Mins], b \in [1..Capacity -> Receipts] :
          user' = u /\ mins' = m /\ batch' = b
    BY <1>1 DEF LoadBatch
  <2>2. batch' \in Seq(Receipt)
    BY <2>1, ReceiptsTyped, CapacityAssumption
  <2>3. QED
    BY <1>1, <2>1, <2>2 DEF LoadBatch, TypeOK, Stages
<1>2. CASE Validate
  BY <1>2 DEF Validate, TypeOK, Stages, Failures
<1>3. CASE Aggregate
  <2>1. \A a \in 1..NA : SumSeq(Extract(batch, a)) \in Nat
    BY ExtractTyped DEF TypeOK, SumSeqNat, SumSeqNatOn
  <2>2. QED
    BY <1>3, <2>1 DEF Aggregate, TypeOK, Stages, Failures
<1>4. CASE AssertThresholds
  <2>1. Circuit.addTotal => sums[1] + sums[2] \in Nat
    <3>1. Circuit.addTotal => 1 \in 1..NA /\ 2 \in 1..NA
      BY CircuitAssumption
    <3>2. QED
      BY <3>1 DEF TypeOK
  <2>2. QED
    BY <1>4, <2>1 DEF AssertThresholds, TypeOK, Stages, Failures
<1>5. CASE EncodeOutput
  <2>1. Encode(OutputValues, OutputWidths) \in Seq({0, 1})
    BY OutputTyped DEF EncodeBinary, EncodeBinaryOn
  <2>2. QED
    BY <1>5, <2>1 DEF EncodeOutput, TypeOK, Stages, Failures
<1>6. CASE Finish
  BY <1>6 DEF Finish, TypeOK, Stages, Failures
<1>7. CASE UNCHANGED vars
  BY <1>7 DEF vars, TypeOK
<1>8. QED
  BY <1>1, <1>2, <1>3, <1>4, <1>5, <1>6, <1>7 DEF Next

\* Every variable of Define keeps its type, for every chain, declaration,
\* capacity and width: in particular sdk.Sum and u248.Add yield naturals
\* even on the Overflow branches, and the Output* buffer is a bit string.
\* What the recursive SumSeq and Encode compute is taken from the
\* encoders' facts (SumSeqNat, EncodeBinary), which TLC checks on bounded
\* arguments.
THEOREM SpecTypeOK ==
  ASSUME SumSeqNat, EncodeBinary
  PROVE  Spec => []TypeOK
BY InitTypeOK, NextTypeOK, PTL DEF Spec

=============================================================================
