---------------------------- MODULE ReceiptCircuit ----------------------------
(***************************************************************************)
(* One invocation of a receipt-log circuit's Define (the sushiswap,        *)
(* pancakeswap, curve, uniswap-v2/v3 volume and LP circuits, compound,     *)
(* aave, polygon-bridge, layerzero): the prover supplies a batch of        *)
(* Capacity receipts whose fields point at logs of the chain, and Define   *)
(* runs                                                                    *)
(*     NewDataStream -> AssertEach -> Map/Sum/Count -> AssertIsLessOrEqual *)
(*     -> Output*                                                          *)
(* (spec section 4.6: BatchLoaded -> Validated -> Aggregated -> Asserted   *)
(* -> Done, or Failed).  The circuit is a declaration from Circuits.tla.   *)
(***************************************************************************)
EXTENDS Integers, Sequences, FiniteSets, Encoding

CONSTANTS
  Chain,       \* the authenticated receipts: a sequence of transactions,
               \* each a sequence of logs
  Circuit,     \* the circuit declaration (Circuits.tla)
  Capacity,    \* maxReceipts returned by Allocate
  Users,       \* addresses a prover may pass as UserAddr
  Mins,        \* values a prover may pass as a threshold input
  Positions,   \* the (isTopic, index) positions a field may point at
  Contracts,   \* contract addresses of the logs
  EventIDs,    \* event identifiers of the logs
  ValueBits,   \* width of sdk.Uint248 (248)
  AddrBits,    \* width of OutputAddress (160)
  CountBits    \* width of OutputUint(64, _)

Val     == 0..(2^ValueBits - 1)
NF      == Len(Circuit.fields)
NA      == Len(Circuit.amountFields)
NM      == Len(Circuit.asserts)

\* A log: topic i (1..) and data word i (0..) of an event emitted by contract.
Log == [contract: Contracts, eventID: EventIDs,
        topic: UNION {[1..n -> Val] : n \in 0..3},
        data:  UNION {[0..(n - 1) -> Val] : n \in 0..4}]
Position == [isTopic: BOOLEAN, index: 0..3]

ASSUME WidthAssumption ==
  /\ ValueBits \in Nat \ {0} /\ AddrBits \in Nat \ {0} /\ CountBits \in Nat \ {0}
ASSUME CapacityAssumption == Capacity \in Nat \ {0}
ASSUME ChainAssumption ==
  /\ Chain \in Seq(Seq(Log))
  /\ Len(Chain) > 0
  /\ \A t \in 1..Len(Chain) : Len(Chain[t]) > 0
ASSUME InputAssumption ==
  /\ Users \subseteq Val /\ Users # {}
  /\ Mins \subseteq Val /\ Mins # {}
  /\ Positions \subseteq Position
ASSUME CircuitAssumption ==
  /\ Circuit.contract \in Contracts /\ Circuit.eventID \in EventIDs
  /\ Circuit.fields \in Seq(Position) /\ NF > 0
  /\ Circuit.userFields \subseteq 1..NF
  /\ Circuit.amountFields \in Seq(1..NF)
  /\ Circuit.asserts \in Seq([min: 1..NM, of: 0..NA])
  /\ Circuit.addTotal \in BOOLEAN
  /\ Circuit.addTotal => NA = 2
  /\ Circuit.layout \in Seq([kind: {"user", "sum", "min", "total", "count"},
                             arg: Nat, width: {"addr", "value", "count"}])
  /\ \A j \in 1..Len(Circuit.layout) :
       /\ Circuit.layout[j].kind = "sum" => Circuit.layout[j].arg \in 1..NA
       /\ Circuit.layout[j].kind = "min" => Circuit.layout[j].arg \in 1..NM

-----------------------------------------------------------------------------
(* The evidence: a receipt of the batch names a transaction and, for each   *)
(* declared field, the log position and the (isTopic, index) it reads.  The *)
(* SDK fills Contract, EventID and Value from that log.                     *)

HasPosition(l, pos) ==
  IF pos.isTopic THEN pos.index \in DOMAIN l.topic ELSE pos.index \in DOMAIN l.data
LogValue(l, pos) == IF pos.isTopic THEN l.topic[pos.index] ELSE l.data[pos.index]

Field == [contract: Contracts, eventID: EventIDs, logPos: Nat,
          isTopic: BOOLEAN, index: 0..3, value: Val]
Receipt == [tx: Nat, fields: [1..NF -> Field]]

\* The field the SDK builds for log p of transaction t read at pos.
LogField(t, p, pos) ==
  [contract |-> Chain[t][p].contract, eventID |-> Chain[t][p].eventID,
   logPos |-> p, isTopic |-> pos.isTopic, index |-> pos.index,
   value |-> LogValue(Chain[t][p], pos)]

FieldsOf(t) == UNION {{LogField(t, p, pos) : pos \in {q \in Positions : HasPosition(Chain[t][p], q)}}
                       : p \in 1..Len(Chain[t])}
Receipts == UNION {{[tx |-> t, fields |-> fs] : fs \in [1..NF -> FieldsOf(t)]} : t \in 1..Len(Chain)}

-----------------------------------------------------------------------------
(* Pattern Matcher: the AssertEach callback.                                *)

\* Bug variants of the callback: a contract check left out, and the IsTopic
\* test inverted (IsZero(IsTopic) on a topic).
FieldMatchesAnyContract(f, k) ==
  /\ f.eventID = Circuit.eventID
  /\ f.isTopic = Circuit.fields[k].isTopic
  /\ f.index = Circuit.fields[k].index
FieldMatchesTopicInverted(f, k) ==
  /\ f.contract = Circuit.contract
  /\ f.eventID = Circuit.eventID
  /\ f.isTopic = ~Circuit.fields[k].isTopic
  /\ f.index = Circuit.fields[k].index

\* contractMatches /\ eventIdMatches /\ fieldIndicesCorrect for field k.
FieldMatches(f, k) ==
  /\ f.contract = Circuit.contract
  /\ f.eventID = Circuit.eventID
  /\ f.isTopic = Circuit.fields[k].isTopic
  /\ f.index = Circuit.fields[k].index

\* Bug variant: no field compared with UserAddr, as in the Balancer
\* callback (part_008:101), applied to a circuit that declares user fields.
UserMatchesUnchecked(r, u) == TRUE

\* userMatches: IsEqual(ToUint248(Value), UserAddr) on the user field, or
\* u248.Or over two of them; absent when the circuit checks no user.
UserMatches(r, u) ==
  Circuit.userFields # {} => \E k \in Circuit.userFields : r.fields[k].value = u

ReceiptMatches(r, u) == (\A k \in 1..NF : FieldMatches(r.fields[k], k)) /\ UserMatches(r, u)

\* The values sdk.Map extracts for amount a.
Extract(b, a) == [i \in 1..Len(b) |-> b[i].fields[Circuit.amountFields[a]].value]

Fits(v, w) == v < 2^w
WidthOf(w) == CASE w = "addr" -> AddrBits [] w = "value" -> ValueBits [] w = "count" -> CountBits

-----------------------------------------------------------------------------
VARIABLES
  stage,     \* where the invocation is in the pipeline
  user,      \* the UserAddr input
  mins,      \* the threshold inputs Min<m>
  batch,     \* in.Receipts
  sums,      \* sdk.Sum of each amount
  count,     \* sdk.Count(receipts)
  total,     \* u248.Add of the two sums, when the circuit computes it
  output,    \* the output buffer
  failure    \* why the invocation failed

vars == <<stage, user, mins, batch, sums, count, total, output, failure>>

Stages == {"Idle", "BatchLoaded", "Validated", "Aggregated", "Asserted", "Done", "Failed"}
Failures == {"None", "PatternMismatch", "Overflow", "ThresholdUnmet"}

\* Observed value of an assert: a sum, or the count.
Observed(of) == IF of = 0 THEN count ELSE sums[of]

\* The values the Output* calls write, in declaration order, for user u,
\* thresholds m, sums s, total t and count c; and their widths.
ValuesOf(u, m, s, t, c) ==
  [j \in 1..Len(Circuit.layout) |->
     LET it == Circuit.layout[j] IN
     CASE it.kind = "user"  -> u
       [] it.kind = "sum"   -> s[it.arg]
       [] it.kind = "min"   -> m[it.arg]
       [] it.kind = "total" -> t
       [] it.kind = "count" -> c]
OutputValues == ValuesOf(user, mins, sums, total, count)
OutputWidths == [j \in 1..Len(Circuit.layout) |-> WidthOf(Circuit.layout[j].width)]

Init ==
  /\ stage = "Idle"
  /\ user = 0
  /\ mins = [m \in 1..NM |-> 0]
  /\ batch = <<>>
  /\ sums = [a \in 1..NA |-> 0]
  /\ count = 0
  /\ total = 0
  /\ output = <<>>
  /\ failure = "None"

\* The prover builds the circuit input: UserAddr, the thresholds and exactly
\* Capacity receipts (sdk.NewDataStream(api, in.Receipts)).
LoadBatch ==
  /\ stage = "Idle"
  /\ \E u \in Users, m \in [1..NM -> Mins], b \in [1..Capacity -> Receipts] :
       /\ user' = u
       /\ mins' = m
       /\ batch' = b
  /\ stage' = "BatchLoaded"
  /\ UNCHANGED <<sums, count, total, output, failure>>

\* sdk.AssertEach(receipts, pattern): all receipts match or the proof fails.
Validate ==
  /\ stage = "BatchLoaded"
  /\ IF \A i \in DOMAIN batch : ReceiptMatches(batch[i], user)
       THEN stage' = "Validated" /\ failure' = failure
       ELSE stage' = "Failed" /\ failure' = "PatternMismatch"
  /\ UNCHANGED <<user, mins, batch, sums, count, total, output>>

\* sdk.Map + sdk.Sum per amount, and sdk.Count; a sum past the Uint248
\* width fails (spec 4.4).
Aggregate ==
  /\ stage = "Validated"
  /\ LET s == [a \in 1..NA |-> SumSeq(Extract(batch, a))] IN
       /\ sums' = s
       /\ IF \A a \in 1..NA : Fits(s[a], ValueBits)
            THEN stage' = "Aggregated" /\ failure' = failure
            ELSE stage' = "Failed" /\ failure' = "Overflow"
  /\ count' = Len(batch)
  /\ UNCHANGED <<user, mins, batch, total, output>>

\* The AssertIsLessOrEqual(c.Min, observed) calls, then u248.Add of the two
\* sums where the circuit outputs a combined total.
AssertThresholds ==
  /\ stage = "Aggregated"
  /\ LET met == \A j \in 1..NM : mins[Circuit.asserts[j].min] <= Observed(Circuit.asserts[j].of)
         t   == IF Circuit.addTotal THEN sums[1] + sums[2] ELSE 0
     IN  /\ total' = t
         /\ CASE ~met              -> stage' = "Failed" /\ failure' = "ThresholdUnmet"
              [] ~Fits(t, ValueBits) -> stage' = "Failed" /\ failure' = "Overflow"
              [] OTHER             -> stage' = "Asserted" /\ failure' = failure
  /\ UNCHANGED <<user, mins, batch, sums, count, output>>

\* The Output* calls: each value written at its declared width; a value
\* wider than its slot fails rather than truncates (spec 4.6).
EncodeOutput ==
  /\ stage = "Asserted"
  /\ IF \A j \in DOMAIN OutputValues : Fits(OutputValues[j], OutputWidths[j])
       THEN /\ output' = Encode(OutputValues, OutputWidths)
            /\ stage' = "Done" /\ failure' = failure
       ELSE /\ output' = output
            /\ stage' = "Failed" /\ failure' = "Overflow"
  /\ UNCHANGED <<user, mins, batch, sums, count, total>>

\* The invocation ends; the next one starts from nothing (no state is kept
\* between invocations).
Finish ==
  /\ stage \in {"Done", "Failed"}
  /\ stage' = "Idle"
  /\ user' = 0
  /\ mins' = [m \in 1..NM |-> 0]
  /\ batch' = <<>>
  /\ sums' = [a \in 1..NA |-> 0]
  /\ count' = 0
  /\ total' = 0
  /\ output' = <<>>
  /\ failure' = "None"

Next == LoadBatch \/ Validate \/ Aggregate \/ AssertThresholds \/ EncodeOutput \/ Finish

Spec == Init /\ [][Next]_vars

-----------------------------------------------------------------------------
(* Properties                                                               *)

TypeOK ==
  /\ stage \in Stages
  /\ user \in Users \cup {0}
  /\ mins \in [1..NM -> Mins \cup {0}]
  /\ batch \in Seq(Receipt)
  /\ sums \in [1..NA -> Nat]
  /\ count \in Nat
  /\ total \in Nat
  /\ output \in Seq({0, 1})
  /\ failure \in Failures

\* The log a field of receipt r reads.
SourceLog(r, k) == Chain[r.tx][r.fields[k].logPos]
PastValidation == {"Validated", "Aggregated", "Asserted", "Done"}

\* Exactness of matching, accepting side (spec 8): once AssertEach has passed,
\* every field of every receipt reads a log of the declared contract and
\* event at the declared position, and every receipt names the user in one
\* of its user fields.  Stated against the chain, not the SDK's copy.
ReceiptsAuthentic ==
  stage \in PastValidation =>
    \A i \in DOMAIN batch :
      /\ \A k \in 1..NF :
           /\ SourceLog(batch[i], k).contract = Circuit.contract
           /\ SourceLog(batch[i], k).eventID = Circuit.eventID
           /\ batch[i].fields[k].value = LogValue(SourceLog(batch[i], k), Circuit.fields[k])
      /\ Circuit.userFields # {} =>
           \E k \in Circuit.userFields : LogValue(SourceLog(batch[i], k), Circuit.fields[k]) = user

\* The aggregate the circuit proves is the exact sum of the values read from
\* the chain at the declared amount positions, never a wrapped one, and it
\* meets every threshold; the combined total is the exact sum of the two.
SumsExact ==
  stage \in {"Asserted", "Done"} =>
    /\ \A a \in 1..NA :
         LET k == Circuit.amountFields[a] IN
         sums[a] = SumSeq([i \in DOMAIN batch |-> LogValue(SourceLog(batch[i], k), Circuit.fields[k])])
    /\ \A j \in 1..NM : mins[Circuit.asserts[j].min] <= Observed(Circuit.asserts[j].of)
    /\ Circuit.addTotal => total = sums[1] + sums[2]

ProofSound == ReceiptsAuthentic /\ SumsExact

\* Exactness of matching, rejecting side: a batch fails with PatternMismatch
\* only if some field really is off-pattern or some receipt lacks the user.
MismatchOnlyIfOffPattern ==
  failure = "PatternMismatch" =>
    \E i \in DOMAIN batch :
      \/ \E k \in 1..NF :
           \/ SourceLog(batch[i], k).contract # Circuit.contract
           \/ SourceLog(batch[i], k).eventID # Circuit.eventID
           \/ batch[i].fields[k].isTopic # Circuit.fields[k].isTopic
           \/ batch[i].fields[k].index # Circuit.fields[k].index
      \/ /\ Circuit.userFields # {}
         /\ \A k \in Circuit.userFields : batch[i].fields[k].value # user

-----------------------------------------------------------------------------
(* What the circuits' comments claim a proof shows ("proves that a user     *)
(* traded a minimum volume", "Sum total volume across all swaps"), beyond   *)
(* what AssertEach checks.                                                  *)

\* The address written by OutputAddress is the user of every receipt: each
\* receipt reads at least one log that carries the user, as a topic or as
\* a data word, so the output names who did what was counted.
UserInEveryReceipt ==
  stage = "Done" =>
    \A i \in DOMAIN batch : \E k \in 1..NF :
      LET l == SourceLog(batch[i], k) IN
      user \in {l.topic[x] : x \in DOMAIN l.topic} \cup {l.data[x] : x \in DOMAIN l.data}

\* The (transaction, log) an amount of receipt r is read from.
AmountSource(r, a) == <<r.tx, r.fields[Circuit.amountFields[a]].logPos>>

\* No on-chain log is credited twice to one sum: the receipts of an accepted
\* batch read their amounts from distinct logs.
NoDoubleCounting ==
  stage = "Done" =>
    \A a \in 1..NA, i, j \in DOMAIN batch :
      i # j => AmountSource(batch[i], a) # AmountSource(batch[j], a)

\* Every credited amount belongs to a log that names the user: the amount
\* field and a matching user field of a receipt read the same log.
AmountFromUsersLog ==
  stage = "Done" =>
    \A i \in DOMAIN batch, a \in 1..NA :
      Circuit.userFields # {} =>
        \E k \in Circuit.userFields :
          /\ batch[i].fields[k].value = user
          /\ batch[i].fields[k].logPos = batch[i].fields[Circuit.amountFields[a]].logPos

\* An int256 word (uniswap-v3's amount0 / amount1) read as two's complement
\* at the Uint248 width: a negative amount is the word minus 2^width.
Signed(w) == IF w >= 2^(ValueBits - 1) THEN w - 2^ValueBits ELSE w
Magnitude(x) == IF x < 0 THEN -x ELSE x

\* The volume a proof states is the total absolute amount traded ("We take
\* absolute value for volume"): each sum is the sum of the magnitudes of
\* the signed on-chain amounts.
VolumeIsMagnitude ==
  stage = "Done" =>
    \A a \in 1..NA :
      LET k == Circuit.amountFields[a] IN
      sums[a] = SumSeq([i \in DOMAIN batch |->
                  Magnitude(Signed(LogValue(SourceLog(batch[i], k), Circuit.fields[k])))])

=============================================================================
