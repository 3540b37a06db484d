----------------------------- MODULE NftOwnership -----------------------------
(***************************************************************************)
(* One invocation of examples/nftOwnership's Define: the prover supplies   *)
(* one receipt (Allocate returns 1, 0, 0) whose two fields point at logs   *)
(* of one transaction, and Define checks them with AssertIsEqual calls     *)
(* against the inputs NFTContractAddr, OwnerAddr and TokenID, then writes  *)
(* owner, contract, token and block.                                       *)
(***************************************************************************)
EXTENDS Integers, Sequences, Encoding

CONSTANTS
  Chain,       \* the authenticated receipts: transaction t (in block t) is
               \* a sequence of ERC721 logs
  EventIDs,    \* event identifiers of the logs
  Contracts,   \* NFT contract addresses (numbers: they are written out)
  ValueBits,   \* width of sdk.Uint248 (248)
  AddrBits,    \* width of OutputAddress (160)
  CountBits    \* width of OutputUint(64, _)

Val == 0..(2^ValueBits - 1)

\* An ERC721 log: three indexed topics after the signature, no data.
Log == [contract: Contracts, eventID: EventIDs, topic: [1..3 -> Val]]

ASSUME NftAssumption ==
  /\ ValueBits \in Nat \ {0} /\ AddrBits \in Nat \ {0} /\ CountBits \in Nat \ {0}
  /\ Contracts \subseteq Val /\ Contracts # {}
  /\ Chain \in Seq(Seq(Log)) /\ Len(Chain) > 0

\* The field the SDK builds for topic i of log p of transaction t.
LogField(t, p, i) ==
  [contract |-> Chain[t][p].contract, eventID |-> Chain[t][p].eventID,
   logPos |-> p, isTopic |-> TRUE, index |-> i, value |-> Chain[t][p].topic[i]]
FieldsOf(t) == {LogField(t, p, i) : p \in 1..Len(Chain[t]), i \in 1..3}
Receipts == UNION {{[tx |-> t, blockNum |-> t, fields |-> fs] : fs \in [1..2 -> FieldsOf(t)]}
                    : t \in 1..Len(Chain)}

\* The AppCircuit inputs.
Input == [nft: Contracts, owner: Val, tokenId: Val]
NoInput == [nft |-> CHOOSE c \in Contracts : TRUE, owner |-> 0, tokenId |-> 0]

\* The Output* calls: OutputAddress(OwnerAddr), OutputAddress(NFTContractAddr),
\* OutputUint(248, TokenID), OutputUint(64, BlockNum).
OutputWidths == <<AddrBits, AddrBits, ValueBits, CountBits>>

Fits(v, w) == v < 2^w

-----------------------------------------------------------------------------
VARIABLES
  stage,     \* Idle, BatchLoaded, Validated, Done or Failed
  in,        \* the circuit inputs
  receipt,   \* sdk.GetUnderlying(receipts, 0)
  output,    \* the output buffer
  failure    \* why the proof failed, or "None"

vars == <<stage, in, receipt, output, failure>>

\* The values Define writes, in order, for inputs x and receipt r.
OutputValuesOf(x, r) == <<x.owner, x.nft, x.tokenId, r.blockNum>>
OutputValues == OutputValuesOf(in, receipt)

NoReceipt == [tx |-> 0, blockNum |-> 0, fields |-> <<>>]

Init ==
  /\ stage = "Idle"
  /\ in = NoInput
  /\ receipt = NoReceipt
  /\ output = <<>>
  /\ failure = "None"

\* The prover builds the inputs and the one receipt.
LoadReceipt ==
  /\ stage = "Idle"
  /\ \E i \in Input, r \in Receipts : in' = i /\ receipt' = r
  /\ stage' = "BatchLoaded"
  /\ UNCHANGED <<output, failure>>

\* Bug variant: the LogPos equality left out.
ValidateAnyLog ==
  /\ stage = "BatchLoaded"
  /\ LET f == receipt.fields IN
       IF /\ f[1].contract = in.nft /\ f[1].isTopic /\ f[1].index = 2 /\ f[1].value = in.owner
          /\ f[2].contract = in.nft /\ f[2].isTopic /\ f[2].index = 3 /\ f[2].value = in.tokenId
         THEN stage' = "Validated" /\ failure' = failure
         ELSE stage' = "Failed" /\ failure' = "PatternMismatch"
  /\ UNCHANGED <<in, receipt, output>>

\* The AssertIsEqual calls on fields f for inputs x: field 1 is topic 2
\* ("to") of a log of NFTContractAddr and equals OwnerAddr, field 2 is
\* topic 3 (tokenId) of a log of that contract and equals TokenID, and both
\* read the same log.  No call checks the EventID.
FieldsChecked(x, f) ==
  /\ f[1].contract = x.nft /\ f[1].isTopic /\ f[1].index = 2 /\ f[1].value = x.owner
  /\ f[2].contract = x.nft /\ f[2].isTopic /\ f[2].index = 3 /\ f[2].value = x.tokenId
  /\ f[1].logPos = f[2].logPos

Validate ==
  /\ stage = "BatchLoaded"
  /\ IF FieldsChecked(in, receipt.fields)
       THEN stage' = "Validated" /\ failure' = failure
       ELSE stage' = "Failed" /\ failure' = "PatternMismatch"
  /\ UNCHANGED <<in, receipt, output>>

\* The Output* calls; a value wider than its slot fails.
EncodeOutput ==
  /\ stage = "Validated"
  /\ IF \A j \in 1..4 : Fits(OutputValues[j], OutputWidths[j])
       THEN output' = Encode(OutputValues, OutputWidths) /\ stage' = "Done" /\ failure' = failure
       ELSE output' = output /\ stage' = "Failed" /\ failure' = "Overflow"
  /\ UNCHANGED <<in, receipt>>

\* The invocation ends; the next one starts from nothing.
Finish ==
  /\ stage \in {"Done", "Failed"}
  /\ stage' = "Idle" /\ in' = NoInput /\ receipt' = NoReceipt
  /\ output' = <<>> /\ failure' = "None"

Next == LoadReceipt \/ Validate \/ EncodeOutput \/ Finish

Spec == Init /\ [][Next]_vars

-----------------------------------------------------------------------------
(* Properties                                                               *)

TypeOK ==
  /\ stage \in {"Idle", "BatchLoaded", "Validated", "Done", "Failed"}
  /\ in \in Input
  /\ output \in Seq({0, 1})
  /\ failure \in {"None", "PatternMismatch", "Overflow"}

\* The log a field of the receipt reads.
SourceLog(k) == Chain[receipt.tx][receipt.fields[k].logPos]

\* The owner and the token of a proof come from one log of the proven
\* contract: some log of the receipt's transaction, emitted by
\* NFTContractAddr, has OwnerAddr at topic 2 and TokenID at topic 3.
OwnerAndTokenFromOneLog ==
  stage = "Done" =>
    \E p \in 1..Len(Chain[receipt.tx]) :
      LET l == Chain[receipt.tx][p] IN
      l.contract = in.nft /\ l.topic[2] = in.owner /\ l.topic[3] = in.tokenId

\* The proof means what the circuit's README says of it ("proves that a
\* specific Ethereum address owns a specific NFT ... by verifying a
\* Transfer event where the address received the NFT"): the log the owner
\* is read from is a Transfer, and no later transaction transfers the token
\* away from the owner.
ProvesOwnership ==
  stage = "Done" =>
    /\ SourceLog(1).eventID = "Transfer"
    /\ \A t \in (receipt.tx + 1)..Len(Chain) : \A p \in 1..Len(Chain[t]) :
         LET l == Chain[t][p] IN
         ~(l.contract = in.nft /\ l.eventID = "Transfer" /\ l.topic[1] = in.owner
           /\ l.topic[3] = in.tokenId)
=============================================================================
