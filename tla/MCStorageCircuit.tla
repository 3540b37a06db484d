-------------------------- MODULE MCStorageCircuit --------------------------
(***************************************************************************)
(* Storage histories for TLC, at ValueBits = 2 (values 0..3).            *)
(***************************************************************************)
EXTENDS StorageCircuit, StorageCircuits, TLC

\* The encoders' facts (Encoding.tla), checked on every sequence of up to
\* three values and widths: values -1..4 around the 2-bit range, widths
\* 0..2 as in the runs.
SeqsUpTo(D, n) == UNION {[1..k -> D] : k \in 0..n}
ASSUME EncodingFacts ==
  /\ SumSeqNatOn(SeqsUpTo(0..3, 3))
  /\ EncodeBinaryOn(SeqsUpTo(-1..4, 3), SeqsUpTo(0..2, 3))

\* The balanceOf slots of holders 1, 2 and 3.
MCBalanceSlot == [h \in {1, 2, 3} |-> CASE h = 1 -> "bal1" [] h = 2 -> "bal2" [] h = 3 -> "bal3"]

\* TWAP has no holder and checks no slot key.
TwapBalanceSlot == [h \in {1} |-> "kLast"]

\* Holder 1 moves 1 token from USDC to USDC_BSC between blocks 0 and 1;
\* holder 2 holds 3 in each, holder 3 nothing.
MultichainStorage ==
  [b \in {0, 1} |-> [c \in {"USDC", "USDC_BSC"} |-> [k \in {"bal1", "bal2", "bal3"} |->
     CASE k = "bal2"    -> 3
       [] k = "bal3"    -> 0
       [] c = "USDC"    -> 1 - b
       [] OTHER         -> b]]]

\* The pair's price1CumulativeLast grows from 1 to 2; kLast is 0.
TwapStorage ==
  [b \in {0, 1} |-> [c \in {"Pair", "USDC"} |-> [k \in {"price1CumulativeLast", "kLast"} |->
     CASE c = "Pair" /\ k = "price1CumulativeLast" -> b + 1
       [] c = "Pair"                               -> 0
       [] OTHER                                    -> 0]]]
=============================================================================
