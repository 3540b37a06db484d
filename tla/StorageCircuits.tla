--------------------------- MODULE StorageCircuits ---------------------------
(***************************************************************************)
(* The declarations of the storage-slot circuits: for each one the         *)
(* contract each slot must come from, whether its slot key is checked,     *)
(* which thresholds are asserted and the order of its Output* calls.  The  *)
(* engine that evaluates a declaration is StorageCircuit.                  *)
(***************************************************************************)

\* One Output* call: kind names what is written (the HolderAddr or PairAddr
\* input, the value of slot arg, the total, a threshold input, the block
\* number of slot arg, or EndBlock - StartBlock).
Item(kind, arg) == [kind |-> kind, arg |-> arg]

\* examples/tokenHolder: one slot, from the USDC contract, at the holder's
\* balanceOf slot; balance >= minimumBalance; outputs holder, balance and
\* the slot's block number.
TokenHolder ==
  [contracts  |-> <<"USDC">>,
   inputs     |-> {"holder"},
   pairInput  |-> FALSE,
   keyChecked |-> TRUE,
   upper      |-> FALSE,
   layout     |-> <<Item("holder", 0), Item("value", 1), Item("blockNum", 1)>>]

\* unnamed/part_003 (multichain balance): slot 1 from USDCEthereum, slot 2
\* from USDC_BSC, both at the holder's balanceOf slot; u248.Add of the two
\* balances >= MinTotalBalance; outputs holder, both balances, total, min.
MultichainBalance ==
  [contracts  |-> <<"USDC", "USDC_BSC">>,
   inputs     |-> {"holder", "min"},
   pairInput  |-> FALSE,
   keyChecked |-> TRUE,
   upper      |-> FALSE,
   layout     |-> <<Item("holder", 0), Item("value", 1), Item("value", 2),
                    Item("total", 0), Item("min", 0)>>]

\* unnamed/part_005 (Uniswap V2 TWAP): every slot from PairAddr, slot key
\* not checked (the TODO of the callback); MinPrice <= Sum <= MaxPrice;
\* outputs pair, sum, both bounds and u248.Sub(EndBlock, StartBlock).
UniswapV2TWAP ==
  [contracts  |-> <<"Pair", "Pair">>,
   inputs     |-> {"pair", "min", "max", "start", "end"},
   pairInput  |-> TRUE,
   keyChecked |-> FALSE,
   priceSlot  |-> "price1CumulativeLast",
   upper      |-> TRUE,
   layout     |-> <<Item("pair", 0), Item("total", 0), Item("min", 0),
                    Item("max", 0), Item("blockRange", 0)>>]
=============================================================================
