--------------------------- MODULE MCReceiptCircuit ---------------------------
(***************************************************************************)
(* Small instances of ReceiptCircuit for TLC.  Widths are scaled down:     *)
(* Uint248 is 2 bits, so two amounts of 2 already overflow it, addresses   *)
(* are 2 bits and OutputUint(64, _) is 2 bits.  Addresses and amounts are   *)
(* both numbers, so an amount can equal an address, as on chain.           *)
(***************************************************************************)
EXTENDS ReceiptCircuit, Circuits, TLC

\* Logs of a Uniswap-V2-style pair.  Swap(sender indexed, amount0In,
\* amount1In, amount0Out, amount1Out, to indexed); Burn(sender indexed,
\* amount0, amount1, to indexed).
SwapLog(c, sender, to, in1, out1) ==
  [contract |-> c, eventID |-> "Swap",
   topic |-> <<sender, to>>,
   data |-> (0 :> 0 @@ 1 :> in1 @@ 2 :> 0 @@ 3 :> out1)]
BurnLog(c, sender, a0, a1, to) ==
  [contract |-> c, eventID |-> "Burn", topic |-> <<sender, to>>,
   data |-> (0 :> a0 @@ 1 :> a1)]

MCContracts == {"SushiUSDCWETH", "UniUSDCWETH", "BalancerVault", "UniV3USDCWETH005"}
MCEventIDs  == {"Swap", "Mint", "Burn", "SwapB", "SwapV3"}

\* Transaction 1: a swap to user 1.  Transaction 2: a router trade through
\* the same pair twice, the first swap to user 2, the second to user 1.
\* Transaction 3: the same swap on another pair.
\* Transaction 4: a Burn whose recipient is user 1.
VolumeChain ==
  << << SwapLog("SushiUSDCWETH", 2, 1, 0, 2) >>,
     << SwapLog("SushiUSDCWETH", 1, 2, 1, 3), SwapLog("SushiUSDCWETH", 2, 1, 0, 1) >>,
     << SwapLog("UniUSDCWETH", 2, 1, 0, 3) >>,
     << BurnLog("SushiUSDCWETH", 2, 3, 3, 1) >> >>

\* The positions the sushiswap circuit declares, and the sender topic as a
\* decoy a prover could point the user field at.
VolumePositions == {Data(3), Topic(2), Topic(1)}

MCUsers == {1, 2}
MCMins  == {0, 3}

\* The positions the bidirectional circuit declares (no decoy: four fields
\* over two logs already give every mix of sender and recipient).
BidirectionalPositions == {Data(1), Data(3), Topic(1), Topic(2)}

\* Balancer Vault Swap(poolId, tokenIn, tokenOut indexed; amountIn,
\* amountOut): two swaps, neither of which carries address 1 or 2.
VaultLog(pool, tokenIn, tokenOut, amountIn, amountOut) ==
  [contract |-> "BalancerVault", eventID |-> "SwapB",
   topic |-> <<pool, tokenIn, tokenOut>>,
   data |-> (0 :> amountIn @@ 1 :> amountOut)]
BalancerChain ==
  << << VaultLog(3, 0, 3, 0, 3) >>, << VaultLog(3, 3, 0, 3, 0) >> >>
BalancerPositions == {Data(1), Topic(3)}

\* Uniswap V3 Swap(sender indexed, recipient indexed, amount0, amount1,
\* ...) with int256 amounts as 2-bit two's complement words: in
\* transaction 1 user 1 buys 1 WETH (amount1 = -1, the word 3), in
\* transaction 2 user 1 sells 1 WETH (amount1 = 1).
V3SwapLog(sender, recipient, amount0, amount1) ==
  [contract |-> "UniV3USDCWETH005", eventID |-> "SwapV3",
   topic |-> <<sender, recipient>>,
   data |-> (0 :> amount0 @@ 1 :> amount1)]
V3Chain ==
  << << V3SwapLog(2, 1, 1, 3) >>, << V3SwapLog(2, 1, 3, 1) >> >>
V3Positions == {Data(1), Topic(2), Data(0)}

=============================================================================
