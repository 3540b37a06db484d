------------------------------- MODULE Circuits -------------------------------
(***************************************************************************)
(* The declarations of the receipt-log circuits of examples/: for each one *)
(* the pattern its AssertEach callback checks, the fields its Map calls     *)
(* extract, the thresholds its AssertIsLessOrEqual calls state and the      *)
(* order of its Output* calls.  The engine that evaluates a declaration is  *)
(* ReceiptCircuit.                                                          *)
(*                                                                          *)
(* Fields are numbered from 1: Go's r.Fields[0] is field 1 here.            *)
(***************************************************************************)

\* A field declared as data word i (u248.IsZero(IsTopic), Index = i) or as
\* topic i (IsTopic, Index = i) of the event.
Data(i)  == [isTopic |-> FALSE, index |-> i]
Topic(i) == [isTopic |-> TRUE, index |-> i]

\* One Output* call: OutputAddress is "addr" (160 bits), OutputUint(248, _)
\* is "value", OutputUint(64, _) is "count".  kind names what is written:
\* the UserAddr input, the sum of amount field arg, the threshold input arg,
\* the u248.Add of the two sums, or sdk.Count.
Out(kind, arg, width) == [kind |-> kind, arg |-> arg, width |-> width]

\* An AssertIsLessOrEqual(c.Min<m>, observed): of = a compares against the sum
\* of amount a, of = 0 against sdk.Count.
AtLeast(m, of) == [min |-> m, of |-> of]

\* examples/dex-volume/sushiswap: field 1 = amount1Out (data 3), field 2 =
\* to (topic 2); the user must be the recipient.
SushiSwapVolume ==
  [contract     |-> "SushiUSDCWETH",
   eventID      |-> "Swap",
   fields       |-> <<Data(3), Topic(2)>>,
   userFields   |-> {2},
   amountFields |-> <<1>>,
   asserts      |-> <<AtLeast(1, 1)>>,
   addTotal     |-> FALSE,
   layout       |-> <<Out("user", 0, "addr"), Out("sum", 1, "value"),
                      Out("min", 1, "value"), Out("count", 0, "count")>>]

\* examples/dex-volume/sushiswap-bidirectional: amount1In (data 1),
\* amount1Out (data 3), sender (topic 1), to (topic 2); the user must be the
\* sender OR the recipient (u248.Or), both sums are asserted and then added.
SushiSwapBidirectional ==
  [contract     |-> "SushiUSDCWETH",
   eventID      |-> "Swap",
   fields       |-> <<Data(1), Data(3), Topic(1), Topic(2)>>,
   userFields   |-> {3, 4},
   amountFields |-> <<1, 2>>,
   asserts      |-> <<AtLeast(1, 1), AtLeast(2, 2)>>,
   addTotal     |-> TRUE,
   layout       |-> <<Out("user", 0, "addr"), Out("sum", 1, "value"),
                      Out("sum", 2, "value"), Out("total", 0, "value"),
                      Out("count", 0, "count")>>]

\* examples/dex-volume/sushiswap-lp: a Mint event; sender (topic 1) must be
\* the user, amount0 (data 0) and amount1 (data 1) are summed and asserted.
SushiSwapLP ==
  [contract     |-> "SushiUSDCWETH",
   eventID      |-> "Mint",
   fields       |-> <<Topic(1), Data(0), Data(1)>>,
   userFields   |-> {1},
   amountFields |-> <<2, 3>>,
   asserts      |-> <<AtLeast(1, 1), AtLeast(2, 2)>>,
   addTotal     |-> FALSE,
   layout       |-> <<Out("user", 0, "addr"), Out("sum", 1, "value"),
                      Out("sum", 2, "value"), Out("count", 0, "count")>>]

\* examples/cross-chain/layerzero-message: one field (data 2) of a
\* PayloadStored event, no user check at all, and the threshold is on
\* sdk.Count; the threshold input is written with OutputUint(64, _).
LayerZeroMessage ==
  [contract     |-> "LZEndpoint",
   eventID      |-> "PayloadStored",
   fields       |-> <<Data(2)>>,
   userFields   |-> {},
   amountFields |-> <<>>,
   asserts      |-> <<AtLeast(1, 0)>>,
   addTotal     |-> FALSE,
   layout       |-> <<Out("user", 0, "addr"), Out("count", 0, "count"),
                      Out("min", 1, "count")>>]

\* The single-amount volume circuits share one shape: field 1 the amount,
\* field 2 the user, one threshold, outputs user, sum, threshold, count.
OneAmount(contract, event, amount, userPos) ==
  [contract     |-> contract,
   eventID      |-> event,
   fields       |-> <<amount, userPos>>,
   userFields   |-> {2},
   amountFields |-> <<1>>,
   asserts      |-> <<AtLeast(1, 1)>>,
   addTotal     |-> FALSE,
   layout       |-> <<Out("user", 0, "addr"), Out("sum", 1, "value"),
                      Out("min", 1, "value"), Out("count", 0, "count")>>]

\* pancakeswap: amount1Out (data 3) of a BUSD/WBNB Swap, to (topic 2).
PancakeSwapVolume == OneAmount("PancakeBUSDWBNB", "Swap", Data(3), Topic(2))

\* uniswap-v3: amount1 (data 1, an int256 read as unsigned), recipient
\* (topic 2).
UniswapV3Volume == OneAmount("UniV3USDCWETH005", "SwapV3", Data(1), Topic(2))

\* curve-stableswap: tokens_bought (data 3) of TokenExchange, buyer (topic 1).
CurveVolume == OneAmount("Curve3Pool", "TokenExchange", Data(3), Topic(1))

\* polygon-bridge: amount (data 0) of LockedEther, depositor (topic 1).
PolygonBridge == OneAmount("RootChainManager", "LockedEther", Data(0), Topic(1))

\* compound: mintAmount (data 1) of a cUSDC Mint, minter (data 0).
CompoundSupply == OneAmount("cUSDC", "CMint", Data(1), Data(0))

\* aave: amount (data 1) of a Pool Supply, user (data 0).
AaveSupply == OneAmount("AavePool", "Supply", Data(1), Data(0))

\* balancer-weighted: amountOut (data 1) of a Vault Swap and tokenOut
\* (topic 3); no field is compared with UserAddr.
BalancerVolume ==
  [OneAmount("BalancerVault", "SwapB", Data(1), Topic(3)) EXCEPT !.userFields = {}]

\* uniswap-v2-bidirectional and uniswap-v2-lp / pancakeswap-lp have the
\* shapes of the sushiswap ones, on another pair.
UniswapV2Bidirectional == [SushiSwapBidirectional EXCEPT !.contract = "UniUSDCWETH"]
UniswapV2LP == [SushiSwapLP EXCEPT !.contract = "UniUSDCWETH"]
PancakeSwapLP == [SushiSwapLP EXCEPT !.contract = "PancakeBUSDWBNB"]
=============================================================================
