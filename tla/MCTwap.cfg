CONSTANTS
  Storage <- TwapStorage
  Blocks = {0, 1}
  Contracts = {"Pair", "USDC"}
  Keys = {"price1CumulativeLast", "kLast"}
  BalanceSlot <- TwapBalanceSlot
  Circuit <- UniswapV2TWAP
  Capacity = 2
  Holders = {1}
  Mins = {1, 3}
  ValueBits = 2
  AddrBits = 2
  BlockBits = 2
SPECIFICATION Spec
INVARIANTS TypeOK BlockRangeExact
