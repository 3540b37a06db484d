CONSTANTS
  Storage <- MultichainStorage
  Blocks = {0, 1}
  Contracts = {"USDC", "USDC_BSC"}
  Keys = {"bal1", "bal2", "bal3"}
  BalanceSlot <- MCBalanceSlot
  Circuit <- MultichainBalance
  Capacity = 2
  Holders = {1, 2, 3}
  Mins = {0, 2}
  ValueBits = 2
  AddrBits = 2
  BlockBits = 2
SPECIFICATION Spec
INVARIANT BalanceAttested
