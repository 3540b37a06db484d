CONSTANTS
  Chain <- NftChain
  EventIDs = {"Transfer", "Approval"}
  Contracts = {1, 2}
  ValueBits = 2
  AddrBits = 2
  CountBits = 2
SPECIFICATION Spec
INVARIANT ProvesOwnership
