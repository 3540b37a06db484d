CONSTANTS
  Chain <- VolumeChain
  Circuit <- SushiSwapBidirectional
  Capacity = 1
  Users <- MCUsers
  Mins <- MCMins
  Positions <- BidirectionalPositions
  Contracts <- MCContracts
  EventIDs <- MCEventIDs
  ValueBits = 2
  AddrBits = 2
  CountBits = 2

SPECIFICATION Spec
INVARIANTS
  ProofSound
