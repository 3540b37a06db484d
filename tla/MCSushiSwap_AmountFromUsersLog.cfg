CONSTANTS
  Chain <- VolumeChain
  Circuit <- SushiSwapVolume
  Capacity = 2
  Users <- MCUsers
  Mins <- MCMins
  Positions <- VolumePositions
  Contracts <- MCContracts
  EventIDs <- MCEventIDs
  ValueBits = 2
  AddrBits = 2
  CountBits = 2
SPECIFICATION Spec
INVARIANT
  AmountFromUsersLog
