CONSTANTS
  Chain <- V3Chain
  Circuit <- UniswapV3Volume
  Capacity = 1
  Users <- MCUsers
  Mins <- MCMins
  Positions <- V3Positions
  Contracts <- MCContracts
  EventIDs <- MCEventIDs
  ValueBits = 2
  AddrBits = 2
  CountBits = 2
SPECIFICATION Spec
INVARIANT
  VolumeIsMagnitude
