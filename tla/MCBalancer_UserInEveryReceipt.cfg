CONSTANTS
  Chain <- BalancerChain
  Circuit <- BalancerVolume
  Capacity = 1
  Users <- MCUsers
  Mins <- MCMins
  Positions <- BalancerPositions
  Contracts <- MCContracts
  EventIDs <- MCEventIDs
  ValueBits = 2
  AddrBits = 2
  CountBits = 2

SPECIFICATION Spec
INVARIANT
  UserInEveryReceipt
