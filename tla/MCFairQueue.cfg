SPECIFICATION FairSpec
CONSTANTS
  a = a
  b = b
  a1 = a1
  a2 = a2
  a4 = a4
  b1 = b1
  r1 = r1
  r2 = r2
  NoItem = NoItem
  Items = {a1, a2, a4, b1}
  Members = {a, b}
  RequestIDs = {r1, r2}
  memberID <- MCMemberID
  requestID <- MCRequestID
  LimitSettings <- MCLimits
INVARIANTS
  TypeOK
  Bookkeeping
  SlotsHeld
  WorkConserving
  BoundedBypass
PROPERTIES
  SlotsWithinLimit
  ImplementsSlotPool
  EveryCallReturns
