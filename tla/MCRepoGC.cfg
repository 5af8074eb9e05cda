\* Three calls of any kind; none removes a block of the MFS by hand.
CONSTANTS
  r0 = r0
  r1 = r1
  f = f
  x = x
  y = y
  c1 = c1
  c2 = c2
  c3 = c3
  Cids <- MCCids
  Dag <- MCDag
  Calls = {c1, c2, c3}
  Requests <- MCRequests
  InitialRoot = r0
  InitialPins = {}
SPECIFICATION FairSpec
INVARIANTS
  TypeOK
  LockedPinsAreComplete
  UndisturbedMfsIsKept
PROPERTIES
  EveryCallEnds
CHECK_DEADLOCK FALSE
