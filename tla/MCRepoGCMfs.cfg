\* A gc together with another gc, or with a change of the MFS.
CONSTANTS
  r0 = r0
  r1 = r1
  f = f
  x = x
  y = y
  c1 = c1
  c2 = c2
  c3 = c3
  Cids <- MCCids
  Dag <- MCDag
  Calls = {c1, c2}
  Requests <- MCMfsRequests
  InitialRoot = r0
  InitialPins = {}
SPECIFICATION Spec
INVARIANTS
  MfsIsKept
CHECK_DEADLOCK FALSE
