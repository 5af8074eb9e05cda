\* Two calls that may time out; no crash, so that every call must end.
CONSTANTS
  c3 = c3
  c1 = c1
  c2 = c2
  Calls = {c1, c2}
  Names <- MCNames
  CidName = "cid"
  MaxDepth = 3
  InitialRoot <- MCInitialRoot
  Imported <- MCImported
  Requests <- MCTimedRequests
  MayCrash = FALSE
SPECIFICATION FairSpec
INVARIANTS
  RootIntact
  InSeries
  NoStaleRoot
PROPERTIES
  EveryCallEnds
CHECK_DEADLOCK FALSE
