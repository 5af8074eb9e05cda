\* A mv whose source is below /ipfs/<cid>.
CONSTANTS
  c1 = c1
  c2 = c2
  c3 = c3
  Calls = {c1, c2}
  Names <- MCNames
  CidName = "cid"
  MaxDepth = 3
  InitialRoot <- MCInitialRoot
  Imported <- MCImportedDir
  Requests <- MCIpfsMvRequests
  MayCrash = FALSE
SPECIFICATION Spec
PROPERTIES
  MvFromIpfsRemovesNothing
CHECK_DEADLOCK FALSE
