\* Three calls without timeouts, a crash at any moment.
CONSTANTS
  c1 = c1
  c2 = c2
  c3 = c3
  Calls = {c1, c2, c3}
  Names <- MCNames
  CidName = "cid"
  MaxDepth = 3
  InitialRoot <- MCInitialRoot
  Imported <- MCImported
  Requests <- MCRequests
  MayCrash = TRUE
SYMMETRY Symmetry
SPECIFICATION Spec
INVARIANTS
  TypeOK
PROPERTIES
  ImplementsAtomicMfs
  ChangesAreConfined
  MvKeepsItsSource
CHECK_DEADLOCK FALSE
