\* Two tasks whose calls may overlap, two starts, the MFS is preloaded.
CONSTANTS
  t1 = t1
  t2 = t2
  Callers = {t1, t2}
  MaxActivations = 2
  MfsPreloading = TRUE
SPECIFICATION NodeFairSpec
INVARIANTS
  OneRepublisher
  RoundsFindTheDatastore
  StoppedNodeIsQuiet
PROPERTIES
  CallsAnswered
CHECK_DEADLOCK FALSE
