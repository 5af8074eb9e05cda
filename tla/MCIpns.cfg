\* Two calls and the republisher, two keys, both kinds of routing.
CONSTANTS
  c1 = c1
  c2 = c2
  a = a
  b = b
  self = self
  other = other
  Keys = {self, other}
  Paths = {a, b}
  NoRecord = NoRecord
  Calls = {c1, c2}
  Requests <- MCRequests
  OwnKeys <- MCOwnKeys
  MaxDepth = 3
  InitialRoutings <- MCInitialRoutings
SPECIFICATION FairSpec
INVARIANTS
  TypeOK
  OneValuePerSequence
  PublishedValueStays
  CacheAgrees
  RoundsUntilStop
PROPERTIES
  CallsEnd
CHECK_DEADLOCK FALSE
