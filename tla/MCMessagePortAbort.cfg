\* A query that is aborted while its service runs.
CONSTANTS
  a = a
  b = b
  Clients = {a}
  MaxQueries <- MCMaxQueries
SPECIFICATION Spec
INVARIANTS
  AbortedQueryIsCancelled
CHECK_DEADLOCK FALSE
