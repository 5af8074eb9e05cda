\* A transport with two queries and one with one.
CONSTANTS
  a = a
  b = b
  Clients = {a, b}
  MaxQueries <- MCMaxQueries
SPECIFICATION FairSpec
INVARIANTS
  TypeOK
  PendingQueries
  InOrder
  AnsweredByItsService
PROPERTIES
  QueriesSettle
CHECK_DEADLOCK FALSE
