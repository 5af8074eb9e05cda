CONSTANTS
  h1 = h1
  h2 = h2
  g1 = g1
  g2 = g2
  o = o
  shared = shared
  Http = {h1, h2}
  Grpc = {g1, g2}
  Local = {o}
  Objects = {o}
  Handlers = {shared}
  HandlerOf <- MCHandlerOf
  Companies <- MCCompanies
  MaxCalls = 2
  None = None
SPECIFICATION FairSpec
INVARIANTS
  TypeOK
  SubscriptionsAreServed
  ForgottenBeforeAnswered
PROPERTIES
  UnsubscribedAreForgotten
CHECK_DEADLOCK FALSE
