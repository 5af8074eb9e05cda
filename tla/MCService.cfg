\* Three tasks that start, stop and use the service, three activations.
CONSTANTS
  c1 = c1
  c2 = c2
  c3 = c3
  Callers = {c1, c2, c3}
  MaxActivations = 3
SPECIFICATION FairSpec
INVARIANTS
  TypeOK
  NoLeakedInstance
  OneActivation
PROPERTIES
  StopStops
  CallsReturn
