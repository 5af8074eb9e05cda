\* Two processes that use the repo, in turns or at a time, with crashes and failures.
CONSTANTS
  n1 = n1
  n2 = n2
  i1 = i1
  i2 = i2
  i3 = i3
  Nodes = {n1, n2}
  Identities = {i1, i2, i3}
  Given = {i3}
  None = None
  EmptyRepo = {TRUE, FALSE}
SPECIFICATION Spec
INVARIANTS
  TypeOK
  IdentityKept
  SelfIsTheNode
  CompleteUnlessCutOff
CHECK_DEADLOCK FALSE
