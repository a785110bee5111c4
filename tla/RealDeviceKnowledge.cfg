SPECIFICATION Spec
CONSTANTS
  Ids = {d1, d2}
  NoId = NoId
  Values = {v1, v2}
  Queries = {"sensors", "state"}
  Ops = {"identify"}
  LateDelivery = FALSE
  SyncWaitIntervals = 1
  MaxCalls = 2
  MaxDepth = 2
  MaxWire = 2
  MaxLinks = 2
  MaxResets = 1
SYMMETRY Symmetry
INVARIANTS
  TypeOK
  StateIsCurrent
  DescriptionsAreOfThisDevice
  MismatchIsUnreachable
CHECK_DEADLOCK FALSE
CONSTRAINT StateOrIdentity
