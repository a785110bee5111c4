SPECIFICATION Spec
CONSTANTS
  Ids = {d1}
  Ports = {p1}
  Kinds = {"tty"}
  None = None
  MaxBackends = 2
  MaxFrames = 6
INVARIANTS
  ListedPortIsUsed
CHECK_DEADLOCK FALSE
