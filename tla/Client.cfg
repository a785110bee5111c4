SPECIFICATION Spec
CONSTANTS
  Links = {l1, l2, l3}
  Devs = {d}
  MaxFrames = 2
  MaxQueue = 1
  None = None
SYMMETRY Symmetry
INVARIANTS
  ReadyIffAuthenticated
  DevicesFollowServer
CHECK_DEADLOCK FALSE
