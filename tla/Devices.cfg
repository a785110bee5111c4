SPECIFICATION Spec
CONSTANTS
  Ids = {d1, d2}
  Ports = {p1, p2}
  Kinds = {"tty", "tcp", "virtual"}
  None = None
  MaxBackends = 3
  MaxFrames = 6
SYMMETRY Symmetry
INVARIANTS
  NoDangling
  OneDevicePerId
  NoLeak
  LinksAreHonest
PROPERTIES
  OnlyPreferredReplaces
CHECK_DEADLOCK FALSE
CONSTRAINT OneOrTwo
