SPECIFICATION Spec
CONSTANTS
  Procs = {p1, p2}
  Users = {u1, u2}
  Devs = {d}
  Backends = {b1, b2}
  Storages = {s}
  maxSyncCount = 1
  MaxDepth = 3
  None = None
SYMMETRY Symmetry
CONSTRAINT FewSubscriptions
INVARIANTS
  NoCommandOfDeleted
  CallbackAlive
  ListsAgree
  UserIsFixed
CHECK_DEADLOCK FALSE
