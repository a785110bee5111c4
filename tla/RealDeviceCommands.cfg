SPECIFICATION FairSpec
CONSTANTS
  Ids = {d1}
  NoId = NoId
  Values = {v1}
  Queries = {}
  Ops = {"exec", "timed"}
  LateDelivery = FALSE
  SyncWaitIntervals = 0
  MaxCalls = 2
  MaxDepth = 2
  MaxWire = 1
  MaxLinks = 2
  MaxResets = 1
INVARIANTS
  PendingIsRegistered
  DisconnectEndsCommands
PROPERTIES
  ImplementsCommandService
  SilenceReleasesWaiters
  TimedCommandsEnd
CHECK_DEADLOCK FALSE
