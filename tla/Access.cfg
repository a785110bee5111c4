SPECIFICATION Spec
CONSTANTS
  Devices = {d}
  MaxUsers = 1
  MaxGroups = 1
  MaxFaults = 2
  None = None
INVARIANTS
  ServerStartsAgain
  OwnRulesSurviveRestart
PROPERTIES
  IdsAreNew
CHECK_DEADLOCK FALSE
