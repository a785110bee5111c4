SPECIFICATION Spec
CONSTANTS
  Torn = Torn
  Times = {1, 2, 3}
  MaxValues = 4
  MaxFaults = 2
INVARIANTS
  DriverKnowsFile
  SettingsHaveFiles
  IndexFollowsData
  SearchFinds
PROPERTIES
  ImplementsValueLog
CHECK_DEADLOCK FALSE
