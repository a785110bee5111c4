SPECIFICATION LinkSpec
CONSTANTS
  Commands <- MCCommands
  Values <- MCValues
  bufSize = 6
  MaxWritten = 4
  MaxMeasured = 1
  MaxNested = 1
  MaxFaults = 2
INVARIANTS
  ServerHearsDevice
  DamageIsBounded
  OnlyFirstIsLost
  AnswersAreOfCalls
CHECK_DEADLOCK FALSE
CONSTRAINT WrittenOrRead
