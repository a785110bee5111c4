SPECIFICATION CollectionSpec
CONSTANTS
  Torn = Torn
  SessionIds = {s1, s2}
  Values = {a}
  MaxValues = 2
  MaxFaults = 1
  None = None
SYMMETRY Symmetry
INVARIANTS
  DriversFitFiles
  WriterHasAttributes
PROPERTIES
  ValuesStay
CHECK_DEADLOCK FALSE
