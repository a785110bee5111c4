SPECIFICATION Spec
CONSTANTS
  Programs <- ThreePrograms
  Vals = {v1, v2}
  Invalid = Invalid
  MaxTriggers = 3
INVARIANTS
  TriggersAreSeen
PROPERTIES
  CommandsAreFresh
  OnlyTheMutexBlocks
CHECK_DEADLOCK FALSE
