SPECIFICATION Spec
CONSTANTS
  N = 3
  NoData = NoData
  Absent = Absent
  Empty = Empty
  MaxWrites = 8
INVARIANTS
  MemoryIsDisk
  StoredStay
