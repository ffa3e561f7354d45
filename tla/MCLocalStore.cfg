CONSTANTS
  i1 = i1
  x = x
  y = y
  z = z
  big = big
  None = None
  Empty = Empty
  Writer = {w1, w2}
  Id = {i1}
  Bytes = {x, y, z, big}
  Large = {big}
  Allowing = {x, z}
  Naming = {x}
  Record <- OneIdRecords
  LateInterrupts = FALSE
  Faults = TRUE
SPECIFICATION FairSpec

  
PROPERTIES
  CommitIsAcknowledged
  RecordStoreSpec
  EveryCallReturns
CHECK_DEADLOCK FALSE
