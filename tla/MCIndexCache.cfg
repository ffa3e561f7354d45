CONSTANTS
  Absent = Absent
  Id = {i1, i2}
  _MAX_INDEX_SLOTS = 2
  Writer = {w1, w2, w3}
  LateInterrupts = FALSE
  Faults = TRUE
SYMMETRY Symmetry
SPECIFICATION IndexSpec

  
PROPERTIES
  PublishesOwnScan
CHECK_DEADLOCK FALSE
