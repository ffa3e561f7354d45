CONSTANTS
  c1 = c1
  c2 = c2
  ch1 = ch1
  ch2 = ch2
  l1 = l1
  l2 = l2
  p1 = p1
  p2 = p2
  Caller <- MCCaller
  Child <- MCChild
  Partition <- MCPartition
  Pool <- MCPool
  Hold = 1
  Slots = 2
  Bytes = 1
  MaxCalls = 3
  Legacy = Legacy
  None = None
  Torn = Torn
SPECIFICATION Spec
SYMMETRY Symmetric
INVARIANTS
  OneLaunch
  JournalsAgree
  OneOwner
CHECK_DEADLOCK FALSE
