CONSTANTS
  c1 = c1
  c2 = c2
  c3 = c3
  q1 = q1
  q2 = q2
  p1 = p1
  p2 = p2
  n1 = n1
  n2 = n2
  n3 = n3
  Caller <- MCCaller
  Process <- MCProcess
  home <- MCHome
  Plan <- MCPlan
  Nonce <- MCNonce
  approves <- MCApproves
  Files = 2
  Resources <- MCResources
  ReadBytes <- MCReadBytes
  Slots = 2
  Retained = 2
  Capacity = 1
  MaxEdits = 1
  None = None
SPECIFICATION Spec
SYMMETRY Symmetric
INVARIANTS
  NothingWrittenUnapproved
  ObservedIsComplete
  OneApprovalPerPlan
PROPERTIES
  NoSecondHand
CHECK_DEADLOCK FALSE
