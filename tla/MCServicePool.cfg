CONSTANTS
  p1 = p1
  p2 = p2
  e1 = e1
  a1 = a1
  a2 = a2
  Process <- MCProcess
  Effect <- MCEffect
  Attempt <- MCAttempt
  HOLD = 2
  OutputHold = 1
  Slots = 1
  Bytes = 1
  GrantSlots = 1
  GrantBytes = 2
  MaxCommon = 1
  None = None
SPECIFICATION Spec
SYMMETRY Symmetric
INVARIANTS
  NeverOversold
  SpentOnce
PROPERTIES
  LaunchedInTime
  UnknownIsFinal
CHECK_DEADLOCK FALSE
