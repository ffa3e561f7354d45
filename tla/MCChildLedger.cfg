CONSTANTS
  cpu = cpu
  wall = wall
  None = None
  Unknown = Unknown
  Partial = Partial
  Caller = {c1, c2}
  Child = {k1, k2}
  Attempt = {t1, t2}
  Axis = {cpu, wall}
  Limit <- MCLimit
  Request <- MCRequest
  Measurement <- MCMeasurement
  MaxEvents = 5
SPECIFICATION FairSpec
INVARIANTS
  StateVerifies
  OneGoAhead
PROPERTIES
  BudgetSpec
  LockIsReleased
