CONSTANTS
  c1 = c1
  q1 = q1
  p1 = p1
  n1 = n1
  v1 = v1
  v2 = v2
  r1 = r1
  r2 = r2
  r3 = r3
  Caller = {c1}
  Process = {q1}
  home <- MCHome
  Plan = {p1}
  Nonce = {n1}
  approves <- MCApproves
  Files = 2
  Resources <- MCResources
  ReadBytes <- MCReadBytes
  Slots = 1
  Retained = 1
  Capacity = 1
  MaxEdits = 1
  Reviewer = {v1, v2}
  Review = {r1, r2, r3}
  operation = p1
  Calls <- MCCalls
  Bytes <- MCBytes
  expected <- MCExpected
  Altered <- MCAltered
  ReviewSlots = 1
  None = None
SPECIFICATION ReviewSpec
SYMMETRY Symmetric
INVARIANTS
  RetainedVerifies
  ReviewedIsAdopted
CHECK_DEADLOCK FALSE
