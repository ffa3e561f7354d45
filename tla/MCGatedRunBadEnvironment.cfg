CONSTANTS
  a1 = a1
  e1 = e1
  e2 = e2
  e3 = e3
  h1 = h1
  None = None
  Run = {r1}
  Argv = {a1}
  Evidence <- MCEvidence
  Decide <- MCDecide
  Intent <- MCIntent
  argvOf <- MCArgvOf
  Given <- MCGiven
  Presented <- MCPresented
  Time = {0}
  AdoptedAt = 0
  TTL = 1
  BadEnvironment = {r1}
  Faults = FALSE
SPECIFICATION Spec
INVARIANTS
  SpentSaysSo
CHECK_DEADLOCK FALSE
