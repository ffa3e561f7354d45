CONSTANTS
  w1 = w1
  w2 = w2
  g = g
  k = k
  Root = {w1, w2}
  profiles <- MCProfiles
  approved = {w2}
  baseline <- MCBaseline
  Case = {g, k}
  Gain = {g}
  Reports <- MCReports
  ReadFiles <- MCReadFiles
  None = None
SPECIFICATION Spec
INVARIANTS
  PreparedIsEarned
  AdoptedOnce
  RecoveredOnce
PROPERTIES
  ToldHeadIsChained
CHECK_DEADLOCK FALSE
