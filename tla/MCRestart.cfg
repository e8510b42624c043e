CONSTANTS
  Teams = {t1, t2}
  Services = {web}
  Conns = {c1}
  Reqs = {r1}
  NoTeam = NoTeam
  MaxExec = 0
  MaxTime = 1
  PlantTimes = {0}
  CheckTimes = {1}
  MaxCrashes = 1
  PlantResults = {TRUE}
  CheckResults = {TRUE}
  DbMayFail = TRUE
  DbReorders = TRUE
SPECIFICATION Spec
CHECK_DEADLOCK FALSE
SYMMETRY Symmetry
PROPERTIES
  LedgerKept
