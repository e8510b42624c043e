CONSTANTS
  Teams = {t1, t2}
  Services = {web}
  Conns = {c1}
  Reqs = {r1, r2}
  NoTeam = NoTeam
  MaxExec = 0
  MaxTime = 0
  PlantTimes = {0}
  CheckTimes = {}
  MaxCrashes = 0
  PlantResults = {}
  CheckResults = {}
  DbMayFail = FALSE
  DbReorders = FALSE
SPECIFICATION Spec
CHECK_DEADLOCK FALSE
SYMMETRY Symmetry
INVARIANTS
  CapturedOnce
