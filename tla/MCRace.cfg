CONSTANTS
  Teams = {t1, t2}
  Services = {web}
  Conns = {c1}
  Reqs = {r1}
  NoTeam = NoTeam
  MaxExec = 0
  MaxTime = 2
  PlantTimes = {0, 1}
  CheckTimes = {2}
  MaxCrashes = 1
  PlantResults = {}
  CheckResults = {TRUE}
  DbMayFail = FALSE
  DbReorders = TRUE
SPECIFICATION Spec
CHECK_DEADLOCK FALSE
SYMMETRY Symmetry
INVARIANTS
  TypeOK
  CapturesInRound
  ChecksInRound
  AckedIsRecorded
  NoCheckAfterLoss
  CapturedOnce
