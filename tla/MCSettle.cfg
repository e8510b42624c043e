CONSTANTS
  Teams = {t1, t2}
  Services = {web}
  Conns = {c1}
  Reqs = {r1}
  NoTeam = NoTeam
  MaxExec = 0
  MaxTime = 1
  PlantTimes = {0}
  CheckTimes = {1}
  MaxCrashes = 0
  PlantResults = {TRUE, FALSE}
  CheckResults = {TRUE}
  DbMayFail = FALSE
  DbReorders = FALSE
SPECIFICATION LiveSpec
CHECK_DEADLOCK FALSE
INVARIANTS
  NothingLost
PROPERTIES
  DeliverySettles
  CheckResultArrives
