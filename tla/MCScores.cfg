CONSTANTS
  t1 = t1
  t2 = t2
  t3 = t3
  web = web
  blog = blog
  Points <- MCPoints
  Teams = {t1, t2}
  Flags <- MCFlags
  Challenges <- MCChallenges
  Reqs = {r1, r2}
  MaxChanges = 4
  MaxAsks = 3
  DbMayFail = TRUE
SPECIFICATION LiveSpec
CHECK_DEADLOCK FALSE
INVARIANTS
  CurvesEndAtTable
  GraphsConsistent
  CacheInOrder
PROPERTIES
  BoardsGrow
  EveryRequestServed
