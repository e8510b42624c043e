CONSTANTS
  Good = good
  Bad = {bad1, bad2, bad3, bad4}
  Failures = {1, 2}
  NoLine = NoLine
SPECIFICATION LiveSpec
CHECK_DEADLOCK FALSE
INVARIANTS
  VerdictRight
  CalledOnce
  LineOfCulprit
PROPERTY
  VerdictComes
