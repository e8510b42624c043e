\* Intervals that leave room for two checks of a round, and for a result to be
\* pushed before the next check.
CONSTANTS
  PlantInterval = 16
  CheckInterval = 6
  MaxExec = 3
  Lag = 1
  Cmds = {c1, c2}
  SpawnTime = 1
  Pause = 1
  PushLag = 1
SPECIFICATION Spec
PROPERTIES
  EveryRoundChecked
  LateCheckFindsSettled
  ChecksInOrder
