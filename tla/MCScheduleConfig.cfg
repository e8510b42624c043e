\* config.js in units of two seconds: check_interval 2000, plant_interval 10000
\* and the default max_time of 10000; timers are never late.
CONSTANTS
  PlantInterval = 5
  CheckInterval = 1
  MaxExec = 5
  Lag = 0
  Cmds = {c1}
  SpawnTime = 0
  Pause = 0
  PushLag = 0
SPECIFICATION Spec
PROPERTIES
  EveryRoundChecked
