CONSTANTS
  Team = Team
  Other = Other
  FlagIds = {f1, f2}
  NoTeam = NoTeam
  MaxLines = 3
  Waits = TRUE
SPECIFICATION LiveSpec
CHECK_DEADLOCK FALSE
INVARIANTS
  RepliesInOrder
PROPERTY
  EveryLineAnswered
