CONSTANTS
  Team = Team
  Other = Other
  FlagIds = {f1, f2}
  NoTeam = NoTeam
  MaxLines = 2
  Waits = FALSE
SPECIFICATION Spec
CHECK_DEADLOCK FALSE
INVARIANT
  Understood
