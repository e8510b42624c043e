CONSTANTS
  Clients = {c1, c2, c3}
  Names = {n1, n2}
  NoName = NoName
  Nobody = Nobody
  Unreadable = Unreadable
  Moves <- Squares
  Waits = TRUE
SPECIFICATION Spec
CHECK_DEADLOCK FALSE
SYMMETRY Symmetry
CONSTRAINT FewSquaresOrPlayers
INVARIANTS
  GamesPaired
  RulesKept
  LoginsUnderWay
PROPERTIES
  NamesStay
