CONSTANTS
  NoPart = NoPart
  Me = me
  Others = {ann, bob}
  Known = {me, ann}
  MaxMoves = 2
  Peers <- MCPeers
  Users <- MCUsers
  Veterans <- MCVeterans
  Script <- MCScript
  Visitors <- MCVisitors
  Nameless <- MCNameless
  VizTeams <- MCVizTeams
  Docs <- MCDocs
  Slots = {s1, s2}
  NoUser = NoUser
  MaxStanzas = 6
  Gap = 1
  MaxSpeed = 2
  MaxNow = 16
  Null = Null
  MaxRequests = 3
  MaxClicks = 3
  MaxStarts = 3
  Teams = {t1, t2}
  Letters = 2
  MaxPings = 20
  MaxConnects = 3
SPECIFICATION PartsSpec
CHECK_DEADLOCK FALSE
INVARIANTS
  InformedOfAll
  ClientsAccounted
  TableRight
  RoomAgrees
  ReplayShowsAll
  ShowsOwn
  DaemonInHand
  PingsDistinct
PROPERTIES
  BlamedWithReason
  CheckEnds
  PollersCatchUp
